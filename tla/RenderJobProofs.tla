-------------------------- MODULE RenderJobProofs --------------------------
(***************************************************************************)
(* What the scheduler's decisions guarantee on every timeline, and the     *)
(* life of a render job for any timeline, pool, queue capacity and         *)
(* sequence of edits: its tiles are accounted for, it is returned once,    *)
(* and what the cache holds as current was rendered completely.            *)
(***************************************************************************)
EXTENDS RenderPipeline, TimelineLemmas, FiniteSetTheorems, SequenceTheorems,
        WellFoundedInduction

-----------------------------------------------------------------------------
(***************************************************************************)
(* Decisions: the urgent window covers the prebuffer, and the priority     *)
(* order ranks any tiles.                                                  *)
(***************************************************************************)
\* The prebuffer ends within the timeline.
LEMMA PrebufferFits ==
  ASSUME NEW position \in Boundaries
  PROVE  /\ prebufferFrames(position) \in Nat
         /\ position + prebufferFrames(position) <= TotalFrames
<1> DEFINE B == AudioBlockFrames
           left == TotalFrames - position
           blocks == left \div B
           wanted == Smaller(PrebufferBlocks, blocks)
<1>1. B \in Nat \ {0} /\ left \in Nat /\ position \in Nat /\ TotalFrames \in Nat
  BY TimelineAssumption DEF Boundaries
<1> HIDE DEF B, left
<1>2. left = B * blocks + (left % B) /\ left % B \in 0 .. B - 1 /\ blocks \in Nat
  BY <1>1, DivisionFacts
<1> HIDE DEF blocks
<1>3. wanted \in Nat /\ wanted <= blocks
  BY <1>2, SchedulingAssumption DEF Smaller
<1> HIDE DEF wanted
<1>4. B * wanted \in Nat /\ B * blocks \in Nat /\ B * (blocks - wanted) \in Nat
  BY <1>1, <1>2, <1>3
<1>5. B * (blocks - wanted) = B * blocks - B * wanted
  BY <1>1, <1>2, <1>3
<1>6. B * wanted <= left
  BY <1>1, <1>2, <1>4, <1>5
<1>7. prebufferFrames(position) = B * wanted
  BY DEF prebufferFrames, wanted, blocks, left, B
<1>8. left = TotalFrames - position
  BY DEF left
<1>9. QED
  BY <1>1, <1>4, <1>6, <1>7, <1>8

\* Every frame of the prebuffer is in a chunk of the urgent window.
LEMMA WindowCoversPrebuffer ==
  ASSUME NEW position \in Boundaries,
         NEW f \in position .. position + prebufferFrames(position) - 1
  PROVE  frameToChunk(f) \in UrgentWindow(position)
<1> DEFINE last == position + prebufferFrames(position) - 1
<1>1. /\ prebufferFrames(position) \in Nat
      /\ position + prebufferFrames(position) <= TotalFrames
  BY PrebufferFits
<1>2. /\ position \in Nat /\ f \in Nat /\ last \in Nat
      /\ position <= f /\ f <= last /\ position < TotalFrames
      /\ TotalFrames \in Nat /\ ChunkFrames \in Nat \ {0}
      /\ prebufferFrames(position) # 0
  BY <1>1, TimelineAssumption DEF Boundaries
<1>3. /\ frameToChunk(position) \in Nat /\ frameToChunk(f) \in Nat
      /\ frameToChunk(last) \in Nat
      /\ frameToChunk(position) <= frameToChunk(f)
      /\ frameToChunk(f) <= frameToChunk(last)
  BY <1>2, DivisionMonotone DEF frameToChunk
<1>4. ChunkCount \in Int
  <2>1. TotalFrames - 1 \in Nat
    BY <1>2
  <2>2. (TotalFrames - 1) \div ChunkFrames \in Nat
    BY <1>2, <2>1, DivisionFacts
  <2>3. QED
    BY <2>2 DEF ChunkCount
<1>5. urgentChunkEnd(position) \in Int /\ urgentChunkEnd(position) > frameToChunk(last)
  <2> DEFINE configuredEnd == frameToChunk(position)
                 + Smaller(UrgentChunks, ChunkCount - frameToChunk(position))
  <2>1. configuredEnd \in Int
    BY <1>3, <1>4, SchedulingAssumption DEF Smaller
  <2>2. urgentChunkEnd(position) = Larger(configuredEnd, frameToChunk(last) + 1)
    BY <1>2 DEF urgentChunkEnd
  <2> HIDE DEF configuredEnd, last
  <2>3. QED
    BY <1>3, <2>1, <2>2 DEF Larger
<1> HIDE DEF last
<1>6. QED
  BY <1>2, <1>3, <1>5 DEF UrgentWindow

\* What the pending queue orders.
RankedTile == [classification : Classification, sequence : Nat]

\* The comparator of either policy is a strict order that ranks any two tiles
\* of different sequence: std::priority_queue may be used with it, and the tile
\* it yields next is unique (SchedulingPolicyCompare::operator()).
THEOREM PrecedenceIsTotal ==
  ASSUME NEW a \in RankedTile, NEW b \in RankedTile, NEW c \in RankedTile
  PROVE  /\ ~hasLowerPrecedence(a, a)
         /\ hasLowerPrecedence(a, b) /\ hasLowerPrecedence(b, c)
              => hasLowerPrecedence(a, c)
         /\ a.sequence # b.sequence
              => hasLowerPrecedence(a, b) \/ hasLowerPrecedence(b, a)
<1> DEFINE Comparable(t) ==
             /\ t.classification.priority \in Int
             /\ t.classification.deadlineFrame \in Int
             /\ t.classification.distanceInFrames \in Int
             /\ t.sequence \in Int
<1>1. ASSUME NEW t \in RankedTile PROVE Comparable(t)
  <2>1. t.classification \in Classification /\ t.sequence \in Nat
    BY DEF RankedTile
  <2>2. /\ t.classification.priority \in {Urgent, Visible, Background}
        /\ t.classification.deadlineFrame \in Frames \cup {-1}
        /\ t.classification.distanceInFrames \in Nat
    BY <2>1 DEF Classification
  <2>3. t.classification.deadlineFrame \in Int
    BY <2>2, TimelineAssumption DEF Frames
  <2>4. t.classification.priority \in Int
    BY <2>2 DEF Urgent, Visible, Background
  <2>5. QED
    BY <2>1, <2>2, <2>3, <2>4
<1>2. Comparable(a) /\ Comparable(b) /\ Comparable(c)
  BY <1>1
<1>3. /\ ~lessImportant(a, a)
      /\ lessImportant(a, b) /\ lessImportant(b, c) => lessImportant(a, c)
      /\ a.sequence # b.sequence => lessImportant(a, b) \/ lessImportant(b, a)
  <2>1. ~lessImportant(a, a)
    BY <1>2, SMT DEF lessImportant, submittedLater
  <2>2. lessImportant(a, b) /\ lessImportant(b, c) => lessImportant(a, c)
    BY <1>2, SMTT(60) DEF lessImportant, submittedLater
  <2>3. a.sequence # b.sequence => lessImportant(a, b) \/ lessImportant(b, a)
    BY <1>2, SMT DEF lessImportant, submittedLater
  <2>4. QED
    BY <2>1, <2>2, <2>3
<1>4. QED
  BY <1>2, <1>3 DEF hasLowerPrecedence, submittedLater

\* Only a pass that begins reads the position of playback anew.
LEMMA PlayheadStep ==
  ASSUME [Next]_vars
  PROVE  playhead' = playhead \/ playhead' \in Playheads
<1> SUFFICES ASSUME Next
             PROVE  playhead' = playhead \/ playhead' \in Playheads
  BY DEF vars, passVars
<1>1. CASE Control
  BY <1>1 DEF Control, Start, StopScheduler, StopExecutor, JoinWorkers, passVars
<1>2. CASE Command
  BY <1>2 DEF Command, Play, Pause, Seek, SetViewport, Edit, passVars
<1>3. CASE LeaveLoop \/ EndCommands
  BY <1>3 DEF LeaveLoop, EndCommands, passVars
<1>4. CASE SchedulerLoop
  <2>1. CASE \E position \in Playheads : BeginPass(position)
    BY <2>1 DEF BeginPass
  <2>2. CASE \/ InvalidateChunk \/ EndEdit \/ CollectJob \/ EndCollect
             \/ \E lead \in Leads : UpdateBackgroundAdmission(lead)
    BY <2>2 DEF InvalidateChunk, EndEdit, CollectJob, EndCollect,
                UpdateBackgroundAdmission, passVars
  <2>3. CASE ScheduleChunk \/ EndSchedule \/ BeginMakeRoom \/ Evict \/ KeepTile
    BY <2>3 DEF ScheduleChunk, EndSchedule, BeginMakeRoom, Evict, KeepTile,
                passVars
  <2>4. CASE RetireTile \/ EndMakeRoom \/ ScanChunk \/ EndScan
    BY <2>4 DEF RetireTile, EndMakeRoom, ScanChunk, EndScan, passVars
  <2>5. CASE DispatchTile \/ EndDispatch
    BY <2>5 DEF DispatchTile, EndDispatch, passVars
  <2>6. QED
    BY <1>4, <2>1, <2>2, <2>3, <2>4, <2>5 DEF SchedulerLoop
<1>5. CASE \E w \in Worker : WorkerStep(w)
  BY <1>5 DEF WorkerStep, TakeTask, ExitWorker, BeginRender, GiveUp, EndRender,
              FailRender, FinishTile, PublishCompleted, workerOnly, passVars
<1>6. QED
  BY <1>1, <1>2, <1>3, <1>4, <1>5 DEF Next

\* Wherever playback is, every chunk it needs before it can start is urgent
\* (Scheduler::urgentChunkEnd), for every timeline, prebuffer and width of the
\* configured window.
THEOREM PrebufferIsUrgent == Spec => []UrgentWindowCoversPrebuffer
<1>1. Init => playhead \in Boundaries
  BY TimelineAssumption DEF Init, Boundaries
<1>2. playhead \in Boundaries /\ [Next]_vars => (playhead \in Boundaries)'
  BY PlayheadStep, PipelineAssumption
<1>3. playhead \in Boundaries => UrgentWindowCoversPrebuffer
  BY WindowCoversPrebuffer DEF UrgentWindowCoversPrebuffer
<1>4. QED
  BY <1>1, <1>2, <1>3, PTL DEF Spec

-----------------------------------------------------------------------------
(***************************************************************************)
(* Chunks.                                                                 *)
(***************************************************************************)
LEMMA ChunkFacts ==
  /\ ChunkCount \in Nat \ {0}
  /\ \A f \in Frames : frameToChunk(f) \in Chunks
  /\ \A c \in Chunks : firstFrameOfChunk(c) \in Frames
<1> DEFINE q == (TotalFrames - 1) \div ChunkFrames
<1>1. /\ ChunkFrames \in Nat \ {0} /\ TotalFrames - 1 \in Nat
      /\ TotalFrames \in Nat
  BY TimelineAssumption
<1>2. /\ q \in Nat
      /\ TotalFrames - 1 = ChunkFrames * q + ((TotalFrames - 1) % ChunkFrames)
      /\ (TotalFrames - 1) % ChunkFrames \in 0 .. ChunkFrames - 1
  BY <1>1, DivisionFacts
<1>3. ChunkCount = 1 + q
  BY DEF ChunkCount
<1> HIDE DEF q
<1>4. ChunkCount \in Nat \ {0} /\ Chunks = 0 .. q
  BY <1>2, <1>3 DEF Chunks
<1>5. ASSUME NEW f \in Frames PROVE frameToChunk(f) \in Chunks
  <2>1. f \in Nat /\ f <= TotalFrames - 1
    BY <1>1 DEF Frames
  <2>2. f \div ChunkFrames \in Nat
        /\ f \div ChunkFrames <= (TotalFrames - 1) \div ChunkFrames
    BY <1>1, <2>1, DivisionMonotone
  <2>3. QED
    BY <1>2, <1>4, <2>2 DEF frameToChunk, q
<1>6. ASSUME NEW c \in Chunks PROVE firstFrameOfChunk(c) \in Frames
  <2>1. c \in Nat /\ q - c \in Nat
    BY <1>2, <1>4
  <2>2. /\ c * ChunkFrames \in Nat /\ ChunkFrames * (q - c) \in Nat
        /\ ChunkFrames * (q - c) = ChunkFrames * q - c * ChunkFrames
    BY <1>1, <1>2, <2>1
  <2>3. ChunkFrames * q \in Nat
    BY <1>1, <1>2
  <2>4. c * ChunkFrames <= TotalFrames - 1
    BY <1>1, <1>2, <2>2, <2>3
  <2>5. QED
    BY <1>1, <2>2, <2>4 DEF firstFrameOfChunk, Frames
<1>7. QED
  BY <1>4, <1>5, <1>6

LEMMA SeqOf ==
  ASSUME NEW S, NEW n \in Nat, NEW s \in [1 .. n -> S]
  PROVE  s \in Seq(S) /\ Len(s) = n /\ DOMAIN s = 1 .. n
<1>1. s \in Seq(S)
  BY SeqDef
<1>2. Len(s) \in Nat /\ 1 .. Len(s) = 1 .. n
  BY <1>1, LenProperties
<1>3. QED
  BY <1>1, <1>2

LEMMA ItemOf ==
  ASSUME NEW S, NEW s \in Seq(S), NEW i \in DOMAIN s
  PROVE  s[i] \in S
BY ElementOfSeq, LenProperties

LEMMA ChunkSeqTyped ==
  ASSUME NEW first \in Nat, NEW end \in Int, end <= ChunkCount
  PROVE  SeqOfChunks(first, end) \in Seq(Chunks)
<1> DEFINE n == Larger(0, end - first)
<1>1. n \in Nat /\ \A i \in 1 .. n : i <= end - first
  BY DEF Larger
<1>2. ChunkCount \in Nat
  BY ChunkFacts
<1> HIDE DEF n
<1>3. \A i \in 1 .. n : first + i - 1 \in Chunks
  BY <1>1, <1>2 DEF Chunks
<1>4. SeqOfChunks(first, end) = [i \in 1 .. n |-> first + i - 1]
  BY DEF SeqOfChunks, n
<1>5. [i \in 1 .. n |-> first + i - 1] \in [1 .. n -> Chunks]
  BY <1>3
<1>6. QED
  BY <1>1, <1>4, <1>5, SeqOf

LEMMA ClassificationTyped ==
  ASSUME NEW c \in Chunks, NEW position \in Boundaries, NEW requested, NEW view
  PROVE  classifyChunk(c, position, requested, view) \in Classification
<1>1. firstFrameOfChunk(c) \in Frames /\ firstFrameOfChunk(c) \in Int
      /\ position \in Int
  BY ChunkFacts, TimelineAssumption DEF Frames, Boundaries
<1>2. Larger(firstFrameOfChunk(c) - position, position - firstFrameOfChunk(c))
        \in Nat
  BY <1>1 DEF Larger
<1>3. QED
  BY <1>1, <1>2 DEF classifyChunk, Classification

\* The urgent window is on the timeline.
LEMMA UrgentEnd ==
  ASSUME NEW position \in Boundaries, position # TotalFrames
  PROVE  /\ frameToChunk(position) \in Nat /\ frameToChunk(position) < ChunkCount
         /\ urgentChunkEnd(position) \in Int /\ urgentChunkEnd(position) <= ChunkCount
<1>1. position \in Frames /\ position \in Nat
  BY TimelineAssumption DEF Frames, Boundaries
<1>2. frameToChunk(position) \in Chunks /\ ChunkCount \in Nat
  BY <1>1, ChunkFacts
<1>3. frameToChunk(position) \in Nat /\ frameToChunk(position) < ChunkCount
  BY <1>2 DEF Chunks
<1> DEFINE ahead == prebufferFrames(position)
           configuredEnd == frameToChunk(position)
               + Smaller(UrgentChunks, ChunkCount - frameToChunk(position))
<1>4. configuredEnd \in Int /\ configuredEnd <= ChunkCount
  BY <1>2, <1>3, SchedulingAssumption DEF Smaller
<1>5. urgentChunkEnd(position) \in Int /\ urgentChunkEnd(position) <= ChunkCount
  <2>1. ahead \in Nat /\ position + ahead <= TotalFrames
    BY PrebufferFits
  <2>2. CASE ahead = 0
    BY <1>4, <2>2 DEF urgentChunkEnd
  <2>3. CASE ahead # 0
    <3>1. position + ahead - 1 \in Frames
      BY <1>1, <2>1, <2>3, TimelineAssumption DEF Frames
    <3>2. frameToChunk(position + ahead - 1) \in Chunks
      BY <3>1, ChunkFacts
    <3>3. urgentChunkEnd(position)
            = Larger(configuredEnd, frameToChunk(position + ahead - 1) + 1)
      BY <2>3 DEF urgentChunkEnd
    <3> HIDE DEF configuredEnd, ahead
    <3>4. QED
      BY <1>2, <1>4, <3>2, <3>3 DEF Larger, Chunks
  <2>4. QED
    BY <2>2, <2>3
<1>6. QED
  BY <1>3, <1>5

LEMMA UrgentSeqTyped ==
  ASSUME NEW position \in Boundaries
  PROVE  UrgentChunkSeq(position) \in Seq(Chunks)
<1>1. CASE ~playRequested \/ position = TotalFrames
  BY <1>1 DEF UrgentChunkSeq
<1>2. CASE playRequested /\ position # TotalFrames
  BY <1>2, UrgentEnd, ChunkSeqTyped DEF UrgentChunkSeq
<1>3. QED
  BY <1>1, <1>2

LEMMA VisibleSeqTyped ==
  ASSUME viewport \in Boundaries \X Boundaries
  PROVE  VisibleChunks \in Seq(Chunks)
<1> DEFINE last == frameToChunk(Smaller(viewport[2], TotalFrames) - 1) + 1
<1>1. CASE viewport[2] <= viewport[1]
  BY <1>1 DEF VisibleChunks
<1>2. CASE ~(viewport[2] <= viewport[1])
  <2>1. viewport[1] \in Nat /\ viewport[2] \in Nat \ {0}
        /\ viewport[2] <= TotalFrames /\ TotalFrames \in Nat
    BY <1>2, TimelineAssumption DEF Boundaries
  <2>2. frameToChunk(viewport[1]) \in Nat
    BY <2>1, TimelineAssumption, DivisionFacts DEF frameToChunk
  <2>3. Smaller(viewport[2], TotalFrames) - 1 \in Frames
    BY <2>1 DEF Smaller, Frames
  <2>4. last \in Int
    BY <2>3, ChunkFacts DEF Chunks
  <2>5. ChunkCount \in Nat
    BY ChunkFacts
  <2>6. VisibleChunks
          = SeqOfChunks(frameToChunk(viewport[1]), Smaller(last, ChunkCount))
    BY <1>2 DEF VisibleChunks
  <2> HIDE DEF last
  <2>7. Smaller(last, ChunkCount) \in Int
        /\ Smaller(last, ChunkCount) <= ChunkCount
    BY <2>4, <2>5 DEF Smaller
  <2>8. QED
    BY <2>2, <2>6, <2>7, ChunkSeqTyped
<1>3. QED
  BY <1>1, <1>2

\* What an edit invalidates is on the timeline.
LEMMA InvalidatedBounds ==
  ASSUME NEW first \in Int, NEW last \in Int
  PROVE  /\ firstInvalidated(first) \in Chunks
         /\ lastInvalidated(first, last) \in Chunks
<1> DEFINE from == clampTimelineFrame(first)
           to == clampTimelineFrame(Larger(from, last))
<1>1. from \in Frames
  BY ClampFacts
<1>2. Larger(from, last) \in Int
  BY <1>1, TimelineAssumption DEF Frames, Larger
<1>3. to \in Frames
  BY <1>2, ClampFacts
<1> HIDE DEF from, to
<1>4. /\ Larger(0, from - ContextFrames) \in Frames
      /\ to + Smaller(ContextFrames, TotalFrames - 1 - to) \in Frames
  BY <1>1, <1>3, TimelineAssumption DEF Frames, Larger, Smaller
<1>5. QED
  BY <1>4, ChunkFacts DEF firstInvalidated, lastInvalidated, from, to

LEMMA InvalidatedSeqTyped ==
  ASSUME NEW first \in Int, NEW last \in Int
  PROVE  SeqOfChunks(firstInvalidated(first), lastInvalidated(first, last) + 1)
           \in Seq(Chunks)
<1>1. /\ firstInvalidated(first) \in Chunks
      /\ lastInvalidated(first, last) \in Chunks
  BY InvalidatedBounds
<1>2. QED
  BY <1>1, ChunkFacts, ChunkSeqTyped DEF Chunks

-----------------------------------------------------------------------------
(***************************************************************************)
(* Counting the tiles of a job in a sequence.                              *)
(***************************************************************************)
At(seq, job) == {i \in DOMAIN seq : seq[i].job = job}

Has(seq, job, tile) == \E i \in DOMAIN seq : seq[i].job = job /\ seq[i].tile = tile

\* Sets whose elements correspond have the same size.
LEMMA SameSize ==
  ASSUME NEW A, NEW B, IsFiniteSet(A), NEW f \in [A -> B],
         \A x, y \in A : f[x] = f[y] => x = y,
         \A b \in B : \E a \in A : f[a] = b
  PROVE  IsFiniteSet(B) /\ Cardinality(B) = Cardinality(A)
<1>1. f \in Bijection(A, B)
  BY DEF Bijection, Injection, Surjection, IsInjective
<1>2. ExistsBijection(A, B)
  BY <1>1 DEF ExistsBijection
<1>3. QED
  BY <1>2, FS_Bijection

LEMMA CountFacts ==
  ASSUME NEW S, NEW s \in Seq(S), NEW j
  PROVE  /\ IsFiniteSet(At(s, j))
         /\ TilesIn(s, j) = Cardinality(At(s, j))
         /\ TilesIn(s, j) \in Nat
         /\ TilesIn(s, j) = 0 <=> \A i \in DOMAIN s : s[i].job # j
         /\ TilesIn(s, j) = 0 <=> j \notin JobsIn(s)
<1>1. IsFiniteSet(DOMAIN s)
  BY FS_Interval
<1>2. IsFiniteSet(At(s, j))
  BY <1>1, FS_Subset DEF At
<1>3. TilesIn(s, j) = Cardinality(At(s, j))
  BY DEF TilesIn, At
<1>4. /\ Cardinality(At(s, j)) \in Nat
      /\ Cardinality(At(s, j)) = 0 <=> At(s, j) = {}
  BY <1>2, FS_CardinalityType, FS_EmptySet
<1>5. QED
  BY <1>2, <1>3, <1>4 DEF At, JobsIn

LEMMA EmptyCount ==
  ASSUME NEW j
  PROVE  /\ TilesIn(<<>>, j) = 0 /\ JobsIn(<<>>) = {}
         /\ \A t : ~Has(<<>>, j, t)
<1>1. <<>> \in Seq({}) /\ DOMAIN <<>> = {}
  BY EmptySeq, LenProperties
<1>2. TilesIn(<<>>, j) = 0
  BY <1>1, CountFacts
<1>3. QED
  BY <1>1, <1>2 DEF JobsIn, Has

\* A tile more at the end.
LEMMA AppendCount ==
  ASSUME NEW S, NEW s \in Seq(S), NEW x \in S, NEW j
  PROVE  /\ TilesIn(Append(s, x), j)
              = TilesIn(s, j) + (IF x.job = j THEN 1 ELSE 0)
         /\ \A t : Has(Append(s, x), j, t)
                     <=> Has(s, j, t) \/ (x.job = j /\ x.tile = t)
         /\ JobsIn(Append(s, x)) = JobsIn(s) \cup {x.job}
<1> DEFINE r == Append(s, x)
           n == Len(s)
<1>1. /\ r \in Seq(S) /\ n \in Nat /\ DOMAIN s = 1 .. n /\ DOMAIN r = 1 .. n + 1
      /\ \A i \in 1 .. n : r[i] = s[i]
      /\ r[n + 1] = x
  OBVIOUS
<1> HIDE DEF r, n
<1>2. At(r, j) = IF x.job = j THEN At(s, j) \cup {n + 1} ELSE At(s, j)
  BY <1>1 DEF At
<1>3. n + 1 \notin At(s, j)
  BY <1>1 DEF At
<1>4. TilesIn(r, j) = TilesIn(s, j) + (IF x.job = j THEN 1 ELSE 0)
  BY <1>1, <1>2, <1>3, CountFacts, FS_AddElement
<1>5. \A t : Has(r, j, t) <=> Has(s, j, t) \/ (x.job = j /\ x.tile = t)
  BY <1>1 DEF Has
<1>6. JobsIn(r) = JobsIn(s) \cup {x.job}
  BY <1>1 DEF JobsIn
<1>7. QED
  BY <1>4, <1>5, <1>6 DEF r

\* r is s without its k-th item.
Without(r, s, k) ==
    /\ Len(r) = Len(s) - 1
    /\ \A i \in 1 .. Len(r) : r[i] = s[IF i < k THEN i ELSE i + 1]

\* A tile less, wherever it was.
LEMMA RemoveCount ==
  ASSUME NEW S, NEW s \in Seq(S), NEW k \in DOMAIN s, NEW r \in Seq(S), NEW j,
         Without(r, s, k)
  PROVE  /\ TilesIn(s, j) = TilesIn(r, j) + (IF s[k].job = j THEN 1 ELSE 0)
         /\ \A t : Has(s, j, t) <=> Has(r, j, t) \/ (s[k].job = j /\ s[k].tile = t)
         /\ JobsIn(s) = JobsIn(r) \cup {s[k].job}
<1> DEFINE n == Len(s)
           from(i) == IF i < k THEN i ELSE i + 1
           to(i) == IF i < k THEN i ELSE i - 1
<1>1. n \in Nat /\ DOMAIN s = 1 .. n /\ k \in 1 .. n /\ DOMAIN r = 1 .. n - 1
      /\ Len(r) = n - 1
  BY LenProperties DEF Without
<1>2. /\ \A i \in 1 .. n - 1 : from(i) \in (1 .. n) \ {k} /\ to(from(i)) = i
      /\ \A i \in (1 .. n) \ {k} : to(i) \in 1 .. n - 1 /\ from(to(i)) = i
  BY <1>1
<1>3. /\ \A i \in 1 .. n - 1 : r[i] = s[from(i)]
      /\ \A i \in (1 .. n) \ {k} : s[i] = r[to(i)]
  <2>1. \A i \in 1 .. n - 1 : r[i] = s[from(i)]
    BY <1>1 DEF Without
  <2> HIDE DEF from, to, n
  <2>2. QED
    BY <1>2, <2>1
<1> HIDE DEF from, to, n
<1>4. TilesIn(s, j) = TilesIn(r, j) + (IF s[k].job = j THEN 1 ELSE 0)
  <2> DEFINE f == [i \in At(s, j) \ {k} |-> to(i)]
  <2>1. f \in [At(s, j) \ {k} -> At(r, j)]
    BY <1>1, <1>2, <1>3 DEF At
  <2>2. \A x, y \in At(s, j) \ {k} : f[x] = f[y] => x = y
    BY <1>1, <1>2 DEF At
  <2>3. \A b \in At(r, j) : \E a \in At(s, j) \ {k} : f[a] = b
    <3> SUFFICES ASSUME NEW b \in At(r, j)
                 PROVE  \E a \in At(s, j) \ {k} : f[a] = b
      OBVIOUS
    <3>1. from(b) \in At(s, j) \ {k} /\ to(from(b)) = b
      BY <1>1, <1>2, <1>3 DEF At
    <3>2. QED
      BY <3>1
  <2>4. /\ IsFiniteSet(At(s, j) \ {k})
        /\ Cardinality(At(s, j) \ {k})
             = IF k \in At(s, j) THEN Cardinality(At(s, j)) - 1
               ELSE Cardinality(At(s, j))
    BY CountFacts, FS_RemoveElement
  <2> HIDE DEF f
  <2> DEFINE A == At(s, j) \ {k}
             B == At(r, j)
  <2>5. Cardinality(At(r, j)) = Cardinality(At(s, j) \ {k})
    <3>1. /\ IsFiniteSet(A) /\ f \in [A -> B]
          /\ \A x, y \in A : f[x] = f[y] => x = y
          /\ \A b \in B : \E a \in A : f[a] = b
      BY <2>1, <2>2, <2>3, <2>4
    <3> HIDE DEF A, B
    <3>2. Cardinality(B) = Cardinality(A)
      BY <3>1, SameSize
    <3>3. QED
      BY <3>2 DEF A, B
  <2>6. k \in At(s, j) <=> s[k].job = j
    BY DEF At
  <2>7. /\ TilesIn(s, j) = Cardinality(At(s, j)) /\ TilesIn(s, j) \in Nat
        /\ TilesIn(r, j) = Cardinality(At(r, j))
    BY CountFacts
  <2>8. QED
    BY <2>4, <2>5, <2>6, <2>7
<1>5. /\ \A i \in DOMAIN r : \E m \in DOMAIN s : r[i] = s[m]
      /\ \A m \in DOMAIN s : m = k \/ \E i \in DOMAIN r : s[m] = r[i]
  BY <1>1, <1>2, <1>3
<1>6. \A t : Has(s, j, t) <=> Has(r, j, t) \/ (s[k].job = j /\ s[k].tile = t)
  BY <1>5 DEF Has
<1>7. JobsIn(s) = JobsIn(r) \cup {s[k].job}
  BY <1>5 DEF JobsIn
<1>8. QED
  BY <1>4, <1>6, <1>7

\* A tile less at the front.
LEMMA TailCount ==
  ASSUME NEW S, NEW s \in Seq(S), s # <<>>, NEW j
  PROVE  /\ Head(s) \in S /\ Tail(s) \in Seq(S) /\ Len(Tail(s)) = Len(s) - 1
         /\ TilesIn(s, j) = TilesIn(Tail(s), j) + (IF Head(s).job = j THEN 1 ELSE 0)
         /\ \A t : Has(s, j, t)
                     <=> Has(Tail(s), j, t) \/ (Head(s).job = j /\ Head(s).tile = t)
         /\ JobsIn(s) = JobsIn(Tail(s)) \cup {Head(s).job}
<1>1. 1 \in DOMAIN s /\ Head(s) = s[1]
  BY EmptySeq, LenProperties
<1>2. /\ Head(s) \in S /\ Tail(s) \in Seq(S) /\ Len(Tail(s)) = Len(s) - 1
      /\ \A i \in 1 .. Len(Tail(s)) : Tail(s)[i] = s[i + 1]
  BY HeadTailProperties
<1> DEFINE k == 1
           r == Tail(s)
<1>3. Without(r, s, k)
  BY <1>2 DEF Without
<1>4. k \in DOMAIN s /\ Head(s) = s[k] /\ r \in Seq(S)
  BY <1>1, <1>2
<1> HIDE DEF k, r
<1>5. /\ TilesIn(s, j) = TilesIn(r, j) + (IF s[k].job = j THEN 1 ELSE 0)
      /\ \A t : Has(s, j, t) <=> Has(r, j, t) \/ (s[k].job = j /\ s[k].tile = t)
      /\ JobsIn(s) = JobsIn(r) \cup {s[k].job}
  BY <1>3, <1>4, RemoveCount
<1>6. QED
  BY <1>2, <1>4, <1>5 DEF r

\* The same tiles with other classifications.
LEMMA RelabelCount ==
  ASSUME NEW s, NEW r, NEW j,
         DOMAIN r = DOMAIN s,
         \A i \in DOMAIN s : r[i].job = s[i].job /\ r[i].tile = s[i].tile
  PROVE  /\ TilesIn(r, j) = TilesIn(s, j)
         /\ \A t : Has(r, j, t) <=> Has(s, j, t)
         /\ JobsIn(r) = JobsIn(s)
<1>1. {i \in DOMAIN r : r[i].job = j} = {i \in DOMAIN s : s[i].job = j}
  OBVIOUS
<1>2. JobsIn(r) = JobsIn(s)
  BY DEF JobsIn
<1>3. \A t : Has(r, j, t) <=> Has(s, j, t)
  BY DEF Has
<1>4. QED
  BY <1>1, <1>2, <1>3 DEF TilesIn

\* The tiles of two sequences.
LEMMA ConcatCount ==
  ASSUME NEW S, NEW s \in Seq(S), NEW t \in Seq(S), NEW j
  PROVE  /\ TilesIn(s \o t, j) = TilesIn(s, j) + TilesIn(t, j)
         /\ \A u : Has(s \o t, j, u) <=> Has(s, j, u) \/ Has(t, j, u)
         /\ JobsIn(s \o t) = JobsIn(s) \cup JobsIn(t)
<1> DEFINE r == s \o t
           n == Len(s)
           m == Len(t)
           B == At(r, j) \ At(s, j)
           f == [i \in At(t, j) |-> n + i]
<1>1. /\ r \in Seq(S) /\ n \in Nat /\ m \in Nat
      /\ DOMAIN s = 1 .. n /\ DOMAIN t = 1 .. m /\ DOMAIN r = 1 .. n + m
      /\ \A i \in 1 .. n : r[i] = s[i]
      /\ \A i \in 1 .. m : r[n + i] = t[i]
  OBVIOUS
<1> HIDE DEF r, n, m
<1>2. \A i \in 1 .. n + m : i \in 1 .. n \/ (i - n \in 1 .. m /\ r[i] = t[i - n])
  BY <1>1
<1>3. At(s, j) \subseteq At(r, j)
  BY <1>1 DEF At
<1>4. \A i \in B : i - n \in At(t, j) /\ n + (i - n) = i
  BY <1>1, <1>2 DEF At
<1>5. f \in [At(t, j) -> B]
  BY <1>1 DEF At
<1>6. \A x, y \in At(t, j) : f[x] = f[y] => x = y
  BY <1>1 DEF At
<1>7. \A b \in B : \E a \in At(t, j) : f[a] = b
  <2> SUFFICES ASSUME NEW b \in B PROVE \E a \in At(t, j) : f[a] = b
    OBVIOUS
  <2>1. b - n \in At(t, j) /\ n + (b - n) = b
    BY <1>4
  <2>2. f[b - n] = b
    BY <2>1
  <2>3. QED
    BY <2>1, <2>2
<1>8. IsFiniteSet(At(t, j)) /\ IsFiniteSet(At(s, j))
  BY CountFacts
<1>9. At(s, j) \cup B = At(r, j) /\ At(s, j) \cap B = {}
  BY <1>3
<1> HIDE DEF f, B
<1>10. IsFiniteSet(B) /\ Cardinality(B) = Cardinality(At(t, j))
  BY <1>5, <1>6, <1>7, <1>8, SameSize
<1>11. Cardinality(At(r, j)) = Cardinality(At(s, j)) + Cardinality(B) - 0
  BY <1>8, <1>9, <1>10, FS_Union, FS_EmptySet
<1>12. TilesIn(r, j) = TilesIn(s, j) + TilesIn(t, j)
  <2>1. /\ TilesIn(r, j) = Cardinality(At(r, j))
        /\ TilesIn(s, j) = Cardinality(At(s, j)) /\ TilesIn(s, j) \in Nat
        /\ TilesIn(t, j) = Cardinality(At(t, j)) /\ TilesIn(t, j) \in Nat
    BY <1>1, CountFacts
  <2>2. QED
    BY <1>10, <1>11, <2>1
<1>13. /\ \A i \in DOMAIN s : \E k \in DOMAIN r : r[k] = s[i]
       /\ \A i \in DOMAIN t : \E k \in DOMAIN r : r[k] = t[i]
       /\ \A k \in DOMAIN r : \/ \E i \in DOMAIN s : r[k] = s[i]
                              \/ \E i \in DOMAIN t : r[k] = t[i]
  <2>1. \A i \in 1 .. n : i \in 1 .. n + m
    BY <1>1
  <2>2. \A i \in 1 .. m : n + i \in 1 .. n + m
    BY <1>1
  <2>3. QED
    BY <1>1, <1>2, <2>1, <2>2
<1>14. \A u : Has(r, j, u) <=> Has(s, j, u) \/ Has(t, j, u)
  BY <1>13 DEF Has
<1>15. JobsIn(r) = JobsIn(s) \cup JobsIn(t)
  BY <1>13 DEF JobsIn
<1>16. QED
  BY <1>12, <1>14, <1>15 DEF r

\* A new job has every tile once.
LEMMA TilesOfCount ==
  ASSUME NEW n \in Jobs, NEW c \in Chunks, NEW j,
         playhead \in Boundaries
  PROVE  /\ TilesOf(n, c) \in Seq(PendingTile)
         /\ Len(TilesOf(n, c)) = TilesPerChunk
         /\ TilesIn(TilesOf(n, c), j) = IF j = n THEN TilesPerChunk ELSE 0
         /\ j = n => \A t \in Tiles : Has(TilesOf(n, c), j, t)
         /\ JobsIn(TilesOf(n, c)) = {n}
<1> DEFINE r == TilesOf(n, c)
           T == TilesPerChunk
<1>1. T \in Nat \ {0}
  BY SchedulingAssumption
<1>2. classificationOf(c) \in Classification
  BY ClassificationTyped DEF classificationOf
<1>3. r = [i \in 1 .. T |->
             [job |-> n, tile |-> i - 1, classification |-> classificationOf(c)]]
  BY DEF TilesOf
<1>4. \A i \in 1 .. T : i - 1 \in Tiles
  BY <1>1 DEF Tiles
<1> HIDE DEF r
<1>5. /\ DOMAIN r = 1 .. T
      /\ \A i \in 1 .. T : r[i].job = n /\ r[i].tile = i - 1 /\ r[i] \in PendingTile
  BY <1>2, <1>3, <1>4 DEF PendingTile
<1>6. r \in [1 .. T -> PendingTile]
  BY <1>3, <1>5
<1>7. r \in Seq(PendingTile) /\ Len(r) = T
  BY <1>1, <1>6, SeqOf
<1>8. At(r, j) = IF j = n THEN 1 .. T ELSE {}
  BY <1>5 DEF At
<1>9. TilesIn(r, j) = IF j = n THEN T ELSE 0
  <2>1. Cardinality(1 .. T) = T /\ Cardinality({}) = 0
    BY <1>1, FS_Interval, FS_EmptySet
  <2>2. QED
    BY <1>7, <1>8, <2>1, CountFacts
<1>10. ASSUME NEW t \in Tiles PROVE Has(r, n, t)
  <2>1. t + 1 \in 1 .. T /\ (t + 1) - 1 = t
    BY <1>1 DEF Tiles
  <2>2. QED
    BY <1>5, <2>1 DEF Has
<1>11. JobsIn(r) = {n}
  <2>1. 1 \in 1 .. T
    BY <1>1
  <2>2. QED
    BY <1>5, <2>1 DEF JobsIn
<1>12. QED
  BY <1>7, <1>9, <1>10, <1>11 DEF r

-----------------------------------------------------------------------------
(***************************************************************************)
(* Choices: the free job and the first pending tile exist.                 *)
(***************************************************************************)
LEMMA IntervalCount ==
  ASSUME NEW n \in Nat
  PROVE  IsFiniteSet(1 .. n) /\ Cardinality(1 .. n) = n
BY FS_Interval

LEMMA Minimal ==
  ASSUME NEW T, T \subseteq Nat, T # {}, NEW R, IsWellFoundedOn(R, Nat)
  PROVE  \E m \in T : \A y \in T : ~ (<<y, m>> \in R)
BY WFMin

LEMMA LeastOf ==
  ASSUME NEW T, T \subseteq Nat, T # {}, NEW R, IsWellFoundedOn(R, Nat),
         \A x, y \in Nat : x < y => <<x, y>> \in R
  PROVE  \E m \in T : \A k \in T : m <= k
<1>3. PICK m \in T : \A y \in T : ~ (<<y, m>> \in R)
  BY Minimal
<1>4. \A k \in T : k \in Nat
  OBVIOUS
<1>5. ASSUME NEW k \in T PROVE m <= k
  <2>1. k \in Nat /\ m \in Nat /\ ~(k < m)
    BY <1>3, <1>4, Zenon
  <2>2. QED
    BY <2>1
<1>6. QED
  BY <1>5
LEMMA LeastNatural ==
  ASSUME NEW T, T \subseteq Nat, T # {}
  PROVE  \E m \in T : \A k \in T : m <= k
<1> DEFINE R == OpToRel(<, Nat)
<1>1. IsWellFoundedOn(R, Nat)
  BY NatLessThanWellFounded
<1>2. \A x, y \in Nat : x < y => <<x, y>> \in R
  BY DEF OpToRel
<1> HIDE DEF R
<1>3. QED
  BY <1>1, <1>2, LeastOf, Zenon

LEMMA NewJobIsFree ==
  ASSUME FreeJobs # {}
  PROVE  NewJob \in Jobs /\ jobs[NewJob] = Freed
<1>1. FreeJobs \subseteq Nat
  BY DEF FreeJobs, Jobs
<1>2. \E j \in FreeJobs : \A k \in FreeJobs : j <= k
  BY <1>1, LeastNatural
<1>3. NewJob \in FreeJobs
  BY <1>2 DEF NewJob
<1>4. QED
  BY <1>3 DEF FreeJobs

\* The element with fewest elements before it has none.
LEMMA FirstOf ==
  ASSUME NEW D, IsFiniteSet(D), D # {}, NEW before,
         \A i \in D : /\ before[i] \subseteq D /\ i \notin before[i]
                      /\ \A k \in before[i] : before[k] \subseteq before[i]
  PROVE  \E i \in D : before[i] = {}
<1> DEFINE Sizes == {Cardinality(before[i]) : i \in D}
<1>1. \A i \in D : IsFiniteSet(before[i]) /\ Cardinality(before[i]) \in Nat
  BY FS_Subset, FS_CardinalityType
<1>2. PICK i \in D : \A k \in D : Cardinality(before[i]) <= Cardinality(before[k])
  <2>1. Sizes \subseteq Nat /\ Sizes # {}
    BY <1>1
  <2>2. PICK m \in Sizes : \A k \in Sizes : m <= k
    <3> HIDE DEF Sizes
    <3>1. QED
      BY <2>1, LeastNatural
  <2>3. QED
    BY <2>2
<1>3. ASSUME NEW k \in before[i] PROVE FALSE
  <2>1. k \in D /\ before[k] \subseteq before[i] /\ k \notin before[k]
    BY <1>3
  <2>2. /\ Cardinality(before[k]) <= Cardinality(before[i])
        /\ Cardinality(before[i]) = Cardinality(before[k]) => before[i] = before[k]
    BY <1>1, <2>1, FS_Subset
  <2>3. Cardinality(before[i]) = Cardinality(before[k])
    BY <1>1, <1>2, <2>1, <2>2
  <2>4. QED
    BY <2>1, <2>2, <2>3
<1>4. QED
  BY <1>3

\* Whatever order the tiles are kept in, one of them precedes the others.
LEMMA TopIsPending ==
  ASSUME pending \in Seq(PendingTile), pending # <<>>
  PROVE  Top \in DOMAIN pending
<1> DEFINE D == DOMAIN pending
           lower(i, k) == hasLowerPrecedence(RankedPending(i), RankedPending(k))
           above == [i \in D |-> {k \in D : lower(i, k)}]
<1>1. 1 \in D /\ IsFiniteSet(D) /\ \A i \in D : i \in Nat
  <2>1. Len(pending) \in Nat \ {0} /\ D = 1 .. Len(pending)
    BY EmptySeq, LenProperties
  <2>2. QED
    BY <2>1, FS_Interval
<1>2. \A i \in D : /\ RankedPending(i) \in RankedTile
                   /\ RankedPending(i).sequence = i
  <2> SUFFICES ASSUME NEW i \in D
               PROVE  /\ RankedPending(i) \in RankedTile
                      /\ RankedPending(i).sequence = i
    OBVIOUS
  <2>1. pending[i] \in PendingTile
    OBVIOUS
  <2>2. pending[i].classification \in Classification
    BY <2>1 DEF PendingTile
  <2>3. QED
    BY <1>1, <2>2 DEF RankedPending, RankedTile
<1>3. \A i, k, m \in D :
         /\ ~lower(i, i)
         /\ lower(i, k) /\ lower(k, m) => lower(i, m)
         /\ i # k => lower(i, k) \/ lower(k, i)
  BY <1>2, PrecedenceIsTotal, Zenon
<1> HIDE DEF lower
<1>4. \A i \in D : /\ above[i] \subseteq D /\ i \notin above[i]
                   /\ \A k \in above[i] : above[k] \subseteq above[i]
  BY <1>3
<1>5. \A i \in D, k \in D : above[i] = {} => ~lower(i, k)
  OBVIOUS
<1> HIDE DEF D, above
<1>6. PICK i \in D : above[i] = {}
  BY <1>1, <1>4, FirstOf
<1>7. \A k \in D \ {i} : lower(k, i)
  BY <1>3, <1>5, <1>6
<1>8. \E n \in D : \A k \in D \ {n} :
         hasLowerPrecedence(RankedPending(k), RankedPending(n))
  BY <1>7 DEF lower
<1>9. QED
  BY <1>8 DEF Top, D

-----------------------------------------------------------------------------
(***************************************************************************)
(* The inductive invariant.                                                *)
(***************************************************************************)
\* A worker has a job unless it waits for one or has exited.
WorkersHoldJobs ==
    \A w \in Worker : worker[w].job = NoJob <=> worker[w].at \in {"idle", "exited"}

\* What the control thread and the scheduler have left behind in each phase.
Phases ==
    /\ control # "running" =>
          /\ scheduler = "off"
          /\ pending = <<>>
          /\ \A c \in Chunks : activeJob[c] = NoJob
    /\ control \in {"joining", "stopped"} => tasks = <<>>
    /\ IF scheduler \in {"evict", "retire"} THEN work # <<>> ELSE buffer = <<>>

\* No reference dangles: the job it leads to has not been freed.
NothingDangles == \A j \in Jobs : j \in Referenced => jobs[j] # Freed

\* The tile has still to be rendered, or given up.
Open(job, tile) ==
    \/ Has(pending, job, tile) \/ Has(buffer, job, tile) \/ Has(tasks, job, tile)
    \/ \E w \in Worker : /\ worker[w].at \in {"check", "render"}
                         /\ worker[w].job = job
                         /\ worker[w].tile = tile

\* A job that was not cancelled has rendered each of its tiles for its version,
\* or will.
JobRendered(j) ==
    /\ jobs[j].samples \subseteq Tiles \X {jobs[j].version}
    /\ ~jobs[j].cancelled =>
          \A t \in Tiles : <<t, jobs[j].version>> \in jobs[j].samples \/ Open(j, t)

TilesRendered == \A j \in Jobs \ FreeJobs : JobRendered(j)

\* Who returns a job has finished its last tile, and returns it once.
ReturnedOnce ==
    /\ \A i \in DOMAIN completed :
          /\ jobs[completed[i]].tilesRemaining = 0
          /\ \A k \in DOMAIN completed \ {i} : completed[k] # completed[i]
    /\ \A w \in Worker : worker[w].at = "publish" =>
          /\ jobs[worker[w].job].tilesRemaining = 0
          /\ \A i \in DOMAIN completed : completed[i] # worker[w].job
          /\ \A v \in Worker \ {w} :
                worker[v].at = "publish" => worker[v].job # worker[w].job

\* The cache is never ahead of the versions.
CacheIsSound ==
    /\ \A c \in Chunks : cache[c].version <= version[c]
    /\ CacheIsComplete

IInv ==
    /\ Typed
    /\ WorkersHoldJobs
    /\ Phases
    /\ NothingDangles
    /\ TilesAccounted
    /\ TilesRendered
    /\ ReturnedOnce
    /\ CacheIsSound

-----------------------------------------------------------------------------
(***************************************************************************)
(* Records of jobs.                                                        *)
(***************************************************************************)
LEMMA FreedIsNoJob == \A r \in RenderJob : r # Freed
<1> SUFFICES ASSUME NEW r \in RenderJob PROVE r # Freed
  OBVIOUS
<1>1. "chunk" \in DOMAIN r
  BY DEF RenderJob
<1>2. "chunk" \notin DOMAIN Freed
  BY DEF Freed
<1>3. QED
  BY <1>1, <1>2

\* What a step leaves of a job it may only cancel.
KeepsJob(new, old) ==
    /\ new.chunk = old.chunk
    /\ new.version = old.version
    /\ new.tilesRemaining = old.tilesRemaining
    /\ new.samples = old.samples
    /\ old.cancelled => new.cancelled

LEMMA CancelFacts ==
  ASSUME Typed, NEW set, \A j \in Jobs : j \in set => jobs[j] # Freed,
         NEW j \in Jobs
  PROVE  /\ Cancelling(set)[j] \in RenderJob \cup {Freed}
         /\ j \notin set => Cancelling(set)[j] = jobs[j]
         /\ j \in set => Cancelling(set)[j].cancelled
         /\ jobs[j] = Freed <=> Cancelling(set)[j] = Freed
         /\ jobs[j] # Freed => KeepsJob(Cancelling(set)[j], jobs[j])
<1>1. jobs[j] \in RenderJob \cup {Freed}
  BY DEF Typed
<1>2. CASE j \notin set
  <2>1. Cancelling(set)[j] = jobs[j]
    BY <1>2 DEF Cancelling
  <2>2. QED
    BY <1>1, <1>2, <2>1 DEF KeepsJob
<1>3. CASE j \in set
  <2>1. jobs[j] \in RenderJob
    BY <1>1, <1>3
  <2>2. Cancelling(set)[j] = [jobs[j] EXCEPT !.cancelled = TRUE]
    BY <1>3 DEF Cancelling
  <2>3. /\ Cancelling(set)[j] \in RenderJob
        /\ Cancelling(set)[j].cancelled
        /\ KeepsJob(Cancelling(set)[j], jobs[j])
    BY <2>1, <2>2 DEF RenderJob, KeepsJob
  <2>4. QED
    BY <1>3, <2>1, <2>3, FreedIsNoJob
<1>4. QED
  BY <1>2, <1>3

LEMMA JobsAreFacts ==
  ASSUME NEW written, JobsAre(written),
         \A j \in Jobs : j \in Referenced' => written[j] \in RenderJob \cup {Freed}
  PROVE  /\ jobs' \in [Jobs -> RenderJob \cup {Freed}]
         /\ \A j \in Jobs : jobs'[j] = IF j \in Referenced' THEN written[j] ELSE Freed
BY DEF JobsAre

\* The job a reference leads to.
LEMMA ReferencedJob ==
  ASSUME Typed, NothingDangles, NEW j \in Referenced, j # NoJob
  PROVE  j \in Jobs /\ jobs[j] \in RenderJob /\ jobs[j] # Freed
<1>1. j \in Jobs
  <2>1. \A c \in Chunks : activeJob[c] \in Jobs \cup {NoJob}
    BY DEF Typed
  <2>2. \A w \in Worker : worker[w].job \in Jobs \cup {NoJob}
    BY DEF Typed
  <2>3. /\ \A i \in DOMAIN pending : pending[i].job \in Jobs
        /\ \A i \in DOMAIN buffer : buffer[i].job \in Jobs
    <3>1. pending \in Seq(PendingTile) /\ buffer \in Seq(PendingTile)
      BY DEF Typed
    <3>2. /\ \A i \in DOMAIN pending : pending[i] \in PendingTile
          /\ \A i \in DOMAIN buffer : buffer[i] \in PendingTile
      BY <3>1, ItemOf
    <3>3. QED
      BY <3>2 DEF PendingTile
  <2>4. /\ \A i \in DOMAIN tasks : tasks[i].job \in Jobs
        /\ \A i \in DOMAIN completed : completed[i] \in Jobs
    <3>1. tasks \in Seq([job : Jobs, tile : Tiles]) /\ completed \in Seq(Jobs)
      BY DEF Typed
    <3>2. /\ \A i \in DOMAIN tasks : tasks[i] \in [job : Jobs, tile : Tiles]
          /\ \A i \in DOMAIN completed : completed[i] \in Jobs
      BY <3>1, ItemOf
    <3>3. QED
      BY <3>2
  <2>5. QED
    BY <2>1, <2>2, <2>3, <2>4 DEF Referenced, JobsIn
<1>2. QED
  BY <1>1 DEF Typed, NothingDangles

-----------------------------------------------------------------------------
(***************************************************************************)
(* Counting where the tiles are.                                           *)
(***************************************************************************)
InHands(job) == {w \in Worker : worker[w].job = job /\ worker[w].at # "publish"}

LEMMA UnfinishedCounts ==
  ASSUME Typed, NEW j
  PROVE  /\ TilesIn(pending, j) \in Nat /\ TilesIn(buffer, j) \in Nat
         /\ TilesIn(tasks, j) \in Nat
         /\ IsFiniteSet(InHands(j)) /\ Cardinality(InHands(j)) \in Nat
         /\ Unfinished(j) = TilesIn(pending, j) + TilesIn(buffer, j)
                            + TilesIn(tasks, j) + Cardinality(InHands(j))
         /\ Unfinished(j) \in Nat
         /\ \A w \in InHands(j) : Cardinality(InHands(j)) >= 1
<1>1. /\ TilesIn(pending, j) \in Nat /\ TilesIn(buffer, j) \in Nat
      /\ TilesIn(tasks, j) \in Nat
  BY CountFacts DEF Typed
<1>2. IsFiniteSet(InHands(j))
  BY PipelineAssumption, FS_Subset DEF InHands
<1>3. Cardinality(InHands(j)) \in Nat
  BY <1>2, FS_CardinalityType
<1>4. \A w \in InHands(j) : Cardinality(InHands(j)) >= 1
  BY <1>2, <1>3, FS_EmptySet
<1>5. Unfinished(j) = TilesIn(pending, j) + TilesIn(buffer, j)
                      + TilesIn(tasks, j) + Cardinality(InHands(j))
  BY DEF Unfinished, InHands
<1>6. QED
  BY <1>1, <1>2, <1>3, <1>4, <1>5

LEMMA UnfinishedType == Typed => \A j : Unfinished(j) \in Nat
BY UnfinishedCounts

LEMMA UnfinishedAfter == Typed' => (\A j : Unfinished(j) \in Nat)'
BY UnfinishedType, PTL

\* The hands are counted one by one.
LEMMA HandsChange ==
  ASSUME Typed, NEW w \in Worker, \A v \in Worker \ {w} : worker'[v] = worker[v],
         NEW j
  PROVE  LET before == worker[w].job = j /\ worker[w].at # "publish"
             after == worker'[w].job = j /\ worker'[w].at # "publish"
         IN  /\ before /\ ~after
                  => Cardinality(InHands(j)) = Cardinality(InHands(j)') + 1
             /\ ~before /\ after
                  => Cardinality(InHands(j)') = Cardinality(InHands(j)) + 1
             /\ (before <=> after)
                  => Cardinality(InHands(j)') = Cardinality(InHands(j))
<1> DEFINE before == worker[w].job = j /\ worker[w].at # "publish"
           after == worker'[w].job = j /\ worker'[w].at # "publish"
<1>1. IsFiniteSet(InHands(j)) /\ Cardinality(InHands(j)) \in Nat
  BY UnfinishedCounts
<1>2. CASE before /\ ~after
  <2>1. InHands(j)' = InHands(j) \ {w} /\ w \in InHands(j)
    BY <1>2 DEF InHands
  <2>2. Cardinality(InHands(j)') = Cardinality(InHands(j)) - 1
    BY <1>1, <2>1, FS_RemoveElement
  <2>3. QED
    BY <1>1, <1>2, <2>2
<1>3. CASE ~before /\ after
  <2>1. InHands(j)' = InHands(j) \cup {w} /\ w \notin InHands(j)
    BY <1>3 DEF InHands
  <2>2. QED
    BY <1>1, <1>3, <2>1, FS_AddElement
<1>4. CASE before <=> after
  <2>1. InHands(j)' = InHands(j)
    BY <1>4 DEF InHands
  <2>2. QED
    BY <1>4, <2>1
<1>5. QED
  BY <1>2, <1>3, <1>4

-----------------------------------------------------------------------------
(***************************************************************************)
(* The initial states.                                                     *)
(***************************************************************************)
LEMMA InitHolds == Init => IInv
<1> SUFFICES ASSUME Init PROVE IInv
  OBVIOUS
<1> USE DEF Init
<1>1. Typed
  <2>1. /\ 0 \in Boundaries /\ 0 \in Chunks /\ 0 \in Tiles
        /\ 0 \in 0 .. ChunkCount /\ 0 \in 0 .. MaxPendingTiles
    BY ChunkFacts, TimelineAssumption, SchedulingAssumption
       DEF Boundaries, Chunks, Tiles
  <2>2. /\ <<>> \in Seq([job : Jobs, tile : Tiles]) /\ <<>> \in Seq(Jobs)
        /\ <<>> \in Seq(PendingTile) /\ <<>> \in Seq(Chunks) /\ Len(<<>>) = 0
    BY EmptySeq
  <2>3. /\ version \in [Chunks -> Nat]
        /\ activeJob \in [Chunks -> Jobs \cup {NoJob}]
        /\ cache \in [Chunks -> [version : Nat, samples : Samples]]
        /\ jobs \in [Jobs -> RenderJob \cup {Freed}]
    BY DEF Samples
  <2>4. worker \in [Worker -> [at : {"idle", "exited", "check", "render", "finish",
                                     "publish"},
                               job : Jobs \cup {NoJob}, tile : Tiles]]
    BY <2>1 DEF Exited, Idle
  <2>5. /\ control = "stopped" /\ scheduler = "off" /\ failures \in Nat
        /\ stopRequested \in BOOLEAN /\ playRequested \in BOOLEAN
        /\ dirty \in BOOLEAN /\ gateOpen \in BOOLEAN
    OBVIOUS
  <2>6. /\ Len(tasks) <= TaskCapacity
        /\ Len(pending) + Len(buffer) <= MaxPendingTiles
    BY <2>2, PipelineAssumption, SchedulingAssumption
  <2>7. viewport \in Boundaries \X Boundaries
    BY <2>1, PipelineAssumption
  <2>8. QED
    BY <2>1, <2>2, <2>3, <2>4, <2>5, <2>6, <2>7 DEF Typed
<1>2. WorkersHoldJobs
  BY DEF WorkersHoldJobs, Exited, Idle
<1>3. Phases
  BY DEF Phases
<1>4. \A j \in Jobs : j \notin Referenced
  <2>1. \A j \in Jobs : j # NoJob
    BY DEF Jobs, NoJob
  <2>2. JobsIn(<<>>) = {} /\ {completed[i] : i \in DOMAIN completed} = {}
    <3>1. completed = <<>> /\ DOMAIN <<>> = {}
      BY EmptySeq
    <3>2. QED
      BY <3>1, EmptyCount
  <2>3. Referenced \subseteq {NoJob}
    BY <2>2 DEF Referenced, Exited, Idle
  <2>4. QED
    BY <2>1, <2>3
<1>5. NothingDangles
  BY <1>4 DEF NothingDangles
<1>6. Jobs \ FreeJobs = {}
  BY DEF FreeJobs
<1>7. TilesAccounted /\ TilesRendered
  BY <1>6 DEF TilesAccounted, TilesRendered
<1>8. ReturnedOnce
  BY DEF ReturnedOnce, Exited, Idle
<1>9. CacheIsSound
  BY DEF CacheIsSound, CacheIsComplete, cacheIsCurrent
<1>10. QED
  BY <1>1, <1>2, <1>3, <1>5, <1>7, <1>8, <1>9 DEF IInv

-----------------------------------------------------------------------------
(***************************************************************************)
(* What keeps the parts of the invariant.                                  *)
(***************************************************************************)
\* Tiles of a job move, or are lost with a job that is cancelled.
KeepsTiles(j) ==
    jobs'[j] # Freed =>
        /\ jobs[j] # Freed
        /\ KeepsJob(jobs'[j], jobs[j])
        /\ Unfinished(j)' <= Unfinished(j)
        /\ control' = "running" \/ ~jobs'[j].cancelled =>
              Unfinished(j)' = Unfinished(j)
        /\ ~jobs'[j].cancelled =>
              \A t \in Tiles : Open(j, t) => Open(j, t)'

JobAccounted(j) ==
    /\ Unfinished(j) <= jobs[j].tilesRemaining
    /\ control = "running" \/ ~jobs[j].cancelled =>
          Unfinished(j) = jobs[j].tilesRemaining

LEMMA JobKept ==
  ASSUME Typed, TilesAccounted, TilesRendered,
         control' = "running" => control = "running",
         NEW j \in Jobs, KeepsTiles(j), jobs'[j] # Freed, Unfinished(j)' \in Nat
  PROVE  JobAccounted(j)' /\ JobRendered(j)'
<1>1. /\ jobs[j] # Freed /\ KeepsJob(jobs'[j], jobs[j])
      /\ Unfinished(j)' <= Unfinished(j)
      /\ control' = "running" \/ ~jobs'[j].cancelled =>
            Unfinished(j)' = Unfinished(j)
      /\ ~jobs'[j].cancelled => \A t \in Tiles : Open(j, t) => Open(j, t)'
  BY DEF KeepsTiles
<1>2. JobAccounted(j)'
  <2>1. /\ Unfinished(j) <= jobs[j].tilesRemaining
        /\ control = "running" \/ ~jobs[j].cancelled =>
              Unfinished(j) = jobs[j].tilesRemaining
    BY <1>1 DEF TilesAccounted, FreeJobs
  <2>2. Unfinished(j) \in Nat
    BY UnfinishedCounts
  <2>3. jobs[j].tilesRemaining \in Int
    BY <1>1, SchedulingAssumption DEF Typed, RenderJob
  <2>4. QED
    BY <1>1, <2>1, <2>2, <2>3 DEF KeepsJob, JobAccounted
<1>3. JobRendered(j)'
  <2>1. /\ jobs[j].samples \subseteq Tiles \X {jobs[j].version}
        /\ ~jobs[j].cancelled =>
              \A t \in Tiles : <<t, jobs[j].version>> \in jobs[j].samples \/ Open(j, t)
    BY <1>1 DEF TilesRendered, JobRendered, FreeJobs
  <2>2. QED
    BY <1>1, <2>1 DEF KeepsJob, JobRendered
<1>4. QED
  BY <1>2, <1>3

LEMMA TilesKept ==
  ASSUME Typed, TilesAccounted, TilesRendered, Typed',
         control' = "running" => control = "running",
         \A j \in Jobs : KeepsTiles(j)
  PROVE  TilesAccounted' /\ TilesRendered'
<1>1. ASSUME NEW j \in Jobs, jobs'[j] # Freed
      PROVE  JobAccounted(j)' /\ JobRendered(j)'
  BY <1>1, JobKept, UnfinishedAfter
<1>2. QED
  BY <1>1 DEF TilesAccounted, TilesRendered, JobAccounted, FreeJobs

\* Nobody returns a job, and no counter of a job on its way changes.
LEMMA ReturnsKept ==
  ASSUME ReturnedOnce, completed' = completed,
         \A w \in Worker : worker'[w].at = "publish" => worker'[w] = worker[w],
         \A i \in DOMAIN completed : jobs'[completed[i]].tilesRemaining
                                       = jobs[completed[i]].tilesRemaining,
         \A w \in Worker : worker'[w].at = "publish" =>
             jobs'[worker[w].job].tilesRemaining = jobs[worker[w].job].tilesRemaining
  PROVE  ReturnedOnce'
BY DEF ReturnedOnce

LEMMA CacheKept ==
  ASSUME CacheIsSound, UNCHANGED <<cache, version>>
  PROVE  CacheIsSound'
BY DEF CacheIsSound, CacheIsComplete, cacheIsCurrent

\* No reference is new, and no job it leads to is freed.
LEMMA NothingDanglesAfter ==
  ASSUME NothingDangles,
         \A j \in Jobs : j \in Referenced' =>
             j \in Referenced /\ (jobs[j] # Freed => jobs'[j] # Freed)
  PROVE  NothingDangles'
BY DEF NothingDangles

jobVars == <<version, jobs, tasks, completed, worker, renderVars>>

\* Steps that leave jobs and tiles alone.
LEMMA QuietStep ==
  ASSUME IInv, UNCHANGED jobVars, control' = "running" => control = "running"
  PROVE  /\ WorkersHoldJobs' /\ NothingDangles' /\ TilesAccounted'
         /\ TilesRendered' /\ ReturnedOnce' /\ CacheIsSound'
<1> USE DEF IInv, jobVars, renderVars
<1>1. WorkersHoldJobs'
  BY DEF WorkersHoldJobs
<1>2. NothingDangles'
  BY DEF NothingDangles, Referenced
<1>3. \A j : Unfinished(j)' = Unfinished(j)
  BY DEF Unfinished
<1>4. TilesAccounted'
  BY <1>3 DEF TilesAccounted, FreeJobs
<1>5. \A j, t : Open(j, t)' <=> Open(j, t)
  BY DEF Open
<1>6. TilesRendered'
  BY <1>5 DEF TilesRendered, JobRendered, FreeJobs
<1>7. ReturnedOnce'
  BY DEF ReturnedOnce
<1>8. CacheIsSound'
  BY CacheKept
<1>9. QED
  BY <1>1, <1>2, <1>4, <1>6, <1>7, <1>8

-----------------------------------------------------------------------------
(***************************************************************************)
(* The steps that leave jobs and tiles alone.                              *)
(***************************************************************************)
LEMMA CommandsHold ==
  ASSUME IInv, Command \/ LeaveLoop \/ EndCommands \/ EndEdit
  PROVE  IInv'
<1> USE DEF commandVars, passVars, sharedVars, renderVars, jobVars
<1>1. CASE Play \/ Pause \/ Seek \/ LeaveLoop \/ EndCommands \/ EndEdit
  <2> USE <1>1 DEF Play, Pause, Seek, LeaveLoop, EndCommands, EndEdit
  <2>1. UNCHANGED jobVars /\ control' = control
    OBVIOUS
  <2>2. Typed'
    BY DEF IInv, Typed
  <2>3. Phases'
    BY DEF IInv, Phases
  <2>4. QED
    BY <2>1, <2>2, <2>3, QuietStep DEF IInv
<1>2. ASSUME NEW region \in Viewports, SetViewport(region) PROVE IInv'
  <2>1. UNCHANGED jobVars /\ control' = control
    BY <1>2 DEF SetViewport
  <2>2. region[1] \in Int /\ region[2] \in Int
    BY PipelineAssumption
  <2>3. Larger(region[1], region[2]) \in Int
    BY <2>2 DEF Larger
  <2>4. viewport' \in Boundaries \X Boundaries
    BY <1>2, <2>2, <2>3, TimelineAssumption
       DEF SetViewport, clampTimelineBoundary, Boundaries, Larger, Smaller
  <2>5. Typed'
    BY <1>2, <2>4 DEF SetViewport, IInv, Typed
  <2>6. Phases'
    BY <1>2 DEF SetViewport, IInv, Phases
  <2>7. QED
    BY <2>1, <2>5, <2>6, QuietStep DEF IInv
<1>3. ASSUME NEW region \in EditRegions, Edit(region) PROVE IInv'
  <2>1. UNCHANGED jobVars /\ control' = control
    BY <1>3 DEF Edit
  <2>2. region[1] \in Int /\ region[2] \in Int
    BY PipelineAssumption
  <2>3. work' \in Seq(Chunks)
    BY <1>3, <2>2, InvalidatedSeqTyped DEF Edit
  <2>4. Typed'
    BY <1>3, <2>3 DEF Edit, IInv, Typed
  <2>5. Phases'
    BY <1>3 DEF Edit, IInv, Phases
  <2>6. QED
    BY <2>1, <2>4, <2>5, QuietStep DEF IInv
<1>4. QED
  BY <1>1, <1>2, <1>3 DEF Command

LEMMA PhaseChangesHold ==
  ASSUME IInv,
         \/ JoinWorkers \/ EndCollect \/ EndSchedule \/ EndScan \/ EndDispatch
         \/ \E lead \in Leads : UpdateBackgroundAdmission(lead)
  PROVE  IInv'
<1> USE DEF commandVars, passVars, sharedVars, renderVars, jobVars
<1>1. UNCHANGED jobVars /\ (control' = "running" => control = "running")
  BY DEF JoinWorkers, EndCollect, EndSchedule, EndScan, EndDispatch,
         UpdateBackgroundAdmission
<1>2. Typed'
  <2>1. 0 \in 0 .. ChunkCount
    BY ChunkFacts
  <2>2. CASE JoinWorkers \/ EndCollect \/ EndSchedule \/ EndScan \/ EndDispatch
    <3>1. CASE JoinWorkers
      BY <3>1 DEF JoinWorkers, IInv, Typed
    <3>2. CASE EndCollect
      BY <3>2 DEF EndCollect, IInv, Typed
    <3>3. CASE EndSchedule
      BY <3>3 DEF EndSchedule, IInv, Typed
    <3>4. CASE EndScan
      BY <2>1, <3>4 DEF EndScan, IInv, Typed
    <3>5. CASE EndDispatch
      BY <3>5 DEF EndDispatch, IInv, Typed
    <3>6. QED
      BY <2>2, <3>1, <3>2, <3>3, <3>4, <3>5
  <2>3. ASSUME NEW lead \in Leads, UpdateBackgroundAdmission(lead) PROVE Typed'
    <3>1. gateOpen' \in BOOLEAN
      BY <2>3 DEF UpdateBackgroundAdmission, GateAfter, IInv, Typed
    <3>2. QED
      BY <2>3, <3>1 DEF UpdateBackgroundAdmission, IInv, Typed
  <2>4. QED
    BY <2>2, <2>3
<1>3. Phases'
  BY DEF JoinWorkers, EndCollect, EndSchedule, EndScan, EndDispatch,
         UpdateBackgroundAdmission, IInv, Phases
<1>4. QED
  BY <1>1, <1>2, <1>3, QuietStep DEF IInv

-----------------------------------------------------------------------------
(***************************************************************************)
(* The workers.                                                            *)
(***************************************************************************)
LEMMA UnfinishedSum ==
  ASSUME NEW j
  PROVE  /\ Unfinished(j) = TilesIn(pending, j) + TilesIn(buffer, j)
                            + TilesIn(tasks, j) + Cardinality(InHands(j))
         /\ Unfinished(j)' = TilesIn(pending', j) + TilesIn(buffer', j)
                             + TilesIn(tasks', j) + Cardinality(InHands(j)')
BY DEF Unfinished, InHands

LEMMA JobsAreNumbers == \A j \in Jobs : j \in Nat /\ j # NoJob
BY DEF Jobs, NoJob

TaskItem == [job : Jobs, tile : Tiles]

HeldBy == [at : {"idle", "exited", "check", "render", "finish", "publish"},
           job : Jobs \cup {NoJob}, tile : Tiles]

\* A worker with a job works on one that exists.
LEMMA WorkersJob ==
  ASSUME IInv, NEW w \in Worker, worker[w].at \notin {"idle", "exited"}
  PROVE  /\ worker[w].job \in Jobs /\ worker[w].tile \in Tiles
         /\ worker[w].job \in Referenced
         /\ jobs[worker[w].job] \in RenderJob /\ jobs[worker[w].job] # Freed
         /\ worker[w].at # "publish" =>
               /\ w \in InHands(worker[w].job)
               /\ Unfinished(worker[w].job) >= 1
               /\ jobs[worker[w].job].tilesRemaining >= 1
<1> DEFINE j == worker[w].job
<1>1. worker[w] \in HeldBy
  BY DEF IInv, Typed, HeldBy
<1>2. j # NoJob /\ j \in Referenced
  BY DEF IInv, WorkersHoldJobs, Referenced
<1>3. j \in Jobs /\ jobs[j] \in RenderJob /\ jobs[j] # Freed
  BY <1>2, ReferencedJob DEF IInv
<1>4. ASSUME worker[w].at # "publish"
      PROVE  w \in InHands(j) /\ Unfinished(j) >= 1 /\ jobs[j].tilesRemaining >= 1
  <2>1. w \in InHands(j)
    BY <1>4 DEF InHands
  <2>2. Unfinished(j) \in Nat /\ Unfinished(j) >= 1
    BY <2>1, UnfinishedCounts DEF IInv
  <2>3. Unfinished(j) <= jobs[j].tilesRemaining
    BY <1>3 DEF IInv, TilesAccounted, FreeJobs
  <2>4. jobs[j].tilesRemaining \in Nat
    BY <1>3 DEF RenderJob
  <2>5. QED
    BY <2>1, <2>2, <2>3, <2>4
<1>5. QED
  BY <1>1, <1>3, <1>2, <1>4 DEF HeldBy

LEMMA TakeTaskHolds ==
  ASSUME IInv, NEW w \in Worker, TakeTask(w)
  PROVE  IInv'
<1> DEFINE task == Head(tasks)
<1>1. /\ worker[w].at = "idle" /\ worker[w].job = NoJob /\ tasks # <<>>
      /\ tasks \in Seq(TaskItem)
  BY DEF TakeTask, IInv, WorkersHoldJobs, Typed, TaskItem
<1>2. /\ task \in TaskItem /\ tasks' \in Seq(TaskItem) /\ Len(tasks') = Len(tasks) - 1
      /\ task.job \in JobsIn(tasks) /\ JobsIn(tasks') \subseteq JobsIn(tasks)
  BY <1>1, TailCount DEF TakeTask
<1>3. /\ worker' = [worker EXCEPT ![w] = [at |-> "check", job |-> task.job,
                                          tile |-> task.tile]]
      /\ UNCHANGED <<control, version, jobs, completed, stopRequested, failures,
                     scheduler, commandVars, passVars, renderVars>>
  BY DEF TakeTask
<1> HIDE DEF task
<1>4. /\ worker'[w] = [at |-> "check", job |-> task.job, tile |-> task.tile]
      /\ \A v \in Worker \ {w} : worker'[v] = worker[v]
      /\ worker' \in [Worker -> HeldBy]
  BY <1>2, <1>3 DEF IInv, Typed, TaskItem, HeldBy
<1>5. Typed'
  <2>1. Len(tasks') <= TaskCapacity
    BY <1>1, <1>2, PipelineAssumption DEF IInv, Typed
  <2>2. QED
    BY <1>2, <1>3, <1>4, <2>1 DEF IInv, Typed, TaskItem, HeldBy, commandVars,
                                  passVars, renderVars
<1>6. WorkersHoldJobs'
  BY <1>2, <1>4, JobsAreNumbers DEF IInv, WorkersHoldJobs, TaskItem
<1>7. Phases'
  BY <1>1, <1>3 DEF IInv, Phases, passVars, renderVars
<1>8. NothingDangles'
  <2>1. Referenced' \subseteq Referenced
    BY <1>2, <1>3, <1>4 DEF Referenced, renderVars
  <2>2. QED
    BY <1>3, <2>1, NothingDanglesAfter DEF IInv
<1>9. ASSUME NEW j \in Jobs PROVE KeepsTiles(j)
  <2>1. /\ TilesIn(tasks, j) = TilesIn(tasks', j) + (IF task.job = j THEN 1 ELSE 0)
        /\ \A t : Has(tasks, j, t)
                    <=> Has(tasks', j, t) \/ (task.job = j /\ task.tile = t)
    <3>1. tasks' = Tail(tasks) /\ tasks \in Seq(TaskItem) /\ tasks # <<>>
      BY <1>1 DEF TakeTask
    <3>2. QED
      BY <3>1, TailCount DEF task
  <2>2. TilesIn(tasks', j) \in Nat
    BY <1>2, CountFacts
  <2>3. Cardinality(InHands(j)')
          = Cardinality(InHands(j)) + (IF task.job = j THEN 1 ELSE 0)
    <3>1. Cardinality(InHands(j)) \in Nat
      BY UnfinishedCounts DEF IInv
    <3>2. QED
      BY <1>1, <1>4, <3>1, HandsChange, JobsAreNumbers DEF IInv
  <2>4. Unfinished(j)' = Unfinished(j)
    <3>1. /\ TilesIn(pending, j) \in Nat /\ TilesIn(buffer, j) \in Nat
          /\ Cardinality(InHands(j)) \in Nat
      BY UnfinishedCounts DEF IInv
    <3>2. pending' = pending /\ buffer' = buffer
      BY <1>3 DEF renderVars
    <3>3. QED
      BY <2>1, <2>2, <2>3, <3>1, <3>2, UnfinishedSum
  <2>5. \A t : Open(j, t) => Open(j, t)'
    BY <1>1, <1>3, <1>4, <2>1 DEF Open, renderVars
  <2>6. Unfinished(j) \in Nat
    BY UnfinishedCounts DEF IInv
  <2>7. QED
    BY <1>3, <2>4, <2>5, <2>6 DEF KeepsTiles, KeepsJob
<1>10. TilesAccounted' /\ TilesRendered'
  BY <1>3, <1>5, <1>9, TilesKept DEF IInv
<1>11. ReturnedOnce'
  BY <1>3, <1>4, ReturnsKept DEF IInv
<1>12. CacheIsSound'
  BY <1>3, CacheKept DEF IInv, renderVars
<1>13. QED
  BY <1>5, <1>6, <1>7, <1>8, <1>10, <1>11, <1>12 DEF IInv

\* A worker goes on with what it has; it stops rendering only a cancelled job.
LEMMA WorkerMoves ==
  ASSUME IInv, NEW w \in Worker,
         UNCHANGED <<control, version, tasks, completed, renderVars>>,
         \A v \in Worker \ {w} : worker'[v] = worker[v],
         worker'[w].job = worker[w].job, worker'[w].tile = worker[w].tile,
         worker[w].at # "publish", worker'[w].at # "publish",
         \A j \in Jobs : /\ jobs[j] = Freed <=> jobs'[j] = Freed
                         /\ jobs[j] # Freed => KeepsJob(jobs'[j], jobs[j]),
         worker[w].at \in {"check", "render"} =>
             worker'[w].at \in {"check", "render"} \/ jobs'[worker[w].job].cancelled,
         Typed'
  PROVE  /\ NothingDangles' /\ TilesAccounted' /\ TilesRendered'
         /\ ReturnedOnce' /\ CacheIsSound'
<1> USE DEF renderVars
<1>1. Referenced' = Referenced
  <2>1. \A v \in Worker : worker'[v].job = worker[v].job
    OBVIOUS
  <2>2. QED
    BY <2>1 DEF Referenced
<1>2. NothingDangles'
  BY <1>1 DEF IInv, NothingDangles
<1>3. ASSUME NEW j \in Jobs PROVE KeepsTiles(j)
  <2>1. Cardinality(InHands(j)') = Cardinality(InHands(j))
    BY HandsChange DEF IInv
  <2>2. Unfinished(j)' = Unfinished(j)
    BY <2>1, UnfinishedSum
  <2>3. Unfinished(j) \in Nat
    BY UnfinishedCounts DEF IInv
  <2>4. ASSUME NEW t, Open(j, t), ~jobs'[j].cancelled PROVE Open(j, t)'
    <3>1. CASE Has(pending, j, t) \/ Has(buffer, j, t) \/ Has(tasks, j, t)
      BY <3>1 DEF Open
    <3>2. ASSUME NEW v \in Worker, worker[v].at \in {"check", "render"},
                 worker[v].job = j, worker[v].tile = t
          PROVE  Open(j, t)'
      BY <2>4, <3>2 DEF Open
    <3>3. QED
      BY <2>4, <3>1, <3>2 DEF Open
  <2>5. QED
    BY <2>2, <2>3, <2>4 DEF KeepsTiles
<1>4. TilesAccounted' /\ TilesRendered'
  BY <1>3, TilesKept DEF IInv
<1>5. ReturnedOnce'
  <2>1. ASSUME NEW v \in Worker, worker'[v].at = "publish"
        PROVE  /\ worker'[v] = worker[v]
               /\ jobs'[worker[v].job].tilesRemaining
                    = jobs[worker[v].job].tilesRemaining
    <3>1. v # w /\ worker'[v] = worker[v]
      BY <2>1
    <3>2. worker[v].job \in Jobs /\ jobs[worker[v].job] # Freed
      BY <2>1, <3>1, WorkersJob
    <3>3. QED
      BY <3>1, <3>2 DEF KeepsJob
  <2>2. ASSUME NEW i \in DOMAIN completed
        PROVE  jobs'[completed[i]].tilesRemaining = jobs[completed[i]].tilesRemaining
    <3>1. completed[i] \in Jobs /\ completed[i] \in Referenced
      BY ItemOf DEF IInv, Typed, Referenced
    <3>2. jobs[completed[i]] # Freed
      BY <3>1 DEF IInv, NothingDangles
    <3>3. QED
      BY <3>1, <3>2 DEF KeepsJob
  <2>3. QED
    BY <2>1, <2>2, ReturnsKept DEF IInv
<1>6. CacheIsSound'
  BY CacheKept DEF IInv
<1>7. QED
  BY <1>2, <1>4, <1>5, <1>6

LEMMA WorkerTyped ==
  ASSUME Typed, NEW w \in Worker, NEW at \in {"check", "render", "finish", "publish"},
         worker[w].at \notin {"idle", "exited"},
         worker' = [worker EXCEPT ![w].at = at]
  PROVE  /\ worker' \in [Worker -> HeldBy]
         /\ worker'[w].at = at
         /\ worker'[w].job = worker[w].job /\ worker'[w].tile = worker[w].tile
         /\ \A v \in Worker \ {w} : worker'[v] = worker[v]
         /\ WorkersHoldJobs => WorkersHoldJobs'
<1>1. worker \in [Worker -> HeldBy]
  BY DEF Typed, HeldBy
<1>2. /\ worker'[w] = [worker[w] EXCEPT !.at = at]
      /\ \A v \in Worker \ {w} : worker'[v] = worker[v]
      /\ DOMAIN worker' = Worker
  BY <1>1
<1>3. worker[w] \in HeldBy
  BY <1>1
<1>4. /\ worker'[w] \in HeldBy /\ worker'[w].at = at
      /\ worker'[w].job = worker[w].job /\ worker'[w].tile = worker[w].tile
  BY <1>2, <1>3 DEF HeldBy
<1>5. worker' \in [Worker -> HeldBy]
  BY <1>1, <1>2, <1>4
<1>6. WorkersHoldJobs => WorkersHoldJobs'
  BY <1>2, <1>4 DEF WorkersHoldJobs
<1>7. QED
  BY <1>2, <1>4, <1>5, <1>6

LEMMA ExitWorkerHolds ==
  ASSUME IInv, NEW w \in Worker, ExitWorker(w)
  PROVE  IInv'
<1> USE DEF ExitWorker
<1>1. /\ worker' = [worker EXCEPT ![w] = Exited]
      /\ worker[w].at = "idle" /\ worker[w].job = NoJob
      /\ worker \in [Worker -> HeldBy] /\ 0 \in Tiles
  BY SchedulingAssumption DEF IInv, WorkersHoldJobs, Typed, HeldBy, Tiles
<1>2. /\ worker' \in [Worker -> HeldBy]
      /\ worker'[w] = Exited /\ \A v \in Worker \ {w} : worker'[v] = worker[v]
      /\ Exited.at = "exited" /\ Exited.job = NoJob
  BY <1>1 DEF Exited, Idle, HeldBy
<1>3. Typed'
  BY <1>2 DEF IInv, Typed, HeldBy, commandVars, passVars, renderVars
<1>4. WorkersHoldJobs'
  BY <1>2 DEF IInv, WorkersHoldJobs
<1>5. Phases'
  BY DEF IInv, Phases, passVars, renderVars
<1>6. NothingDangles'
  <2>1. \A v \in Worker : worker'[v].job = worker[v].job
    BY <1>1, <1>2
  <2>2. Referenced' = Referenced
    BY <2>1 DEF Referenced, renderVars
  <2>3. QED
    BY <2>2 DEF IInv, NothingDangles
<1>7. ASSUME NEW j \in Jobs PROVE KeepsTiles(j)
  <2>1. Cardinality(InHands(j)') = Cardinality(InHands(j))
    BY <1>1, <1>2, HandsChange, JobsAreNumbers DEF IInv
  <2>2. Unfinished(j)' = Unfinished(j)
    BY <2>1, UnfinishedSum DEF renderVars
  <2>3. Unfinished(j) \in Nat
    BY UnfinishedCounts DEF IInv
  <2>4. \A t : Open(j, t) => Open(j, t)'
    BY <1>1, <1>2 DEF Open, renderVars
  <2>5. QED
    BY <2>2, <2>3, <2>4 DEF KeepsTiles, KeepsJob
<1>8. TilesAccounted' /\ TilesRendered'
  BY <1>3, <1>7, TilesKept DEF IInv
<1>9. ReturnedOnce'
  BY <1>2, ReturnsKept DEF IInv
<1>10. CacheIsSound'
  BY CacheKept DEF IInv, renderVars
<1>11. QED
  BY <1>3, <1>4, <1>5, <1>6, <1>8, <1>9, <1>10 DEF IInv

LEMMA BeginRenderHolds ==
  ASSUME IInv, NEW w \in Worker, BeginRender(w)
  PROVE  IInv'
<1> USE DEF BeginRender, workerOnly
<1>1. /\ worker' \in [Worker -> HeldBy] /\ WorkersHoldJobs'
      /\ worker'[w].at = "render"
      /\ worker'[w].job = worker[w].job /\ worker'[w].tile = worker[w].tile
      /\ \A v \in Worker \ {w} : worker'[v] = worker[v]
  BY WorkerTyped DEF IInv
<1>2. Typed'
  BY <1>1 DEF IInv, Typed, HeldBy, commandVars, passVars, renderVars
<1>3. Phases'
  BY DEF IInv, Phases, passVars, renderVars
<1>4. \A j \in Jobs : /\ jobs[j] = Freed <=> jobs'[j] = Freed
                      /\ jobs[j] # Freed => KeepsJob(jobs'[j], jobs[j])
  BY DEF KeepsJob
<1>5. QED
  BY <1>1, <1>2, <1>3, <1>4, WorkerMoves DEF IInv

\* A worker that gives its tile up cancels the job, whose record stays.
LEMMA GiveUpHolds ==
  ASSUME IInv, NEW w \in Worker, GiveUp(w) \/ FailRender(w)
  PROVE  IInv'
<1>1. /\ worker[w].at \in {"check", "render"}
      /\ worker' = [worker EXCEPT ![w].at = "finish"]
      /\ jobs' = Cancelling({worker[w].job})
      /\ UNCHANGED workerOnly
      /\ failures' \in {failures, failures + 1}
  BY DEF GiveUp, FailRender
<1> USE DEF workerOnly
<1>2. /\ worker' \in [Worker -> HeldBy] /\ WorkersHoldJobs'
      /\ worker'[w].at = "finish"
      /\ worker'[w].job = worker[w].job /\ worker'[w].tile = worker[w].tile
      /\ \A v \in Worker \ {w} : worker'[v] = worker[v]
  BY <1>1, WorkerTyped DEF IInv
<1>3. worker[w].job \in Jobs /\ jobs[worker[w].job] # Freed
  BY <1>1, WorkersJob
<1>4. /\ jobs' \in [Jobs -> RenderJob \cup {Freed}]
      /\ \A j \in Jobs : /\ jobs[j] = Freed <=> jobs'[j] = Freed
                         /\ jobs[j] # Freed => KeepsJob(jobs'[j], jobs[j])
      /\ jobs'[worker[w].job].cancelled
  <2>1. \A j \in Jobs : j \in {worker[w].job} => jobs[j] # Freed
    BY <1>3
  <2>2. \A j \in Jobs : /\ jobs'[j] \in RenderJob \cup {Freed}
                        /\ jobs[j] = Freed <=> jobs'[j] = Freed
                        /\ jobs[j] # Freed => KeepsJob(jobs'[j], jobs[j])
                        /\ j \in {worker[w].job} => jobs'[j].cancelled
    BY <1>1, <2>1, CancelFacts DEF IInv
  <2>3. DOMAIN jobs' = Jobs /\ jobs' = [j \in Jobs |-> jobs'[j]]
    BY <1>1 DEF Cancelling
  <2>4. QED
    BY <1>3, <2>2, <2>3
<1>5. Typed'
  <2>1. failures' \in Nat
    BY <1>1 DEF IInv, Typed
  <2>2. jobs' \in [Jobs -> RenderJob \cup {Freed}]
    BY <1>4
  <2>3. UNCHANGED workerOnly
    BY <1>1
  <2>4. QED
    BY <1>2, <2>1, <2>2, <2>3
       DEF IInv, Typed, HeldBy, commandVars, passVars, renderVars
<1>6. Phases'
  BY <1>1 DEF IInv, Phases, passVars, renderVars
<1>7. UNCHANGED <<control, version, tasks, completed, renderVars>>
  BY <1>1
<1>8. worker[w].at # "publish" /\ worker'[w].at # "publish"
  BY <1>1, <1>2
<1>9. QED
  BY <1>2, <1>4, <1>5, <1>6, <1>7, <1>8, WorkerMoves DEF IInv

\* A rendered tile adds its samples to the job.
LEMMA EndRenderHolds ==
  ASSUME IInv, NEW w \in Worker, EndRender(w)
  PROVE  IInv'
<1> DEFINE job == worker[w].job
           tile == worker[w].tile
           sample == <<tile, jobs[job].version>>
<1>1. /\ worker[w].at = "render"
      /\ worker' = [worker EXCEPT ![w].at = "finish"]
      /\ jobs' = [jobs EXCEPT ![job].samples = @ \cup {sample}]
      /\ UNCHANGED workerOnly /\ UNCHANGED failures
  BY DEF EndRender
<1>2. /\ worker' \in [Worker -> HeldBy] /\ WorkersHoldJobs'
      /\ worker'[w].at = "finish"
      /\ worker'[w].job = job /\ worker'[w].tile = tile
      /\ \A v \in Worker \ {w} : worker'[v] = worker[v]
  BY <1>1, WorkerTyped DEF IInv
<1>3. /\ job \in Jobs /\ tile \in Tiles /\ jobs[job] \in RenderJob
      /\ jobs[job] # Freed
  BY <1>1, WorkersJob
<1> HIDE DEF job, tile, sample
<1> USE DEF workerOnly
<1>4. /\ jobs' \in [Jobs -> RenderJob \cup {Freed}]
      /\ jobs'[job] \in RenderJob /\ jobs'[job] # Freed
      /\ jobs'[job].samples = jobs[job].samples \cup {sample}
      /\ jobs'[job].chunk = jobs[job].chunk /\ jobs'[job].version = jobs[job].version
      /\ jobs'[job].cancelled = jobs[job].cancelled
      /\ jobs'[job].tilesRemaining = jobs[job].tilesRemaining
      /\ \A j \in Jobs \ {job} : jobs'[j] = jobs[j]
  <2>1. jobs \in [Jobs -> RenderJob \cup {Freed}]
    BY DEF IInv, Typed
  <2>2. /\ jobs'[job] = [jobs[job] EXCEPT !.samples = @ \cup {sample}]
        /\ \A j \in Jobs \ {job} : jobs'[j] = jobs[j]
        /\ DOMAIN jobs' = Jobs
    BY <1>1, <1>3, <2>1
  <2>3. jobs[job].version \in Nat /\ jobs[job].samples \in Samples
    BY <1>3 DEF RenderJob
  <2>4. jobs[job].samples \cup {sample} \in Samples
    BY <1>3, <2>3 DEF sample, Samples
  <2>5. /\ jobs'[job] \in RenderJob
        /\ jobs'[job].samples = jobs[job].samples \cup {sample}
        /\ jobs'[job].chunk = jobs[job].chunk
        /\ jobs'[job].version = jobs[job].version
        /\ jobs'[job].cancelled = jobs[job].cancelled
        /\ jobs'[job].tilesRemaining = jobs[job].tilesRemaining
    BY <1>3, <2>2, <2>4 DEF RenderJob
  <2>6. jobs'[job] # Freed
    BY <2>5, FreedIsNoJob
  <2>7. jobs' \in [Jobs -> RenderJob \cup {Freed}]
    <3>1. \A j \in Jobs : jobs'[j] \in RenderJob \cup {Freed}
      BY <2>1, <2>2, <2>5
    <3>2. jobs' = [j \in Jobs |-> jobs'[j]]
      BY <1>1, <2>1, <2>2
    <3>3. QED
      BY <3>1, <3>2
  <2>8. QED
    BY <2>2, <2>5, <2>6, <2>7
<1>5. Typed'
  <2>1. UNCHANGED workerOnly /\ UNCHANGED failures
    BY <1>1
  <2>2. jobs' \in [Jobs -> RenderJob \cup {Freed}]
    BY <1>4
  <2>3. QED
    BY <1>2, <2>1, <2>2 DEF IInv, Typed, HeldBy, commandVars, passVars, renderVars
<1>6. Phases'
  BY <1>1 DEF IInv, Phases, passVars, renderVars
<1>7. NothingDangles'
  <2>1. \A v \in Worker : worker'[v].job = worker[v].job
    BY <1>2 DEF job
  <2>2. Referenced' = Referenced
    BY <1>1, <2>1 DEF Referenced, renderVars
  <2>3. QED
    BY <1>4, <2>2 DEF IInv, NothingDangles
<1>8. TilesAccounted'
  <2> SUFFICES ASSUME NEW j \in Jobs, jobs'[j] # Freed
               PROVE  /\ Unfinished(j)' <= jobs'[j].tilesRemaining
                      /\ control' = "running" \/ ~jobs'[j].cancelled =>
                            Unfinished(j)' = jobs'[j].tilesRemaining
    BY DEF TilesAccounted, FreeJobs
  <2>1. Cardinality(InHands(j)') = Cardinality(InHands(j))
    BY <1>1, <1>2, HandsChange DEF IInv, job
  <2>2. Unfinished(j)' = Unfinished(j)
    BY <1>1, <2>1, UnfinishedSum DEF renderVars
  <2>3. /\ jobs[j] # Freed /\ jobs'[j].tilesRemaining = jobs[j].tilesRemaining
        /\ jobs'[j].cancelled = jobs[j].cancelled
    BY <1>3, <1>4
  <2>4. QED
    BY <1>1, <2>2, <2>3 DEF IInv, TilesAccounted, FreeJobs
<1>9. TilesRendered'
  <2> SUFFICES ASSUME NEW j \in Jobs, jobs'[j] # Freed
               PROVE  /\ jobs'[j].samples \subseteq Tiles \X {jobs'[j].version}
                      /\ ~jobs'[j].cancelled =>
                            \A t \in Tiles : \/ <<t, jobs'[j].version>> \in jobs'[j].samples
                                             \/ Open(j, t)'
    BY DEF TilesRendered, JobRendered, FreeJobs
  <2>1. /\ jobs[j] # Freed /\ jobs'[j].version = jobs[j].version
        /\ jobs'[j].cancelled = jobs[j].cancelled
        /\ jobs[j].samples \subseteq jobs'[j].samples
        /\ jobs'[j].samples \subseteq jobs[j].samples
             \cup (IF j = job THEN {sample} ELSE {})
        /\ j = job => sample \in jobs'[j].samples
    BY <1>3, <1>4
  <2>2. /\ jobs[j].samples \subseteq Tiles \X {jobs[j].version}
        /\ ~jobs[j].cancelled =>
              \A t \in Tiles : <<t, jobs[j].version>> \in jobs[j].samples \/ Open(j, t)
    BY <2>1 DEF IInv, TilesRendered, JobRendered, FreeJobs
  <2>3. ASSUME NEW t \in Tiles, Open(j, t)
        PROVE  Open(j, t)' \/ (j = job /\ t = tile)
    BY <1>1, <1>2, <2>3 DEF Open, renderVars, job, tile
  <2>4. QED
    BY <1>3, <2>1, <2>2, <2>3 DEF sample
<1>10. ReturnedOnce'
  <2>1. \A j \in Jobs : jobs'[j].tilesRemaining = jobs[j].tilesRemaining
    BY <1>4
  <2>2. \A i \in DOMAIN completed : completed[i] \in Jobs
    BY ItemOf DEF IInv, Typed
  <2>3. \A v \in Worker : worker'[v].at = "publish" =>
           worker'[v] = worker[v] /\ worker[v].job \in Jobs
    BY <1>2, WorkersJob
  <2>4. QED
    BY <1>1, <2>1, <2>2, <2>3, ReturnsKept DEF IInv
<1>11. CacheIsSound'
  BY <1>1, CacheKept DEF IInv, renderVars
<1>12. QED
  BY <1>2, <1>5, <1>6, <1>7, <1>8, <1>9, <1>10, <1>11 DEF IInv

\* One tile of a job is finished.
LEMMA CountDown ==
  ASSUME IInv, NEW job \in Jobs, jobs[job] # Freed, jobs[job].tilesRemaining >= 1,
         JobsAre([jobs EXCEPT ![job].tilesRemaining = @ - 1]),
         \A j \in Jobs : j \in Referenced' => j \in Referenced,
         \A j \in Jobs : Unfinished(j) = Unfinished(j)' + (IF j = job THEN 1 ELSE 0),
         \A j \in Jobs, t \in Tiles : Open(j, t) /\ ~jobs[j].cancelled => Open(j, t)',
         \A j \in Jobs : Unfinished(j)' \in Nat,
         control' = control
  PROVE  /\ jobs' \in [Jobs -> RenderJob \cup {Freed}]
         /\ \A j \in Jobs : j \in Referenced' =>
               jobs'[j].tilesRemaining
                 = jobs[j].tilesRemaining - (IF j = job THEN 1 ELSE 0)
         /\ NothingDangles' /\ TilesAccounted' /\ TilesRendered'
<1> DEFINE written == [jobs EXCEPT ![job].tilesRemaining = @ - 1]
<1>1. jobs \in [Jobs -> RenderJob \cup {Freed}] /\ jobs[job] \in RenderJob
  BY DEF IInv, Typed
<1>2. /\ written[job] = [jobs[job] EXCEPT !.tilesRemaining = @ - 1]
      /\ \A j \in Jobs \ {job} : written[j] = jobs[j]
  BY <1>1
<1>3. /\ written[job] \in RenderJob
      /\ written[job].tilesRemaining = jobs[job].tilesRemaining - 1
      /\ written[job].version = jobs[job].version
      /\ written[job].cancelled = jobs[job].cancelled
      /\ written[job].samples = jobs[job].samples
  <2>1. jobs[job].tilesRemaining - 1 \in 0 .. TilesPerChunk
    BY <1>1, SchedulingAssumption DEF RenderJob
  <2> HIDE DEF written
  <2>2. QED
    BY <1>1, <1>2, <2>1 DEF RenderJob
<1>4. JobsAre(written)
  OBVIOUS
<1> HIDE DEF written
<1>5. \A j \in Jobs : written[j] \in RenderJob \cup {Freed}
  BY <1>1, <1>2, <1>3
<1>6. /\ jobs' \in [Jobs -> RenderJob \cup {Freed}]
      /\ \A j \in Jobs : jobs'[j] = IF j \in Referenced' THEN written[j] ELSE Freed
  BY <1>4, <1>5, JobsAreFacts
<1>7. ASSUME NEW j \in Jobs, j \in Referenced'
      PROVE  /\ jobs[j] \in RenderJob /\ jobs[j] # Freed /\ jobs'[j] # Freed
             /\ jobs'[j].tilesRemaining
                  = jobs[j].tilesRemaining - (IF j = job THEN 1 ELSE 0)
             /\ jobs'[j].version = jobs[j].version
             /\ jobs'[j].cancelled = jobs[j].cancelled
             /\ jobs'[j].samples = jobs[j].samples
  <2>1. jobs[j] \in RenderJob /\ jobs[j] # Freed
    BY <1>7, ReferencedJob, JobsAreNumbers DEF IInv
  <2>2. jobs'[j] = written[j]
    BY <1>6, <1>7
  <2>3. CASE j = job
    BY <1>3, <2>1, <2>2, <2>3, FreedIsNoJob
  <2>4. CASE j # job
    <3>1. jobs'[j] = jobs[j]
      BY <1>2, <2>2, <2>4
    <3>2. jobs[j].tilesRemaining \in Int
      BY <2>1, SchedulingAssumption DEF RenderJob
    <3>3. QED
      BY <2>1, <2>4, <3>1, <3>2
  <2>5. QED
    BY <2>3, <2>4
<1>8. \A j \in Jobs : jobs'[j] # Freed => j \in Referenced'
  BY <1>6
<1>9. NothingDangles'
  BY <1>7 DEF NothingDangles
<1>10. TilesAccounted'
  <2> SUFFICES ASSUME NEW j \in Jobs, jobs'[j] # Freed
               PROVE  /\ Unfinished(j)' <= jobs'[j].tilesRemaining
                      /\ control' = "running" \/ ~jobs'[j].cancelled =>
                            Unfinished(j)' = jobs'[j].tilesRemaining
    BY DEF TilesAccounted, FreeJobs
  <2>1. /\ jobs[j] \in RenderJob /\ jobs[j] # Freed
        /\ jobs'[j].tilesRemaining
             = jobs[j].tilesRemaining - (IF j = job THEN 1 ELSE 0)
        /\ jobs'[j].cancelled = jobs[j].cancelled
    BY <1>7, <1>8
  <2>2. /\ Unfinished(j) <= jobs[j].tilesRemaining
        /\ control = "running" \/ ~jobs[j].cancelled =>
              Unfinished(j) = jobs[j].tilesRemaining
    BY <2>1 DEF IInv, TilesAccounted, FreeJobs
  <2>3. jobs[j].tilesRemaining \in Int
    BY <2>1, SchedulingAssumption DEF RenderJob
  <2>4. Unfinished(j)' \in Nat
        /\ Unfinished(j) = Unfinished(j)' + (IF j = job THEN 1 ELSE 0)
    OBVIOUS
  <2>5. QED
    BY <2>1, <2>2, <2>3, <2>4
<1>11. TilesRendered'
  <2> SUFFICES ASSUME NEW j \in Jobs, jobs'[j] # Freed
               PROVE  /\ jobs'[j].samples \subseteq Tiles \X {jobs'[j].version}
                      /\ ~jobs'[j].cancelled =>
                            \A t \in Tiles : \/ <<t, jobs'[j].version>> \in jobs'[j].samples
                                             \/ Open(j, t)'
    BY DEF TilesRendered, JobRendered, FreeJobs
  <2>1. /\ jobs[j] # Freed /\ jobs'[j].version = jobs[j].version
        /\ jobs'[j].cancelled = jobs[j].cancelled
        /\ jobs'[j].samples = jobs[j].samples
    BY <1>7, <1>8
  <2>2. /\ jobs[j].samples \subseteq Tiles \X {jobs[j].version}
        /\ ~jobs[j].cancelled =>
              \A t \in Tiles : <<t, jobs[j].version>> \in jobs[j].samples \/ Open(j, t)
    BY <2>1 DEF IInv, TilesRendered, JobRendered, FreeJobs
  <2>3. \A t \in Tiles : Open(j, t) /\ ~jobs[j].cancelled => Open(j, t)'
    OBVIOUS
  <2>4. QED
    BY <2>1, <2>2, <2>3
<1>12. QED
  BY <1>6, <1>7, <1>9, <1>10, <1>11

LEMMA FinishTileHolds ==
  ASSUME IInv, NEW w \in Worker, FinishTile(w)
  PROVE  IInv'
<1> DEFINE job == worker[w].job
<1>1. /\ worker[w].at = "finish"
      /\ worker' = [worker EXCEPT ![w] = IF jobs[job].tilesRemaining = 1
                                         THEN [@ EXCEPT !.at = "publish"] ELSE Idle]
      /\ UNCHANGED workerOnly /\ UNCHANGED failures
      /\ JobsAre([jobs EXCEPT ![job].tilesRemaining = @ - 1])
  BY DEF FinishTile
<1>2. /\ job \in Jobs /\ jobs[job] # Freed /\ jobs[job] \in RenderJob
      /\ jobs[job].tilesRemaining >= 1 /\ job \in Referenced
  BY <1>1, WorkersJob
<1>3. worker \in [Worker -> HeldBy] /\ worker[w] \in HeldBy
  BY DEF IInv, Typed, HeldBy
<1> USE DEF workerOnly
<1>4. /\ \A v \in Worker \ {w} : worker'[v] = worker[v]
      /\ worker'[w] = IF jobs[job].tilesRemaining = 1
                      THEN [worker[w] EXCEPT !.at = "publish"] ELSE Idle
      /\ DOMAIN worker' = Worker
  BY <1>1, <1>3
<1>5. \/ /\ jobs[job].tilesRemaining = 1
         /\ worker'[w].at = "publish" /\ worker'[w].job = job
      \/ /\ worker'[w].at = "idle" /\ worker'[w].job = NoJob
  BY <1>3, <1>4 DEF HeldBy, Idle
<1>6. worker'[w] \in HeldBy
  BY <1>3, <1>4, SchedulingAssumption DEF HeldBy, Idle, Tiles
<1>7. worker' \in [Worker -> HeldBy]
  <2>1. \A v \in Worker : worker'[v] \in HeldBy
    BY <1>3, <1>4, <1>6
  <2>2. worker' = [v \in Worker |-> worker'[v]]
    BY <1>1, <1>3, <1>4
  <2>3. QED
    BY <2>1, <2>2
<1> HIDE DEF job
<1>8. WorkersHoldJobs'
  <2>1. WorkersHoldJobs /\ job # NoJob
    BY <1>2, JobsAreNumbers DEF IInv
  <2>2. QED
    BY <1>4, <1>5, <2>1 DEF WorkersHoldJobs
<1>9. Phases'
  BY <1>1 DEF IInv, Phases, passVars, renderVars
<1>10. \A j \in Jobs : j \in Referenced' => j \in Referenced
  <2>1. \A v \in Worker : worker'[v].job \in {worker[v].job, NoJob}
    BY <1>4, <1>5 DEF job
  <2>2. Referenced' \subseteq Referenced \cup {NoJob}
    BY <1>1, <2>1 DEF Referenced, renderVars
  <2>3. QED
    BY <2>2, JobsAreNumbers
<1>11. \A j \in Jobs : Unfinished(j) = Unfinished(j)' + (IF j = job THEN 1 ELSE 0)
                       /\ Unfinished(j)' \in Nat
  <2> SUFFICES ASSUME NEW j \in Jobs
               PROVE  /\ Unfinished(j) = Unfinished(j)' + (IF j = job THEN 1 ELSE 0)
                      /\ Unfinished(j)' \in Nat
    OBVIOUS
  <2>1. /\ Cardinality(InHands(j)) = Cardinality(InHands(j)') + (IF j = job THEN 1 ELSE 0)
        /\ Cardinality(InHands(j)') \in Nat
    <3>1. Cardinality(InHands(j)) \in Nat
      BY UnfinishedCounts DEF IInv
    <3>2. IsFiniteSet(InHands(j)')
      BY PipelineAssumption, FS_Subset DEF InHands
    <3>3. Cardinality(InHands(j)') \in Nat
      BY <3>2, FS_CardinalityType
    <3>4. CASE j = job
      BY <1>1, <1>4, <1>5, <3>1, <3>3, <3>4, HandsChange, JobsAreNumbers
         DEF IInv, job
    <3>5. CASE j # job
      BY <1>1, <1>4, <1>5, <3>1, <3>3, <3>5, HandsChange, JobsAreNumbers
         DEF IInv, job
    <3>6. QED
      BY <3>3, <3>4, <3>5
  <2>2. /\ TilesIn(pending, j) \in Nat /\ TilesIn(buffer, j) \in Nat
        /\ TilesIn(tasks, j) \in Nat
    BY UnfinishedCounts DEF IInv
  <2>3. pending' = pending /\ buffer' = buffer /\ tasks' = tasks
    BY <1>1 DEF renderVars
  <2>4. QED
    BY <2>1, <2>2, <2>3, UnfinishedSum
<1>12. \A j \in Jobs, t \in Tiles : Open(j, t) /\ ~jobs[j].cancelled => Open(j, t)'
  BY <1>1, <1>4 DEF Open, renderVars
<1>13. /\ jobs' \in [Jobs -> RenderJob \cup {Freed}]
       /\ \A j \in Jobs : j \in Referenced' =>
             jobs'[j].tilesRemaining
               = jobs[j].tilesRemaining - (IF j = job THEN 1 ELSE 0)
       /\ NothingDangles' /\ TilesAccounted' /\ TilesRendered'
  BY <1>1, <1>2, <1>10, <1>11, <1>12, CountDown
<1>14. Typed'
  <2>1. UNCHANGED workerOnly /\ UNCHANGED failures
    BY <1>1
  <2>2. jobs' \in [Jobs -> RenderJob \cup {Freed}]
    BY <1>13
  <2>3. QED
    BY <1>7, <2>1, <2>2 DEF IInv, Typed, HeldBy, commandVars, passVars, renderVars
<1>15. ReturnedOnce'
  <2>1. \A i \in DOMAIN completed :
           /\ completed[i] \in Jobs /\ completed[i] \in Referenced'
           /\ jobs[completed[i]].tilesRemaining = 0 /\ completed[i] # job
    <3>1. \A i \in DOMAIN completed : completed[i] \in Jobs
      BY ItemOf DEF IInv, Typed
    <3>2. \A i \in DOMAIN completed : completed[i] \in Referenced'
      BY <1>1 DEF Referenced
    <3>3. QED
      BY <1>2, <3>1, <3>2 DEF IInv, ReturnedOnce
  <2>2. \A v \in Worker \ {w} : worker[v].at = "publish" =>
           /\ worker[v].job \in Jobs /\ worker[v].job \in Referenced'
           /\ jobs[worker[v].job].tilesRemaining = 0 /\ worker[v].job # job
    <3>1. \A v \in Worker \ {w} : worker[v].job \in Referenced'
      BY <1>4 DEF Referenced
    <3>2. \A v \in Worker : worker[v].at = "publish" => worker[v].job \in Jobs
      BY WorkersJob
    <3>3. QED
      BY <1>2, <3>1, <3>2 DEF IInv, ReturnedOnce
  <2>3. \A i \in DOMAIN completed : jobs'[completed[i]].tilesRemaining = 0
    BY <1>13, <2>1
  <2>4. \A v \in Worker \ {w} : worker[v].at = "publish" =>
           jobs'[worker[v].job].tilesRemaining = 0
    BY <1>13, <2>2
  <2>5. worker'[w].at = "publish" =>
           worker'[w].job = job /\ jobs'[job].tilesRemaining = 0
    <3> SUFFICES ASSUME worker'[w].at = "publish"
                 PROVE  worker'[w].job = job /\ jobs'[job].tilesRemaining = 0
      OBVIOUS
    <3>1. jobs[job].tilesRemaining = 1 /\ worker'[w].job = job
      BY <1>5
    <3>2. job \in Referenced'
      BY <3>1 DEF Referenced
    <3>3. QED
      BY <1>2, <1>13, <3>1, <3>2
  <2>6. completed' = completed
    BY <1>1
  <2>7. /\ \A i \in DOMAIN completed : \A k \in DOMAIN completed \ {i} :
              completed[k] # completed[i]
        /\ \A v \in Worker : worker[v].at = "publish" =>
              /\ \A i \in DOMAIN completed : completed[i] # worker[v].job
              /\ \A u \in Worker \ {v} :
                    worker[u].at = "publish" => worker[u].job # worker[v].job
    BY DEF IInv, ReturnedOnce
  <2>8. \A v \in Worker \ {w} : worker'[v] = worker[v]
    BY <1>4
  <2>9. \A v \in Worker : worker'[v].at = "publish" =>
           /\ jobs'[worker'[v].job].tilesRemaining = 0
           /\ \A i \in DOMAIN completed : completed[i] # worker'[v].job
           /\ \A u \in Worker \ {v} :
                 worker'[u].at = "publish" => worker'[u].job # worker'[v].job
    BY <2>1, <2>2, <2>4, <2>5, <2>7, <2>8
  <2>10. QED
    BY <2>3, <2>6, <2>7, <2>9 DEF ReturnedOnce
<1>16. CacheIsSound'
  BY <1>1, CacheKept DEF IInv, renderVars
<1>17. QED
  BY <1>8, <1>9, <1>13, <1>14, <1>15, <1>16 DEF IInv

LEMMA PublishHolds ==
  ASSUME IInv, NEW w \in Worker, PublishCompleted(w)
  PROVE  IInv'
<1> DEFINE job == worker[w].job
<1>1. /\ worker[w].at = "publish"
      /\ completed' = Append(completed, job)
      /\ worker' = [worker EXCEPT ![w] = Idle]
      /\ UNCHANGED <<control, version, jobs, tasks, stopRequested, failures,
                     scheduler, commandVars, passVars, renderVars>>
  BY DEF PublishCompleted
<1>2. job \in Jobs /\ job \in Referenced /\ completed \in Seq(Jobs)
  BY <1>1, WorkersJob DEF IInv, Typed
<1>3. worker \in [Worker -> HeldBy] /\ 0 \in Tiles
  BY SchedulingAssumption DEF IInv, Typed, HeldBy, Tiles
<1>4. /\ worker' \in [Worker -> HeldBy]
      /\ worker'[w] = Idle /\ Idle.at = "idle" /\ Idle.job = NoJob
      /\ \A v \in Worker \ {w} : worker'[v] = worker[v]
  BY <1>1, <1>3 DEF Idle, HeldBy
<1> HIDE DEF job
<1>5. /\ completed' \in Seq(Jobs) /\ Len(completed) \in Nat
      /\ DOMAIN completed = 1 .. Len(completed)
      /\ DOMAIN completed' = 1 .. Len(completed) + 1
      /\ \A i \in 1 .. Len(completed) : completed'[i] = completed[i]
      /\ completed'[Len(completed) + 1] = job
  BY <1>1, <1>2
<1>6. Typed'
  BY <1>1, <1>4, <1>5 DEF IInv, Typed, HeldBy, commandVars, passVars, renderVars
<1>7. WorkersHoldJobs'
  BY <1>4 DEF IInv, WorkersHoldJobs
<1>8. Phases'
  BY <1>1 DEF IInv, Phases, passVars, renderVars
<1>9. NothingDangles'
  <2>1. \A v \in Worker : worker'[v].job \in {worker[v].job, NoJob}
    BY <1>4
  <2>2. \A i \in DOMAIN completed' : completed'[i] \in Referenced
    <3>1. \A i \in DOMAIN completed : completed[i] \in Referenced
      BY DEF Referenced
    <3>2. QED
      BY <1>2, <1>5, <3>1
  <2>3. Referenced' \subseteq Referenced \cup {NoJob}
    BY <1>1, <2>1, <2>2 DEF Referenced, renderVars
  <2>4. \A j \in Jobs : j \in Referenced' => j \in Referenced
    BY <2>3, JobsAreNumbers
  <2>5. QED
    BY <1>1, <2>4, NothingDanglesAfter DEF IInv
<1>10. ASSUME NEW j \in Jobs PROVE KeepsTiles(j)
  <2>1. Cardinality(InHands(j)') = Cardinality(InHands(j))
    BY <1>1, <1>4, HandsChange, JobsAreNumbers DEF IInv
  <2>2. Unfinished(j)' = Unfinished(j)
    BY <1>1, <2>1, UnfinishedSum DEF renderVars
  <2>3. Unfinished(j) \in Nat
    BY UnfinishedCounts DEF IInv
  <2>4. \A t : Open(j, t) => Open(j, t)'
    BY <1>1, <1>4 DEF Open, renderVars
  <2>5. QED
    BY <1>1, <2>2, <2>3, <2>4 DEF KeepsTiles, KeepsJob
<1>11. TilesAccounted' /\ TilesRendered'
  BY <1>1, <1>6, <1>10, TilesKept DEF IInv
<1>12. ReturnedOnce'
  <2>1. /\ jobs[job].tilesRemaining = 0
        /\ \A i \in DOMAIN completed : completed[i] # job
        /\ \A v \in Worker \ {w} : worker[v].at = "publish" => worker[v].job # job
    BY <1>1 DEF IInv, ReturnedOnce, job
  <2>2. /\ \A i \in DOMAIN completed :
              /\ jobs[completed[i]].tilesRemaining = 0
              /\ \A k \in DOMAIN completed \ {i} : completed[k] # completed[i]
        /\ \A v \in Worker : worker[v].at = "publish" =>
              /\ jobs[worker[v].job].tilesRemaining = 0
              /\ \A i \in DOMAIN completed : completed[i] # worker[v].job
              /\ \A u \in Worker \ {v} :
                    worker[u].at = "publish" => worker[u].job # worker[v].job
    BY DEF IInv, ReturnedOnce
  <2>3. \A i \in DOMAIN completed' :
           /\ jobs[completed'[i]].tilesRemaining = 0
           /\ \A k \in DOMAIN completed' \ {i} : completed'[k] # completed'[i]
    BY <1>5, <2>1, <2>2
  <2>4. \A v \in Worker : worker'[v].at = "publish" =>
           /\ v # w /\ worker'[v] = worker[v]
           /\ \A i \in DOMAIN completed' : completed'[i] # worker[v].job
    BY <1>4, <1>5, <2>1, <2>2
  <2>5. QED
    BY <1>1, <2>2, <2>3, <2>4 DEF ReturnedOnce
<1>13. CacheIsSound'
  BY <1>1, CacheKept DEF IInv, renderVars
<1>14. QED
  BY <1>6, <1>7, <1>8, <1>9, <1>11, <1>12, <1>13 DEF IInv

LEMMA WorkerHolds ==
  ASSUME IInv, NEW w \in Worker, WorkerStep(w)
  PROVE  IInv'
BY TakeTaskHolds, ExitWorkerHolds, BeginRenderHolds, GiveUpHolds, EndRenderHolds,
   FinishTileHolds, PublishHolds DEF WorkerStep

-----------------------------------------------------------------------------
(***************************************************************************)
(* The scheduler moves tiles.                                              *)
(***************************************************************************)
LEMMA TilesMoved ==
  ASSUME IInv, Typed',
         UNCHANGED <<control, version, jobs, completed, worker, cache>>,
         \A j \in Jobs : j \in Referenced' => j \in Referenced,
         \A j \in Jobs : Unfinished(j)' = Unfinished(j),
         \A j \in Jobs, t \in Tiles : Open(j, t) => Open(j, t)'
  PROVE  /\ WorkersHoldJobs' /\ NothingDangles' /\ TilesAccounted'
         /\ TilesRendered' /\ ReturnedOnce' /\ CacheIsSound'
<1>1. WorkersHoldJobs'
  BY DEF IInv, WorkersHoldJobs
<1>2. NothingDangles'
  BY NothingDanglesAfter DEF IInv
<1>3. ASSUME NEW j \in Jobs PROVE KeepsTiles(j)
  <2>1. Unfinished(j) \in Nat
    BY UnfinishedCounts DEF IInv
  <2>2. QED
    BY <2>1 DEF KeepsTiles, KeepsJob
<1>4. TilesAccounted' /\ TilesRendered'
  BY <1>3, TilesKept DEF IInv
<1>5. ReturnedOnce'
  BY DEF IInv, ReturnedOnce
<1>6. CacheIsSound'
  BY CacheKept DEF IInv
<1>7. QED
  BY <1>1, <1>2, <1>4, <1>5, <1>6

\* The items of a queue, and the job each belongs to.
LEMMA PendingItems ==
  ASSUME IInv, NEW i \in DOMAIN pending
  PROVE  /\ pending[i] \in PendingTile
         /\ pending[i].job \in Jobs /\ pending[i].tile \in Tiles
         /\ pending[i].job \in Referenced /\ jobs[pending[i].job] \in RenderJob
<1>1. pending \in Seq(PendingTile)
  BY DEF IInv, Typed
<1>2. pending[i] \in PendingTile
  BY <1>1, ItemOf
<1>3. pending[i].job \in Jobs /\ pending[i].tile \in Tiles
  BY <1>2 DEF PendingTile
<1>4. pending[i].job \in Referenced
  BY DEF Referenced, JobsIn
<1>5. QED
  BY <1>2, <1>3, <1>4, ReferencedJob, JobsAreNumbers DEF IInv

LEMMA BufferItems ==
  ASSUME IInv, NEW i \in DOMAIN buffer
  PROVE  /\ buffer[i] \in PendingTile
         /\ buffer[i].job \in Jobs /\ buffer[i].tile \in Tiles
         /\ buffer[i].job \in Referenced /\ jobs[buffer[i].job] \in RenderJob
<1>1. buffer \in Seq(PendingTile)
  BY DEF IInv, Typed
<1>2. buffer[i] \in PendingTile
  BY <1>1, ItemOf
<1>3. buffer[i].job \in Jobs /\ buffer[i].tile \in Tiles
  BY <1>2 DEF PendingTile
<1>4. buffer[i].job \in Referenced
  BY DEF Referenced, JobsIn
<1>5. QED
  BY <1>2, <1>3, <1>4, ReferencedJob, JobsAreNumbers DEF IInv

LEMMA BeginPassHolds ==
  ASSUME IInv, NEW position \in Playheads, BeginPass(position)
  PROVE  IInv'
<1> USE DEF commandVars, passVars, sharedVars, renderVars
<1> DEFINE relabelled == [i \in DOMAIN pending |-> classified(pending[i], position)]
<1>1. /\ scheduler = "pass" /\ scheduler' = "schedule"
      /\ pending' = relabelled \/ pending' = pending
      /\ dirty' = FALSE /\ playhead' = position /\ checkedChunks' = 0
      /\ work' = UrgentChunkSeq(position) \o VisibleChunks
      /\ UNCHANGED <<control, sharedVars, playRequested, viewport, gateOpen,
                     retained, scanCursor, activeJob, cache, buffer>>
  BY DEF BeginPass
<1>2. position \in Boundaries /\ pending \in Seq(PendingTile)
      /\ viewport \in Boundaries \X Boundaries
  BY PipelineAssumption DEF IInv, Typed
<1>3. /\ pending' \in Seq(PendingTile) /\ Len(pending') = Len(pending)
      /\ DOMAIN pending' = DOMAIN pending
      /\ \A i \in DOMAIN pending : /\ pending'[i].job = pending[i].job
                                   /\ pending'[i].tile = pending[i].tile
  <2>1. CASE pending' = pending
    BY <1>2, <2>1
  <2>2. CASE pending' = relabelled
    <3>1. ASSUME NEW i \in DOMAIN pending
          PROVE  /\ classified(pending[i], position) \in PendingTile
                 /\ classified(pending[i], position).job = pending[i].job
                 /\ classified(pending[i], position).tile = pending[i].tile
      <4>1. pending[i] \in PendingTile /\ jobs[pending[i].job] \in RenderJob
        BY PendingItems
      <4>2. jobs[pending[i].job].chunk \in Chunks
        BY <4>1 DEF RenderJob
      <4> DEFINE label == classifyChunk(jobs[pending[i].job].chunk, position,
                                        playRequested, viewport)
      <4>3. label \in Classification
        BY <1>2, <4>2, ClassificationTyped
      <4> HIDE DEF label
      <4>4. classified(pending[i], position)
              = [pending[i] EXCEPT !.classification = label]
        BY DEF classified, label
      <4>5. QED
        BY <4>1, <4>3, <4>4 DEF PendingTile
    <3>2. Len(pending) \in Nat /\ DOMAIN pending = 1 .. Len(pending)
      BY <1>2
    <3>3. pending' \in [1 .. Len(pending) -> PendingTile]
      BY <2>2, <3>1, <3>2
    <3>4. /\ pending' \in Seq(PendingTile) /\ Len(pending') = Len(pending)
          /\ DOMAIN pending' = 1 .. Len(pending)
      BY <3>2, <3>3, SeqOf
    <3>5. QED
      BY <2>2, <3>1, <3>2, <3>4
  <2>3. QED
    BY <1>1, <2>1, <2>2
<1> HIDE DEF relabelled
<1>4. work' \in Seq(Chunks)
  <2>1. UrgentChunkSeq(position) \in Seq(Chunks) /\ VisibleChunks \in Seq(Chunks)
    BY <1>2, UrgentSeqTyped, VisibleSeqTyped
  <2>2. QED
    BY <1>1, <2>1
<1>5. Typed'
  <2>1. 0 \in 0 .. ChunkCount
    BY ChunkFacts
  <2>2. QED
    BY <1>1, <1>2, <1>3, <1>4, <2>1 DEF IInv, Typed
<1>6. Phases'
  BY <1>1 DEF IInv, Phases
<1>7. \A j : /\ TilesIn(pending', j) = TilesIn(pending, j)
             /\ \A t : Has(pending', j, t) <=> Has(pending, j, t)
             /\ JobsIn(pending') = JobsIn(pending)
  BY <1>3, RelabelCount
<1>8. Referenced' = Referenced
  BY <1>1, <1>7 DEF Referenced
<1>9. \A j : Unfinished(j)' = Unfinished(j)
  BY <1>1, <1>7 DEF Unfinished
<1>10. \A j, t : Open(j, t)' <=> Open(j, t)
  BY <1>1, <1>7 DEF Open
<1>11. UNCHANGED <<control, version, jobs, completed, worker, cache>>
  BY <1>1
<1>12. QED
  BY <1>5, <1>6, <1>8, <1>9, <1>10, <1>11, TilesMoved DEF IInv

\* The pending tiles are set aside.
LEMMA BeginMakeRoomHolds ==
  ASSUME IInv, BeginMakeRoom
  PROVE  IInv'
<1> USE DEF commandVars, passVars, sharedVars, renderVars
<1> DEFINE kept == {i \in DOMAIN pending : ~IsCancelled(pending[i])}
<1>1. /\ scheduler = "schedule" /\ scheduler' = "evict" /\ work # <<>>
      /\ buffer' = pending /\ pending' = <<>>
      /\ retained' = Cardinality(kept)
      /\ UNCHANGED <<control, sharedVars, commandVars, playhead, gateOpen, work,
                     scanCursor, checkedChunks, activeJob, cache>>
  BY DEF BeginMakeRoom
<1>2. buffer = <<>> /\ pending \in Seq(PendingTile) /\ control = "running"
  BY <1>1 DEF IInv, Phases, Typed
<1>3. /\ <<>> \in Seq(PendingTile) /\ Len(<<>>) = 0 /\ Len(pending) \in Nat
      /\ Len(pending) <= MaxPendingTiles
  BY <1>2 DEF IInv, Typed
<1>4. retained' \in 0 .. MaxPendingTiles
  <2>1. /\ IsFiniteSet(DOMAIN pending) /\ Cardinality(DOMAIN pending) = Len(pending)
        /\ kept \subseteq DOMAIN pending
    <3>1. DOMAIN pending = 1 .. Len(pending)
      BY <1>2
    <3>2. /\ IsFiniteSet(1 .. Len(pending))
          /\ Cardinality(1 .. Len(pending)) = Len(pending)
      BY <1>3, IntervalCount
    <3>3. QED
      BY <3>1, <3>2
  <2> HIDE DEF kept
  <2>2. Cardinality(kept) \in Nat /\ Cardinality(kept) <= Len(pending)
    BY <2>1, FS_Subset, FS_CardinalityType
  <2>3. QED
    BY <1>1, <1>3, <2>2, SchedulingAssumption
<1> HIDE DEF kept
<1>5. Typed'
  <2>1. Len(pending') + Len(buffer') <= MaxPendingTiles
    BY <1>1, <1>3
  <2>2. QED
    BY <1>1, <1>2, <1>3, <1>4, <2>1 DEF IInv, Typed
<1>6. Phases'
  BY <1>1, <1>2 DEF IInv, Phases
<1>7. \A j : TilesIn(<<>>, j) = 0 /\ JobsIn(<<>>) = {} /\ \A t : ~Has(<<>>, j, t)
  BY EmptyCount
<1>8. Referenced' = Referenced
  BY <1>1, <1>2, <1>7 DEF Referenced
<1>9. \A j \in Jobs : Unfinished(j)' = Unfinished(j)
  <2> SUFFICES ASSUME NEW j \in Jobs PROVE Unfinished(j)' = Unfinished(j)
    OBVIOUS
  <2>1. /\ TilesIn(pending, j) \in Nat /\ TilesIn(buffer, j) \in Nat
        /\ TilesIn(tasks, j) \in Nat /\ Cardinality(InHands(j)) \in Nat
    BY UnfinishedCounts DEF IInv
  <2>2. InHands(j)' = InHands(j) /\ tasks' = tasks
    BY <1>1 DEF InHands
  <2>3. QED
    BY <1>1, <1>2, <1>7, <2>1, <2>2, UnfinishedSum
<1>10. \A j, t : Open(j, t)' <=> Open(j, t)
  BY <1>1, <1>2, <1>7 DEF Open
<1>11. UNCHANGED <<control, version, jobs, completed, worker, cache>>
  BY <1>1
<1>12. QED
  BY <1>5, <1>6, <1>8, <1>9, <1>10, <1>11, TilesMoved DEF IInv

\* A tile of a job that is not cancelled goes back.
LEMMA KeepTileHolds ==
  ASSUME IInv, KeepTile
  PROVE  IInv'
<1> USE DEF commandVars, passVars, sharedVars, renderVars
<1> DEFINE item == Head(buffer)
<1>1. /\ scheduler = "retire" /\ buffer # <<>>
      /\ pending' = Append(pending, item) /\ buffer' = Tail(buffer)
      /\ UNCHANGED <<control, sharedVars, scheduler, commandVars, passVars,
                     activeJob, cache>>
  BY DEF KeepTile
<1>2. /\ buffer \in Seq(PendingTile) /\ pending \in Seq(PendingTile)
      /\ control = "running" /\ Len(pending) + Len(buffer) <= MaxPendingTiles
  BY <1>1 DEF IInv, Phases, Typed
<1>3. /\ item \in PendingTile /\ buffer' \in Seq(PendingTile)
      /\ Len(buffer') = Len(buffer) - 1
      /\ \A j : /\ TilesIn(buffer, j)
                     = TilesIn(buffer', j) + (IF item.job = j THEN 1 ELSE 0)
                /\ \A t : Has(buffer, j, t)
                           <=> Has(buffer', j, t) \/ (item.job = j /\ item.tile = t)
                /\ JobsIn(buffer) = JobsIn(buffer') \cup {item.job}
  <2>1. buffer' = Tail(buffer) /\ buffer \in Seq(PendingTile) /\ buffer # <<>>
    BY <1>1, <1>2
  <2>2. QED
    BY <2>1, TailCount
<1> HIDE DEF item
<1>4. /\ pending' \in Seq(PendingTile) /\ Len(pending') = Len(pending) + 1
      /\ Len(pending) \in Nat /\ Len(buffer) \in Nat
  BY <1>1, <1>2, <1>3
<1>5. ASSUME NEW j
       PROVE  /\ TilesIn(pending', j)
                    = TilesIn(pending, j) + (IF item.job = j THEN 1 ELSE 0)
              /\ \A t : Has(pending', j, t)
                          <=> Has(pending, j, t) \/ (item.job = j /\ item.tile = t)
              /\ JobsIn(pending') = JobsIn(pending) \cup {item.job}
  <2>1. pending' = Append(pending, item)
    BY <1>1
  <2>2. pending \in Seq(PendingTile) /\ item \in PendingTile
    BY <1>2, <1>3
  <2>3. QED
    BY <2>1, <2>2, AppendCount
<1>6. Typed'
  <2>1. Len(pending') + Len(buffer') <= MaxPendingTiles
    BY <1>2, <1>3, <1>4
  <2>2. QED
    BY <1>1, <1>3, <1>4, <2>1 DEF IInv, Typed
<1>7. Phases'
  BY <1>1, <1>2 DEF IInv, Phases
<1>8. Referenced' = Referenced
  <2>1. /\ JobsIn(pending') = JobsIn(pending) \cup {item.job}
        /\ JobsIn(buffer) = JobsIn(buffer') \cup {item.job}
        /\ UNCHANGED <<tasks, completed, worker, activeJob>>
    BY <1>1, <1>3, <1>5 DEF sharedVars
  <2>2. QED
    BY <2>1 DEF Referenced
<1>9. \A j \in Jobs : Unfinished(j)' = Unfinished(j)
  <2> SUFFICES ASSUME NEW j \in Jobs PROVE Unfinished(j)' = Unfinished(j)
    OBVIOUS
  <2>1. /\ TilesIn(pending, j) \in Nat /\ TilesIn(buffer, j) \in Nat
        /\ TilesIn(buffer', j) \in Nat
        /\ TilesIn(tasks, j) \in Nat /\ Cardinality(InHands(j)) \in Nat
    BY <1>3, UnfinishedCounts, CountFacts DEF IInv
  <2>2. InHands(j)' = InHands(j) /\ tasks' = tasks
    BY <1>1 DEF InHands
  <2>3. QED
    BY <1>3, <1>5, <2>1, <2>2, UnfinishedSum
<1>10. \A j, t : Open(j, t) => Open(j, t)'
  BY <1>1, <1>3, <1>5 DEF Open
<1>11. UNCHANGED <<control, version, jobs, completed, worker, cache>>
  BY <1>1
<1>12. QED
  BY <1>6, <1>7, <1>8, <1>9, <1>10, <1>11, TilesMoved DEF IInv

\* The first tile in order of precedence goes to the workers.
LEMMA DispatchTileHolds ==
  ASSUME IInv, DispatchTile
  PROVE  IInv'
<1> USE DEF commandVars, passVars, sharedVars, renderVars
<1> DEFINE item == pending[Top]
           task == [job |-> item.job, tile |-> item.tile]
<1>1. /\ scheduler = "dispatch" /\ pending # <<>> /\ Len(tasks) < TaskCapacity
      /\ tasks' = Append(tasks, task)
      /\ pending' = [i \in 1 .. Len(pending) - 1 |->
                        pending[IF i < Top THEN i ELSE i + 1]]
      /\ UNCHANGED <<control, version, jobs, completed, stopRequested, worker,
                     failures, scheduler, commandVars, passVars, activeJob, cache,
                     buffer>>
  BY DEF DispatchTile, MayDispatch
<1>2. /\ pending \in Seq(PendingTile) /\ tasks \in Seq(TaskItem)
      /\ control = "running" /\ Len(pending) + Len(buffer) <= MaxPendingTiles
      /\ Len(buffer) \in Nat
  BY <1>1 DEF IInv, Phases, Typed, TaskItem
<1>3. /\ Top \in DOMAIN pending /\ item \in PendingTile
      /\ task \in TaskItem /\ task.job = item.job /\ task.tile = item.tile
  BY <1>1, <1>2, TopIsPending, PendingItems DEF PendingTile, TaskItem
<1> HIDE DEF task
<1>4. /\ pending' \in Seq(PendingTile) /\ Len(pending') = Len(pending) - 1
      /\ Without(pending', pending, Top)
  <2>1. Len(pending) \in Nat /\ DOMAIN pending = 1 .. Len(pending)
    BY <1>2
  <2>2. Len(pending) - 1 \in Nat /\ Top \in 1 .. Len(pending)
    BY <1>3, <2>1
  <2>3. \A i \in 1 .. Len(pending) - 1 :
           (IF i < Top THEN i ELSE i + 1) \in 1 .. Len(pending)
    BY <2>1, <2>2
  <2>4. pending' \in [1 .. Len(pending) - 1 -> PendingTile]
    BY <1>1, <1>2, <2>3
  <2>5. pending' \in Seq(PendingTile) /\ Len(pending') = Len(pending) - 1
    BY <2>2, <2>4, SeqOf
  <2>6. QED
    BY <1>1, <2>5 DEF Without
<1>5. ASSUME NEW j
      PROVE  /\ TilesIn(pending, j)
                   = TilesIn(pending', j) + (IF item.job = j THEN 1 ELSE 0)
             /\ \A t : Has(pending, j, t)
                        <=> Has(pending', j, t) \/ (item.job = j /\ item.tile = t)
             /\ JobsIn(pending) = JobsIn(pending') \cup {item.job}
  <2>1. /\ pending \in Seq(PendingTile) /\ pending' \in Seq(PendingTile)
        /\ Top \in DOMAIN pending /\ Without(pending', pending, Top)
    BY <1>2, <1>3, <1>4
  <2>2. QED
    BY <2>1, RemoveCount
<1> HIDE DEF item
<1>6. /\ tasks' \in Seq(TaskItem) /\ Len(tasks') = Len(tasks) + 1
      /\ Len(tasks) \in Nat
  BY <1>1, <1>2, <1>3
<1>7. ASSUME NEW j
       PROVE  /\ TilesIn(tasks', j)
                    = TilesIn(tasks, j) + (IF item.job = j THEN 1 ELSE 0)
              /\ \A t : Has(tasks', j, t)
                          <=> Has(tasks, j, t) \/ (item.job = j /\ item.tile = t)
              /\ JobsIn(tasks') = JobsIn(tasks) \cup {item.job}
  <2>1. tasks' = Append(tasks, task)
    BY <1>1
  <2>2. QED
    BY <1>2, <1>3, <2>1, AppendCount
<1>8. Typed'
  <2>1. Len(pending') + Len(buffer') <= MaxPendingTiles
    <3>1. Len(pending) \in Nat /\ buffer' = buffer
      BY <1>1, <1>2
    <3>2. QED
      BY <1>2, <1>4, <3>1, SchedulingAssumption
  <2>2. Len(tasks') <= TaskCapacity
    <3>1. Len(tasks) < TaskCapacity
      BY <1>1
    <3>2. QED
      BY <1>6, <3>1, PipelineAssumption
  <2>3. QED
    BY <1>1, <1>4, <1>6, <2>1, <2>2 DEF IInv, Typed, TaskItem
<1>9. Phases'
  BY <1>1, <1>2 DEF IInv, Phases
<1>10. Referenced' = Referenced
  <2>1. /\ JobsIn(pending) = JobsIn(pending') \cup {item.job}
        /\ JobsIn(tasks') = JobsIn(tasks) \cup {item.job}
        /\ UNCHANGED <<buffer, completed, worker, activeJob>>
    BY <1>1, <1>5, <1>7
  <2>2. QED
    BY <2>1 DEF Referenced
<1>11. \A j \in Jobs : Unfinished(j)' = Unfinished(j)
  <2> SUFFICES ASSUME NEW j \in Jobs PROVE Unfinished(j)' = Unfinished(j)
    OBVIOUS
  <2>1. /\ TilesIn(pending, j) \in Nat /\ TilesIn(buffer, j) \in Nat
        /\ TilesIn(pending', j) \in Nat
        /\ TilesIn(tasks, j) \in Nat /\ Cardinality(InHands(j)) \in Nat
    BY <1>4, UnfinishedCounts, CountFacts DEF IInv
  <2>2. InHands(j)' = InHands(j) /\ buffer' = buffer
    BY <1>1 DEF InHands
  <2>3. QED
    BY <1>5, <1>7, <2>1, <2>2, UnfinishedSum
<1>12. \A j, t : Open(j, t) => Open(j, t)'
  BY <1>1, <1>5, <1>7 DEF Open
<1>13. UNCHANGED <<control, version, jobs, completed, worker, cache>>
  BY <1>1
<1>14. QED
  BY <1>8, <1>9, <1>10, <1>11, <1>12, <1>13, TilesMoved DEF IInv

-----------------------------------------------------------------------------
(***************************************************************************)
(* Jobs are cancelled, and freed with the last reference to them.          *)
(***************************************************************************)
\* Jobs are cancelled and everything stays where it is.
LEMMA JobsCancelled ==
  ASSUME IInv, NEW set, \A j \in Jobs : j \in set => j \in Referenced,
         jobs' = Cancelling(set),
         UNCHANGED <<control, tasks, completed, worker, activeJob, pending, buffer>>
  PROVE  /\ jobs' \in [Jobs -> RenderJob \cup {Freed}]
         /\ Typed' => /\ WorkersHoldJobs' /\ NothingDangles' /\ TilesAccounted'
                      /\ TilesRendered' /\ ReturnedOnce'
<1>1. \A j \in Jobs : j \in set => jobs[j] # Freed
  BY DEF IInv, NothingDangles
<1>2. \A j \in Jobs : /\ jobs'[j] \in RenderJob \cup {Freed}
                      /\ jobs[j] = Freed <=> jobs'[j] = Freed
                      /\ jobs[j] # Freed => KeepsJob(jobs'[j], jobs[j])
  BY <1>1, CancelFacts DEF IInv
<1>3. jobs' \in [Jobs -> RenderJob \cup {Freed}]
  <2>1. jobs' = [j \in Jobs |-> jobs'[j]]
    BY DEF Cancelling
  <2>2. QED
    BY <1>2, <2>1
<1>4. Referenced' = Referenced
  BY DEF Referenced
<1>5. ASSUME Typed'
      PROVE  /\ WorkersHoldJobs' /\ NothingDangles' /\ TilesAccounted'
             /\ TilesRendered' /\ ReturnedOnce'
  <2>1. WorkersHoldJobs'
    BY DEF IInv, WorkersHoldJobs
  <2>2. NothingDangles'
    BY <1>2, <1>4 DEF IInv, NothingDangles
  <2>3. ASSUME NEW j \in Jobs PROVE KeepsTiles(j)
    <3>1. Unfinished(j)' = Unfinished(j)
      BY DEF Unfinished
    <3>2. \A t : Open(j, t)' <=> Open(j, t)
      BY DEF Open
    <3>3. Unfinished(j) \in Nat
      BY UnfinishedCounts DEF IInv
    <3>4. QED
      BY <1>2, <3>1, <3>2, <3>3 DEF KeepsTiles
  <2>4. TilesAccounted' /\ TilesRendered'
    BY <1>5, <2>3, TilesKept DEF IInv
  <2>5. ReturnedOnce'
    <3>1. ASSUME NEW j \in Jobs, j \in Referenced
          PROVE  jobs'[j].tilesRemaining = jobs[j].tilesRemaining
      BY <1>2, <3>1 DEF KeepsJob, IInv, NothingDangles
    <3>2. \A i \in DOMAIN completed : completed[i] \in Jobs /\ completed[i] \in Referenced
      BY ItemOf DEF IInv, Typed, Referenced
    <3>3. \A w \in Worker : worker[w].at = "publish" =>
             worker[w].job \in Jobs /\ worker[w].job \in Referenced
      BY WorkersJob
    <3>4. QED
      BY <3>1, <3>2, <3>3, ReturnsKept DEF IInv
  <2>6. QED
    BY <2>1, <2>2, <2>4, <2>5
<1>6. QED
  BY <1>3, <1>5

LEMMA InvalidateChunkHolds ==
  ASSUME IInv, InvalidateChunk
  PROVE  IInv'
<1> USE DEF commandVars, passVars, renderVars
<1> DEFINE chunk == Head(work)
           set == {activeJob[chunk]}
<1>1. /\ scheduler = "invalidate" /\ work # <<>>
      /\ version' = [version EXCEPT ![chunk] = @ + 1]
      /\ jobs' = Cancelling(set)
      /\ work' = Tail(work)
      /\ UNCHANGED <<control, tasks, completed, stopRequested, worker, failures,
                     scheduler, commandVars, playhead, gateOpen, retained,
                     scanCursor, checkedChunks, renderVars>>
  BY DEF InvalidateChunk
<1>2. chunk \in Chunks /\ work' \in Seq(Chunks)
  BY <1>1 DEF IInv, Typed
<1>3. \A j \in Jobs : j \in set => j \in Referenced
  BY <1>2 DEF Referenced
<1> HIDE DEF chunk, set
<1>4. /\ version \in [Chunks -> Nat] /\ version' \in [Chunks -> Nat]
      /\ version'[chunk] = version[chunk] + 1
      /\ \A c \in Chunks \ {chunk} : version'[c] = version[c]
  <2>1. version \in [Chunks -> Nat]
    BY DEF IInv, Typed
  <2>2. version' = [version EXCEPT ![chunk] = @ + 1]
    BY <1>1
  <2>3. QED
    BY <1>2, <2>1, <2>2
<1>5. UNCHANGED <<control, tasks, completed, worker, activeJob, pending, buffer>>
  BY <1>1
<1>6. jobs' = Cancelling(set)
  BY <1>1
<1>7. jobs' \in [Jobs -> RenderJob \cup {Freed}]
  BY <1>3, <1>5, <1>6, JobsCancelled
<1>8. Typed'
  BY <1>1, <1>2, <1>4, <1>7 DEF IInv, Typed
<1>9. /\ WorkersHoldJobs' /\ NothingDangles' /\ TilesAccounted'
      /\ TilesRendered' /\ ReturnedOnce'
  BY <1>3, <1>5, <1>6, <1>8, JobsCancelled
<1>10. Phases'
  BY <1>1 DEF IInv, Phases
<1>11. CacheIsSound'
  <2>1. cache' = cache /\ \A c \in Chunks : cache[c].version \in Nat
    BY <1>1 DEF IInv, Typed
  <2>2. \A c \in Chunks : cache[c].version <= version[c]
    BY DEF IInv, CacheIsSound
  <2>3. \A c \in Chunks : cache'[c].version <= version'[c]
    BY <1>4, <2>1, <2>2
  <2>4. \A c \in Chunks : cacheIsCurrent(c)' =>
           cacheIsCurrent(c) /\ version'[c] = version[c]
    BY <1>4, <2>1, <2>2 DEF cacheIsCurrent
  <2>5. CacheIsComplete'
    BY <2>1, <2>4 DEF IInv, CacheIsSound, CacheIsComplete
  <2>6. QED
    BY <2>3, <2>5 DEF CacheIsSound
<1>12. QED
  BY <1>8, <1>9, <1>10, <1>11 DEF IInv

LEMMA EvictHolds ==
  ASSUME IInv, Evict
  PROVE  IInv'
<1> USE DEF commandVars, passVars, renderVars
<1>1. /\ scheduler = "evict" /\ scheduler' = "retire"
      /\ jobs' = Cancelling(Evicted)
      /\ UNCHANGED <<control, version, tasks, completed, stopRequested, worker,
                     failures, commandVars, passVars, renderVars>>
  BY DEF Evict
<1>2. \A j \in Jobs : j \in Evicted => j \in Referenced
  BY DEF Evicted, Evictable, Referenced, JobsIn
<1>3. UNCHANGED <<control, tasks, completed, worker, activeJob, pending, buffer>>
  BY <1>1
<1>4. jobs' \in [Jobs -> RenderJob \cup {Freed}]
  BY <1>1, <1>2, <1>3, JobsCancelled
<1>5. Typed'
  BY <1>1, <1>4 DEF IInv, Typed
<1>6. /\ WorkersHoldJobs' /\ NothingDangles' /\ TilesAccounted'
      /\ TilesRendered' /\ ReturnedOnce'
  BY <1>1, <1>2, <1>3, <1>5, JobsCancelled
<1>7. Phases'
  BY <1>1 DEF IInv, Phases
<1>8. CacheIsSound'
  BY <1>1, CacheKept DEF IInv
<1>9. QED
  BY <1>5, <1>6, <1>7, <1>8 DEF IInv

\* Jobs are cancelled and some let go of.
LEMMA JobsDropped ==
  ASSUME IInv, NEW set, \A j \in Jobs : j \in set => j \in Referenced,
         JobsAre(Cancelling(set)),
         \A j \in Jobs : j \in Referenced' => j \in Referenced
  PROVE  /\ jobs' \in [Jobs -> RenderJob \cup {Freed}]
         /\ \A j \in Jobs : j \notin Referenced' => jobs'[j] = Freed
         /\ \A j \in Jobs : j \in Referenced' =>
               /\ jobs[j] # Freed /\ jobs'[j] # Freed
               /\ KeepsJob(jobs'[j], jobs[j])
               /\ IF j \in set THEN jobs'[j].cancelled ELSE jobs'[j] = jobs[j]
         /\ NothingDangles'
<1> DEFINE written == Cancelling(set)
<1>1. \A j \in Jobs : j \in Referenced => jobs[j] # Freed
  BY DEF IInv, NothingDangles
<1>2. \A j \in Jobs : /\ written[j] \in RenderJob \cup {Freed}
                      /\ j \notin set => written[j] = jobs[j]
                      /\ j \in set => written[j].cancelled
                      /\ jobs[j] = Freed <=> written[j] = Freed
                      /\ jobs[j] # Freed => KeepsJob(written[j], jobs[j])
  BY <1>1, CancelFacts DEF IInv
<1>3. JobsAre(written)
  OBVIOUS
<1> HIDE DEF written
<1>4. /\ jobs' \in [Jobs -> RenderJob \cup {Freed}]
      /\ \A j \in Jobs : jobs'[j] = IF j \in Referenced' THEN written[j] ELSE Freed
  BY <1>2, <1>3, JobsAreFacts
<1>5. ASSUME NEW j \in Jobs, j \in Referenced'
      PROVE  /\ jobs[j] # Freed /\ jobs'[j] # Freed
             /\ KeepsJob(jobs'[j], jobs[j])
             /\ IF j \in set THEN jobs'[j].cancelled ELSE jobs'[j] = jobs[j]
  BY <1>1, <1>2, <1>4, <1>5
<1>6. NothingDangles'
  BY <1>5 DEF NothingDangles
<1>7. QED
  BY <1>4, <1>5, <1>6

LEMMA CancelNone == Typed => Cancelling({}) = jobs
BY DEF Typed, Cancelling

\* A step after which nothing is pending, and no cancelled job's tile is lost.
LEMMA TilesLost ==
  ASSUME IInv, Typed', NEW set,
         UNCHANGED <<version, completed, worker, cache, buffer>>,
         control' # "running",
         \A j \in Jobs : jobs'[j] # Freed =>
            /\ jobs[j] # Freed
            /\ KeepsJob(jobs'[j], jobs[j])
            /\ j \in set => jobs'[j].cancelled,
         \A j \in Jobs : j \in Referenced' => jobs'[j] # Freed,
         \A j \in Jobs : TilesIn(pending', j) <= TilesIn(pending, j)
                         /\ TilesIn(tasks', j) <= TilesIn(tasks, j),
         \A j \in Jobs : j \notin set =>
            /\ TilesIn(pending', j) = TilesIn(pending, j)
            /\ TilesIn(tasks', j) = TilesIn(tasks, j)
            /\ \A t \in Tiles : /\ Has(pending, j, t) => Has(pending', j, t)
                                /\ Has(tasks, j, t) => Has(tasks', j, t)
  PROVE  /\ WorkersHoldJobs' /\ TilesAccounted' /\ TilesRendered'
         /\ ReturnedOnce' /\ CacheIsSound'
<1>1. WorkersHoldJobs'
  BY DEF IInv, WorkersHoldJobs
<1>2. ASSUME NEW j \in Jobs PROVE KeepsTiles(j)
  <2>1. /\ TilesIn(pending, j) \in Nat /\ TilesIn(buffer, j) \in Nat
        /\ TilesIn(tasks, j) \in Nat /\ Cardinality(InHands(j)) \in Nat
    BY UnfinishedCounts DEF IInv
  <2>2. TilesIn(pending', j) \in Nat /\ TilesIn(tasks', j) \in Nat
    <3>1. pending' \in Seq(PendingTile) /\ tasks' \in Seq(TaskItem)
      BY DEF Typed, TaskItem
    <3>2. QED
      BY <3>1, CountFacts
  <2>3. InHands(j)' = InHands(j) /\ buffer' = buffer
    BY DEF InHands
  <2>4. /\ Unfinished(j)' <= Unfinished(j)
        /\ j \notin set => Unfinished(j)' = Unfinished(j)
    BY <2>1, <2>2, <2>3, UnfinishedSum
  <2>5. j \notin set => \A t \in Tiles : Open(j, t) => Open(j, t)'
    BY DEF Open
  <2>6. QED
    BY <2>4, <2>5 DEF KeepsTiles
<1>3. TilesAccounted' /\ TilesRendered'
  BY <1>2, TilesKept DEF IInv
<1>4. ReturnedOnce'
  <2>1. \A i \in DOMAIN completed : completed[i] \in Jobs /\ completed[i] \in Referenced'
    BY ItemOf DEF IInv, Typed, Referenced
  <2>2. \A w \in Worker : worker[w].at = "publish" =>
           worker[w].job \in Jobs /\ worker[w].job \in Referenced'
    <3>1. \A w \in Worker : worker[w].job \in Referenced'
      BY DEF Referenced
    <3>2. QED
      BY <3>1, WorkersJob
  <2>3. \A j \in Jobs : j \in Referenced' =>
           jobs'[j].tilesRemaining = jobs[j].tilesRemaining
    BY DEF KeepsJob
  <2>4. QED
    BY <2>1, <2>2, <2>3, ReturnsKept DEF IInv
<1>5. CacheIsSound'
  BY CacheKept DEF IInv
<1>6. QED
  BY <1>1, <1>3, <1>4, <1>5

LEMMA StopSchedulerHolds ==
  ASSUME IInv, StopScheduler
  PROVE  IInv'
<1> USE DEF commandVars, passVars, renderVars
<1> DEFINE set == JobsIn(pending) \cup {activeJob[c] : c \in Chunks}
<1>1. /\ control = "running" /\ scheduler = "off" /\ control' = "schedulerStopped"
      /\ pending' = <<>> /\ activeJob' = [c \in Chunks |-> NoJob]
      /\ playRequested' = FALSE /\ gateOpen' = TRUE /\ scanCursor' = 0
      /\ dirty' = TRUE
      /\ UNCHANGED <<version, tasks, completed, stopRequested, worker, failures,
                     scheduler, viewport, playhead, work, retained, checkedChunks,
                     cache, buffer>>
      /\ JobsAre(Cancelling(set))
  BY DEF StopScheduler
<1>2. \A j \in Jobs : j \in set => j \in Referenced
  BY DEF Referenced
<1>3. \A j : TilesIn(<<>>, j) = 0 /\ JobsIn(<<>>) = {} /\ \A t : ~Has(<<>>, j, t)
  BY EmptyCount
<1>4. \A j \in Jobs : j \in Referenced' => j \in Referenced
  <2>1. Referenced' \subseteq Referenced \cup {NoJob}
    BY <1>1, <1>3 DEF Referenced
  <2>2. QED
    BY <2>1, JobsAreNumbers
<1>5. \A j \in Jobs : j \notin set => TilesIn(pending, j) = 0
                                      /\ \A t : ~Has(pending, j, t)
  <2>1. pending \in Seq(PendingTile)
    BY DEF IInv, Typed
  <2>2. \A j \in Jobs : j \notin JobsIn(pending) =>
           TilesIn(pending, j) = 0 /\ \A t : ~Has(pending, j, t)
    BY <2>1, CountFacts DEF Has, JobsIn
  <2>3. QED
    BY <2>2
<1>6. \A j \in Jobs : TilesIn(pending, j) \in Nat /\ TilesIn(tasks, j) \in Nat
  BY UnfinishedCounts DEF IInv
<1> HIDE DEF set
<1>7. /\ jobs' \in [Jobs -> RenderJob \cup {Freed}]
      /\ \A j \in Jobs : j \notin Referenced' => jobs'[j] = Freed
      /\ \A j \in Jobs : j \in Referenced' =>
            /\ jobs[j] # Freed /\ jobs'[j] # Freed
            /\ KeepsJob(jobs'[j], jobs[j])
            /\ IF j \in set THEN jobs'[j].cancelled ELSE jobs'[j] = jobs[j]
      /\ NothingDangles'
  BY <1>1, <1>2, <1>4, JobsDropped
<1>8. Typed'
  <2>1. /\ <<>> \in Seq(PendingTile) /\ Len(<<>>) = 0 /\ Len(pending) \in Nat
        /\ Len(buffer) \in Nat
    BY DEF IInv, Typed
  <2>2. Len(pending') + Len(buffer') <= MaxPendingTiles
    BY <1>1, <2>1, SchedulingAssumption DEF IInv, Typed
  <2>3. 0 \in Chunks
    BY ChunkFacts DEF Chunks
  <2>4. QED
    BY <1>1, <1>7, <2>1, <2>2, <2>3 DEF IInv, Typed
<1>9. Phases'
  BY <1>1 DEF IInv, Phases
<1>10. /\ UNCHANGED <<version, completed, worker, cache, buffer>>
       /\ control' # "running"
       /\ tasks' = tasks /\ pending' = <<>>
  BY <1>1
<1>11. QED
  <2>1. \A j \in Jobs : TilesIn(pending', j) <= TilesIn(pending, j)
                        /\ TilesIn(tasks', j) <= TilesIn(tasks, j)
    BY <1>3, <1>6, <1>10
  <2>2. \A j \in Jobs : j \notin set =>
            /\ TilesIn(pending', j) = TilesIn(pending, j)
            /\ TilesIn(tasks', j) = TilesIn(tasks, j)
            /\ \A t \in Tiles : /\ Has(pending, j, t) => Has(pending', j, t)
                                /\ Has(tasks, j, t) => Has(tasks', j, t)
    BY <1>3, <1>5, <1>10
  <2>3. /\ WorkersHoldJobs' /\ TilesAccounted' /\ TilesRendered'
        /\ ReturnedOnce' /\ CacheIsSound'
    BY <1>7, <1>8, <1>10, <2>1, <2>2, TilesLost
  <2>4. QED
    BY <1>7, <1>8, <1>9, <2>3 DEF IInv

LEMMA StopExecutorHolds ==
  ASSUME IInv, StopExecutor
  PROVE  IInv'
<1> USE DEF commandVars, passVars, renderVars
<1> DEFINE set == JobsIn(tasks)
<1>1. /\ control = "schedulerStopped" /\ control' = "joining"
      /\ stopRequested' = TRUE /\ tasks' = <<>>
      /\ UNCHANGED <<version, completed, worker, failures, scheduler, commandVars,
                     passVars, renderVars>>
      /\ JobsAre(Cancelling(set))
  BY DEF StopExecutor
<1>2. \A j \in Jobs : j \in set => j \in Referenced
  BY DEF Referenced
<1>3. \A j : TilesIn(<<>>, j) = 0 /\ JobsIn(<<>>) = {} /\ \A t : ~Has(<<>>, j, t)
  BY EmptyCount
<1>4. \A j \in Jobs : j \in Referenced' => j \in Referenced
  BY <1>1, <1>3 DEF Referenced
<1>5. \A j \in Jobs : j \notin set => TilesIn(tasks, j) = 0
                                      /\ \A t : ~Has(tasks, j, t)
  <2>1. tasks \in Seq(TaskItem)
    BY DEF IInv, Typed, TaskItem
  <2>2. QED
    BY <2>1, CountFacts DEF Has, JobsIn
<1>6. \A j \in Jobs : TilesIn(pending, j) \in Nat /\ TilesIn(tasks, j) \in Nat
  BY UnfinishedCounts DEF IInv
<1> HIDE DEF set
<1>7. /\ jobs' \in [Jobs -> RenderJob \cup {Freed}]
      /\ \A j \in Jobs : j \notin Referenced' => jobs'[j] = Freed
      /\ \A j \in Jobs : j \in Referenced' =>
            /\ jobs[j] # Freed /\ jobs'[j] # Freed
            /\ KeepsJob(jobs'[j], jobs[j])
            /\ IF j \in set THEN jobs'[j].cancelled ELSE jobs'[j] = jobs[j]
      /\ NothingDangles'
  BY <1>1, <1>2, <1>4, JobsDropped
<1>8. Typed'
  <2>1. <<>> \in Seq([job : Jobs, tile : Tiles]) /\ Len(<<>>) <= TaskCapacity
    BY PipelineAssumption
  <2>2. QED
    BY <1>1, <1>7, <2>1 DEF IInv, Typed
<1>9. Phases'
  BY <1>1 DEF IInv, Phases
<1>10. /\ UNCHANGED <<version, completed, worker, cache, buffer>>
       /\ control' # "running"
       /\ tasks' = <<>> /\ pending' = pending
  BY <1>1
<1>11. QED
  <2>1. \A j \in Jobs : TilesIn(pending', j) <= TilesIn(pending, j)
                        /\ TilesIn(tasks', j) <= TilesIn(tasks, j)
    BY <1>3, <1>6, <1>10
  <2>2. \A j \in Jobs : j \notin set =>
            /\ TilesIn(pending', j) = TilesIn(pending, j)
            /\ TilesIn(tasks', j) = TilesIn(tasks, j)
            /\ \A t \in Tiles : /\ Has(pending, j, t) => Has(pending', j, t)
                                /\ Has(tasks, j, t) => Has(tasks', j, t)
    BY <1>3, <1>5, <1>10
  <2>3. /\ WorkersHoldJobs' /\ TilesAccounted' /\ TilesRendered'
        /\ ReturnedOnce' /\ CacheIsSound'
    BY <1>7, <1>8, <1>10, <2>1, <2>2, TilesLost
  <2>4. QED
    BY <1>7, <1>8, <1>9, <2>3 DEF IInv

\* No thread holds a job when the engine starts.
LEMMA StartHolds ==
  ASSUME IInv, Start
  PROVE  IInv'
<1> USE DEF commandVars, passVars, renderVars
<1>1. /\ control = "stopped" /\ control' = "running" /\ stopRequested' = FALSE
      /\ worker' = [w \in Worker |-> Idle] /\ completed' = <<>>
      /\ scheduler' = "commands" /\ playRequested' = FALSE /\ gateOpen' = TRUE
      /\ dirty' = TRUE
      /\ UNCHANGED <<version, tasks, failures, viewport, playhead, work, retained,
                     scanCursor, checkedChunks, renderVars>>
      /\ JobsAre(jobs)
  BY DEF Start
<1>2. /\ scheduler = "off" /\ pending = <<>> /\ buffer = <<>> /\ tasks = <<>>
      /\ \A c \in Chunks : activeJob[c] = NoJob
  BY <1>1 DEF IInv, Phases
<1>3. \A j \in Jobs : j \notin Referenced'
  <2>1. JobsIn(<<>>) = {} /\ {completed'[i] : i \in DOMAIN completed'} = {}
    BY <1>1, EmptyCount
  <2>2. \A w \in Worker : worker'[w].job = NoJob
    BY <1>1 DEF Idle
  <2>3. Referenced' \subseteq {NoJob}
    BY <1>1, <1>2, <2>1, <2>2 DEF Referenced
  <2>4. QED
    BY <2>3, JobsAreNumbers
<1>4. jobs' \in [Jobs -> RenderJob \cup {Freed}] /\ \A j \in Jobs : jobs'[j] = Freed
  BY <1>1, <1>3, JobsAreFacts
<1>5. worker' \in [Worker -> HeldBy] /\ \A w \in Worker : worker'[w] = Idle
  BY <1>1, SchedulingAssumption DEF Idle, HeldBy, Tiles
<1>6. Typed'
  <2>1. completed' \in Seq(Jobs)
    BY <1>1
  <2>2. QED
    BY <1>1, <1>4, <1>5, <2>1 DEF IInv, Typed, HeldBy
<1>7. WorkersHoldJobs'
  BY <1>5 DEF WorkersHoldJobs, Idle
<1>8. Phases'
  BY <1>1, <1>2 DEF Phases
<1>9. NothingDangles'
  BY <1>3 DEF NothingDangles
<1>10. TilesAccounted' /\ TilesRendered'
  BY <1>4 DEF TilesAccounted, TilesRendered, JobRendered, FreeJobs
<1>11. ReturnedOnce'
  BY <1>1, <1>5 DEF ReturnedOnce, Idle
<1>12. CacheIsSound'
  BY <1>1, CacheKept DEF IInv
<1>13. QED
  BY <1>6, <1>7, <1>8, <1>9, <1>10, <1>11, <1>12 DEF IInv

\* A job with no tile left to finish is in no queue and no worker's hands.
LEMMA FinishedJob ==
  ASSUME IInv, NEW j, Unfinished(j) = 0
  PROVE  /\ \A t : ~Open(j, t)
         /\ \A w \in Worker : worker[w].job = j => worker[w].at = "publish"
<1>1. /\ TilesIn(pending, j) = 0 /\ TilesIn(buffer, j) = 0 /\ TilesIn(tasks, j) = 0
      /\ \A w \in Worker : w \notin InHands(j)
  <2> DEFINE a == TilesIn(pending, j)
             b == TilesIn(buffer, j)
             c == TilesIn(tasks, j)
             d == Cardinality(InHands(j))
  <2>1. a \in Nat /\ b \in Nat /\ c \in Nat /\ d \in Nat /\ a + b + c + d = 0
    BY UnfinishedCounts DEF IInv
  <2> HIDE DEF a, b, c, d
  <2>2. a = 0 /\ b = 0 /\ c = 0 /\ d = 0
    BY <2>1
  <2> USE DEF a, b, c, d
  <2>3. \A w \in InHands(j) : FALSE
    <3>1. \A w \in InHands(j) : Cardinality(InHands(j)) >= 1
      BY UnfinishedCounts DEF IInv
    <3>2. QED
      BY <2>2, <3>1
  <2>4. QED
    BY <2>2, <2>3
<1>2. \A w \in Worker : worker[w].job = j => worker[w].at = "publish"
  BY <1>1 DEF InHands
<1>3. /\ \A i \in DOMAIN pending : pending[i].job # j
      /\ \A i \in DOMAIN buffer : buffer[i].job # j
      /\ \A i \in DOMAIN tasks : tasks[i].job # j
  <2>1. /\ pending \in Seq(PendingTile) /\ buffer \in Seq(PendingTile)
        /\ tasks \in Seq(TaskItem)
    BY DEF IInv, Typed, TaskItem
  <2>2. QED
    BY <1>1, <2>1, CountFacts
<1>4. \A t : ~Open(j, t)
  BY <1>2, <1>3 DEF Open, Has
<1>5. QED
  BY <1>2, <1>4

\* A returned job is finished, for whoever holds it.
LEMMA ReturnedJob ==
  ASSUME IInv, NEW i \in DOMAIN completed
  PROVE  /\ completed[i] \in Jobs /\ completed[i] \in Referenced
         /\ jobs[completed[i]] \in RenderJob /\ jobs[completed[i]] # Freed
         /\ Unfinished(completed[i]) = 0
<1> DEFINE job == completed[i]
<1>1. job \in Jobs /\ job \in Referenced
  BY ItemOf DEF IInv, Typed, Referenced
<1>2. jobs[job] \in RenderJob /\ jobs[job] # Freed
  BY <1>1, ReferencedJob, JobsAreNumbers DEF IInv
<1>3. jobs[job].tilesRemaining = 0
  BY DEF IInv, ReturnedOnce
<1> HIDE DEF job
<1>4. Unfinished(job) \in Nat
  BY UnfinishedCounts DEF IInv
<1>5. Unfinished(job) <= jobs[job].tilesRemaining
  BY <1>1, <1>2 DEF IInv, TilesAccounted, FreeJobs
<1>6. QED
  BY <1>1, <1>2, <1>3, <1>4, <1>5 DEF job

\* A usable job was rendered completely for the version it was created for.
LEMMA CollectJobHolds ==
  ASSUME IInv, CollectJob
  PROVE  IInv'
<1> USE DEF commandVars, passVars
<1> DEFINE job == Head(completed)
           done == jobs[job]
           usable == isActive(job) /\ ~done.cancelled
<1>1. /\ scheduler = "collect" /\ completed # <<>>
      /\ cache' = IF usable THEN stored(done.chunk, done.version, done.samples)
                  ELSE cache
      /\ activeJob' = finishedSlot(job)
      /\ completed' = Tail(completed)
      /\ UNCHANGED <<control, version, tasks, stopRequested, worker, failures,
                     scheduler, commandVars, passVars, pending, buffer>>
      /\ JobsAre(jobs)
  BY DEF CollectJob
<1>2. completed \in Seq(Jobs) /\ control = "running"
  BY <1>1 DEF IInv, Typed, Phases
<1>3. /\ 1 \in DOMAIN completed /\ job = completed[1]
      /\ completed' \in Seq(Jobs)
      /\ \A i \in DOMAIN completed' : i + 1 \in DOMAIN completed
                                      /\ completed'[i] = completed[i + 1]
  <2>1. 1 \in DOMAIN completed /\ job = completed[1]
    BY <1>1, <1>2, EmptySeq, LenProperties
  <2>2. /\ completed' \in Seq(Jobs) /\ Len(completed') = Len(completed) - 1
        /\ \A i \in 1 .. Len(completed') : completed'[i] = completed[i + 1]
    BY <1>1, <1>2, HeadTailProperties
  <2>3. /\ Len(completed) \in Nat /\ DOMAIN completed = 1 .. Len(completed)
        /\ DOMAIN completed' = 1 .. Len(completed')
    BY <1>2, <2>2, LenProperties
  <2>4. QED
    BY <2>1, <2>2, <2>3
<1>4. /\ job \in Jobs /\ done \in RenderJob /\ done # Freed
      /\ Unfinished(job) = 0
  BY <1>3, ReturnedJob
<1>5. \A j \in Jobs : j \in Referenced' => j \in Referenced
  <2>1. \A i \in DOMAIN completed' :
           completed'[i] \in {completed[k] : k \in DOMAIN completed}
    BY <1>3
  <2>2. \A c \in Chunks : activeJob'[c] \in {activeJob[c], NoJob}
    BY <1>1 DEF finishedSlot
  <2>3. Referenced' \subseteq Referenced \cup {NoJob}
    BY <1>1, <2>1, <2>2 DEF Referenced
  <2>4. QED
    BY <2>3, JobsAreNumbers
<1>6. activeJob' \in [Chunks -> Jobs \cup {NoJob}]
  BY <1>1 DEF finishedSlot, IInv, Typed
<1>7. /\ done.chunk \in Chunks /\ done.version \in Nat /\ done.samples \in Samples
  BY <1>4 DEF RenderJob
<1>8. usable => done.samples = Tiles \X {done.version}
  <2> SUFFICES ASSUME usable PROVE done.samples = Tiles \X {done.version}
    OBVIOUS
  <2>1. \A t : ~Open(job, t)
    BY <1>4, FinishedJob
  <2>2. /\ done.samples \subseteq Tiles \X {done.version}
        /\ \A t \in Tiles : <<t, done.version>> \in done.samples \/ Open(job, t)
    BY <1>4 DEF IInv, TilesRendered, JobRendered, FreeJobs
  <2>3. QED
    BY <2>1, <2>2
<1> HIDE DEF job, done, usable
<1>9. /\ \A c \in Chunks : \/ cache'[c] = cache[c]
                           \/ /\ cache'[c].version = version[c]
                              /\ cache'[c].samples = Tiles \X {version[c]}
      /\ cache' \in [Chunks -> [version : Nat, samples : Samples]]
  <2>1. cache \in [Chunks -> [version : Nat, samples : Samples]]
    BY DEF IInv, Typed
  <2>2. CASE usable /\ done.version = version[done.chunk]
    <3>1. cache' = [cache EXCEPT ![done.chunk] = [version |-> done.version,
                                                  samples |-> done.samples]]
      BY <1>1, <2>2 DEF stored
    <3>2. done.samples = Tiles \X {version[done.chunk]}
      BY <1>8, <2>2
    <3>3. QED
      BY <1>7, <2>1, <2>2, <3>1, <3>2
  <2>3. CASE ~(usable /\ done.version = version[done.chunk])
    BY <1>1, <2>1, <2>3 DEF stored
  <2>4. QED
    BY <2>2, <2>3
<1>10. /\ jobs' \in [Jobs -> RenderJob \cup {Freed}]
       /\ \A j \in Jobs : j \notin Referenced' => jobs'[j] = Freed
       /\ \A j \in Jobs : j \in Referenced' =>
             jobs[j] # Freed /\ jobs'[j] # Freed /\ jobs'[j] = jobs[j]
       /\ NothingDangles'
  <2>1. JobsAre(Cancelling({}))
    BY <1>1, CancelNone DEF IInv
  <2>2. QED
    BY <1>5, <2>1, JobsDropped
<1>11. Typed'
  BY <1>1, <1>3, <1>6, <1>9, <1>10 DEF IInv, Typed
<1>12. WorkersHoldJobs'
  BY <1>1 DEF IInv, WorkersHoldJobs
<1>13. Phases'
  BY <1>1, <1>2 DEF IInv, Phases
<1>14. ASSUME NEW j \in Jobs PROVE KeepsTiles(j)
  <2>1. Unfinished(j)' = Unfinished(j)
    BY <1>1 DEF Unfinished
  <2>2. \A t : Open(j, t)' <=> Open(j, t)
    BY <1>1 DEF Open
  <2>3. Unfinished(j) \in Nat
    BY UnfinishedCounts DEF IInv
  <2>4. jobs'[j] # Freed => jobs[j] # Freed /\ jobs'[j] = jobs[j]
    BY <1>10
  <2>5. QED
    BY <2>1, <2>2, <2>3, <2>4 DEF KeepsTiles, KeepsJob
<1>15. TilesAccounted' /\ TilesRendered'
  <2>1. control' = control
    BY <1>1
  <2>2. QED
    BY <1>11, <1>14, <2>1, TilesKept DEF IInv
<1>16. ReturnedOnce'
  <2>1. \A w \in Worker : worker'[w] = worker[w] /\ worker[w].job \in Referenced'
    BY <1>1 DEF Referenced
  <2>2. \A i \in DOMAIN completed' : completed'[i] \in Referenced'
    BY DEF Referenced
  <2>3. /\ \A i \in DOMAIN completed :
              /\ jobs[completed[i]].tilesRemaining = 0
              /\ \A k \in DOMAIN completed \ {i} : completed[k] # completed[i]
        /\ \A w \in Worker : worker[w].at = "publish" =>
              /\ jobs[worker[w].job].tilesRemaining = 0
              /\ \A i \in DOMAIN completed : completed[i] # worker[w].job
              /\ \A u \in Worker \ {w} :
                    worker[u].at = "publish" => worker[u].job # worker[w].job
    BY DEF IInv, ReturnedOnce
  <2>4. \A i \in DOMAIN completed' : completed'[i] \in Jobs
    BY <1>3, ItemOf
  <2>5. \A i \in DOMAIN completed' : jobs'[completed'[i]].tilesRemaining = 0
    BY <1>3, <1>10, <2>2, <2>3, <2>4
  <2>6. \A i \in DOMAIN completed' : \A k \in DOMAIN completed' \ {i} :
           completed'[k] # completed'[i]
    <3> SUFFICES ASSUME NEW i \in DOMAIN completed', NEW k \in DOMAIN completed' \ {i}
                 PROVE  completed'[k] # completed'[i]
      OBVIOUS
    <3>1. /\ i + 1 \in DOMAIN completed /\ completed'[i] = completed[i + 1]
          /\ k + 1 \in DOMAIN completed /\ completed'[k] = completed[k + 1]
      BY <1>3
    <3>2. i \in Nat /\ k \in Nat /\ k + 1 # i + 1
      BY <1>3, LenProperties
    <3>3. QED
      BY <2>3, <3>1, <3>2
  <2>7. \A w \in Worker : worker[w].at = "publish" => worker[w].job \in Jobs
    BY WorkersJob
  <2>8. \A w \in Worker : worker[w].at = "publish" =>
           /\ jobs'[worker[w].job].tilesRemaining = 0
           /\ \A i \in DOMAIN completed' : completed'[i] # worker[w].job
    BY <1>3, <1>10, <2>1, <2>3, <2>7
  <2>9. QED
    BY <2>1, <2>3, <2>5, <2>6, <2>8 DEF ReturnedOnce
<1>17. CacheIsSound'
  <2>1. \A c \in Chunks : version[c] \in Nat /\ cache[c].version <= version[c]
    BY DEF IInv, CacheIsSound, Typed
  <2>2. version' = version
    BY <1>1
  <2>3. \A c \in Chunks : cache'[c].version <= version'[c]
    BY <1>9, <2>1, <2>2
  <2>4. \A c \in Chunks : cacheIsCurrent(c) => cache[c].samples = Tiles \X {version[c]}
    BY DEF IInv, CacheIsSound, CacheIsComplete
  <2>5. CacheIsComplete'
    BY <1>9, <2>2, <2>4 DEF CacheIsComplete, cacheIsCurrent
  <2>6. QED
    BY <2>3, <2>5 DEF CacheIsSound
<1>18. QED
  BY <1>10, <1>11, <1>12, <1>13, <1>15, <1>16, <1>17 DEF IInv

\* The scheduler finishes the tile of a cancelled job.
LEMMA RetireTileHolds ==
  ASSUME IInv, RetireTile
  PROVE  IInv'
<1> USE DEF commandVars, passVars
<1> DEFINE item == Head(buffer)
           job == item.job
<1>1. /\ scheduler = "retire" /\ buffer # <<>> /\ jobs[job].cancelled
      /\ activeJob' = IF jobs[job].tilesRemaining = 1 THEN finishedSlot(job)
                      ELSE activeJob
      /\ buffer' = Tail(buffer)
      /\ UNCHANGED <<control, version, tasks, completed, stopRequested, worker,
                     failures, scheduler, commandVars, passVars, cache, pending>>
      /\ JobsAre([jobs EXCEPT ![job].tilesRemaining = @ - 1])
  BY DEF RetireTile, IsCancelled
<1>2. /\ buffer \in Seq(PendingTile) /\ pending \in Seq(PendingTile)
      /\ control = "running" /\ Len(pending) + Len(buffer) <= MaxPendingTiles
  BY <1>1 DEF IInv, Phases, Typed
<1>3. /\ item \in PendingTile /\ buffer' \in Seq(PendingTile)
      /\ Len(buffer') = Len(buffer) - 1 /\ Len(pending) \in Nat /\ Len(buffer) \in Nat
  BY <1>1, <1>2
<1> HIDE DEF item
<1>4. ASSUME NEW j
      PROVE  /\ TilesIn(buffer, j) = TilesIn(buffer', j) + (IF job = j THEN 1 ELSE 0)
             /\ \A t : Has(buffer, j, t)
                        <=> Has(buffer', j, t) \/ (job = j /\ item.tile = t)
             /\ JobsIn(buffer) = JobsIn(buffer') \cup {job}
  <2>1. /\ buffer' = Tail(buffer) /\ buffer # <<>>
        /\ buffer \in Seq(PendingTile) /\ job = item.job
    BY <1>1, <1>2
  <2> HIDE DEF job
  <2>2. QED
    BY <2>1, TailCount DEF item
<1>5. /\ job \in Jobs /\ job \in Referenced /\ jobs[job] \in RenderJob
      /\ jobs[job] # Freed
  <2>1. job \in Jobs /\ job \in Referenced
    BY <1>3, <1>4 DEF PendingTile, Referenced
  <2>2. QED
    BY <2>1, ReferencedJob, JobsAreNumbers DEF IInv
<1> HIDE DEF job
<1>6. \A j \in Jobs : j \in Referenced' => j \in Referenced
  <2>1. \A c \in Chunks : activeJob'[c] \in {activeJob[c], NoJob}
    BY <1>1 DEF finishedSlot
  <2>2. Referenced' \subseteq Referenced \cup {NoJob}
    BY <1>1, <1>4, <2>1 DEF Referenced
  <2>3. QED
    BY <2>2, JobsAreNumbers
<1>7. \A j \in Jobs : Unfinished(j) = Unfinished(j)' + (IF j = job THEN 1 ELSE 0)
                      /\ Unfinished(j)' \in Nat
  <2> SUFFICES ASSUME NEW j \in Jobs
               PROVE  /\ Unfinished(j) = Unfinished(j)' + (IF j = job THEN 1 ELSE 0)
                      /\ Unfinished(j)' \in Nat
    OBVIOUS
  <2>1. /\ TilesIn(pending, j) \in Nat /\ TilesIn(buffer, j) \in Nat
        /\ TilesIn(buffer', j) \in Nat
        /\ TilesIn(tasks, j) \in Nat /\ Cardinality(InHands(j)) \in Nat
    BY <1>3, UnfinishedCounts, CountFacts DEF IInv
  <2>2. InHands(j)' = InHands(j) /\ tasks' = tasks /\ pending' = pending
    BY <1>1 DEF InHands
  <2>3. QED
    BY <1>4, <2>1, <2>2, UnfinishedSum
<1>8. jobs[job].tilesRemaining >= 1
  <2>1. Unfinished(job) >= 1 /\ Unfinished(job) \in Nat
    BY <1>5, <1>7
  <2>2. Unfinished(job) <= jobs[job].tilesRemaining
    BY <1>5 DEF IInv, TilesAccounted, FreeJobs
  <2>3. jobs[job].tilesRemaining \in Nat
    BY <1>5 DEF RenderJob
  <2>4. QED
    BY <2>1, <2>2, <2>3
<1>9. \A j \in Jobs, t \in Tiles : Open(j, t) /\ ~jobs[j].cancelled => Open(j, t)'
  BY <1>1, <1>4 DEF Open
<1>10. control' = control
  BY <1>1
<1>11. /\ jobs' \in [Jobs -> RenderJob \cup {Freed}]
       /\ \A j \in Jobs : j \in Referenced' =>
             jobs'[j].tilesRemaining
               = jobs[j].tilesRemaining - (IF j = job THEN 1 ELSE 0)
       /\ NothingDangles' /\ TilesAccounted' /\ TilesRendered'
  BY <1>1, <1>5, <1>6, <1>7, <1>8, <1>9, <1>10, CountDown
<1>12. Typed'
  <2>1. activeJob' \in [Chunks -> Jobs \cup {NoJob}]
    BY <1>1 DEF finishedSlot, IInv, Typed
  <2>2. Len(pending') + Len(buffer') <= MaxPendingTiles
    <3>1. pending' = pending
      BY <1>1
    <3>2. QED
      BY <1>2, <1>3, <3>1, SchedulingAssumption
  <2>3. jobs' \in [Jobs -> RenderJob \cup {Freed}]
    BY <1>11
  <2>4. QED
    BY <1>1, <1>3, <2>1, <2>2, <2>3 DEF IInv, Typed
<1>13. WorkersHoldJobs'
  BY <1>1 DEF IInv, WorkersHoldJobs
<1>14. Phases'
  BY <1>1, <1>2 DEF IInv, Phases
<1>15. ReturnedOnce'
  <2>1. ASSUME NEW j \in Jobs, j \in Referenced', jobs[j].tilesRemaining = 0
        PROVE  jobs'[j].tilesRemaining = 0
    <3>1. j # job
      BY <1>8, <2>1
    <3>2. QED
      BY <1>11, <2>1, <3>1
  <2>2. \A i \in DOMAIN completed :
           /\ completed[i] \in Jobs /\ completed[i] \in Referenced'
           /\ jobs[completed[i]].tilesRemaining = 0
    <3>1. \A i \in DOMAIN completed : completed[i] \in Referenced'
      BY <1>1 DEF Referenced
    <3>2. QED
      BY <3>1, ReturnedJob DEF IInv, ReturnedOnce
  <2>3. \A w \in Worker : worker[w].at = "publish" =>
           /\ worker[w].job \in Jobs /\ worker[w].job \in Referenced'
           /\ jobs[worker[w].job].tilesRemaining = 0
    <3>1. \A w \in Worker : worker[w].job \in Referenced'
      BY <1>1 DEF Referenced
    <3>2. QED
      BY <3>1, WorkersJob DEF IInv, ReturnedOnce
  <2>4. completed' = completed /\ worker' = worker
    BY <1>1
  <2>5. /\ \A i \in DOMAIN completed : jobs'[completed[i]].tilesRemaining = 0
        /\ \A w \in Worker : worker[w].at = "publish" =>
              jobs'[worker[w].job].tilesRemaining = 0
    BY <2>1, <2>2, <2>3
  <2>6. QED
    BY <2>4, <2>5 DEF IInv, ReturnedOnce
<1>16. CacheIsSound'
  BY <1>1, CacheKept DEF IInv
<1>17. QED
  BY <1>11, <1>12, <1>13, <1>14, <1>15, <1>16 DEF IInv

-----------------------------------------------------------------------------
(***************************************************************************)
(* The scheduler creates jobs.                                             *)
(***************************************************************************)
LEMMA NoTileOfOthers ==
  ASSUME IInv, NEW j, j \notin Referenced
  PROVE  /\ TilesIn(pending, j) = 0 /\ TilesIn(buffer, j) = 0
         /\ TilesIn(tasks, j) = 0 /\ Cardinality(InHands(j)) = 0
<1>1. /\ j \notin JobsIn(pending) /\ j \notin JobsIn(buffer) /\ j \notin JobsIn(tasks)
      /\ \A w \in Worker : worker[w].job # j
  BY DEF Referenced
<1>2. /\ pending \in Seq(PendingTile) /\ buffer \in Seq(PendingTile)
      /\ tasks \in Seq(TaskItem)
  BY DEF IInv, Typed, TaskItem
<1>3. /\ TilesIn(pending, j) = 0 /\ TilesIn(buffer, j) = 0 /\ TilesIn(tasks, j) = 0
  BY <1>1, <1>2, CountFacts
<1>4. Cardinality(InHands(j)) = 0
  <2>1. InHands(j) = {}
    BY <1>1 DEF InHands
  <2>2. QED
    BY <2>1, FS_EmptySet
<1>5. QED
  BY <1>3, <1>4

\* A step that creates a job, or leaves it.
LEMMA CreateJobHolds ==
  ASSUME IInv, NEW chunk \in Chunks, HasRoom(queueLimit(chunk)), CreateJob(chunk),
         buffer = <<>>, control = "running",
         UNCHANGED <<control, version, tasks, completed, worker, cache, buffer>>
  PROVE  /\ jobs' \in [Jobs -> RenderJob \cup {Freed}]
         /\ activeJob' \in [Chunks -> Jobs \cup {NoJob}]
         /\ pending' \in Seq(PendingTile)
         /\ Len(pending') + Len(buffer') <= MaxPendingTiles
         /\ Typed' => /\ WorkersHoldJobs' /\ NothingDangles' /\ TilesAccounted'
                      /\ TilesRendered' /\ ReturnedOnce' /\ CacheIsSound'
<1> PICK job : job = NewJob
  OBVIOUS
<1> DEFINE old == {activeJob[chunk]}
           tiles == TilesOf(job, chunk)
           record == [chunk |-> chunk, version |-> version[chunk],
                      tilesRemaining |-> TilesPerChunk, cancelled |-> FALSE,
                      samples |-> {}]
           written == [Cancelling(old) EXCEPT ![job] = record]
<1>1. /\ FreeJobs # {}
      /\ activeJob' = [activeJob EXCEPT ![chunk] = job]
      /\ pending' = pending \o tiles
      /\ JobsAre(written)
  BY DEF CreateJob
<1>2. job \in Jobs /\ jobs[job] = Freed /\ job \notin Referenced
  BY <1>1, NewJobIsFree DEF IInv, NothingDangles
<1>3. /\ pending \in Seq(PendingTile) /\ tiles \in Seq(PendingTile)
      /\ Len(tiles) = TilesPerChunk
  <2>1. pending \in Seq(PendingTile) /\ playhead \in Boundaries
    BY DEF IInv, Typed
  <2>2. QED
    BY <1>2, <2>1, TilesOfCount
<1>4. ASSUME NEW j
      PROVE  /\ TilesIn(pending', j)
                  = TilesIn(pending, j) + (IF j = job THEN TilesPerChunk ELSE 0)
             /\ \A t : Has(pending, j, t) => Has(pending', j, t)
             /\ j = job => \A t \in Tiles : Has(pending', j, t)
             /\ JobsIn(pending') = JobsIn(pending) \cup {job}
  <2>1. pending' = pending \o tiles
    BY <1>1
  <2>2. pending \in Seq(PendingTile) /\ tiles \in Seq(PendingTile)
    BY <1>3
  <2> HIDE DEF tiles
  <2>3. /\ TilesIn(pending \o tiles, j) = TilesIn(pending, j) + TilesIn(tiles, j)
        /\ \A u : Has(pending \o tiles, j, u) <=> Has(pending, j, u) \/ Has(tiles, j, u)
        /\ JobsIn(pending \o tiles) = JobsIn(pending) \cup JobsIn(tiles)
    BY <2>2, ConcatCount
  <2>4. playhead \in Boundaries
    BY DEF IInv, Typed
  <2>5. /\ TilesIn(tiles, j) = IF j = job THEN TilesPerChunk ELSE 0
        /\ j = job => \A t \in Tiles : Has(tiles, j, t)
        /\ JobsIn(tiles) = {job}
    BY <1>2, <2>4, TilesOfCount DEF tiles
  <2>6. QED
    BY <2>1, <2>3, <2>5
<1>5. activeJob' \in [Chunks -> Jobs \cup {NoJob}]
  BY <1>1, <1>2 DEF IInv, Typed
<1>6. pending' \in Seq(PendingTile) /\ Len(pending') + Len(buffer') <= MaxPendingTiles
  <2>1. pending' \in Seq(PendingTile) /\ Len(pending') = Len(pending) + TilesPerChunk
        /\ Len(pending) \in Nat
    <3>1. pending' = pending \o tiles
      BY <1>1
    <3>2. pending \in Seq(PendingTile) /\ tiles \in Seq(PendingTile)
      BY <1>3
    <3>3. Len(tiles) = TilesPerChunk
      BY <1>3
    <3> HIDE DEF tiles
    <3>4. /\ pending' \in Seq(PendingTile) /\ Len(pending) \in Nat
          /\ Len(pending') = Len(pending) + Len(tiles)
      BY <3>1, <3>2
    <3>5. QED
      BY <3>3, <3>4
  <2>2. queueLimit(chunk) <= MaxPendingTiles /\ queueLimit(chunk) \in Int
    BY SchedulingAssumption DEF queueLimit, pendingTileLimit
  <2>3. Len(pending) + TilesPerChunk <= queueLimit(chunk)
    BY DEF HasRoom
  <2>4. buffer' = <<>> /\ Len(<<>>) = 0
    OBVIOUS
  <2>5. QED
    BY <2>1, <2>2, <2>3, <2>4, SchedulingAssumption
<1>7. \A j \in Jobs : j \in Referenced' => j = job \/ j \in Referenced
  <2>1. \A c \in Chunks : activeJob'[c] \in {activeJob[c], job}
    BY <1>1 DEF IInv, Typed
  <2>2. Referenced' \subseteq Referenced \cup {job}
    BY <1>4, <2>1 DEF Referenced
  <2>3. QED
    BY <2>2
<1>8. /\ record \in RenderJob
      /\ record.tilesRemaining = TilesPerChunk
      /\ record.samples = {} /\ record.version = version[chunk]
      /\ record # Freed
  <2>1. version[chunk] \in Nat /\ {} \in Samples
    BY DEF IInv, Typed, Samples
  <2>2. record \in RenderJob
    BY <2>1, SchedulingAssumption DEF RenderJob
  <2>3. QED
    BY <2>2, FreedIsNoJob
<1>9. written[job] = record
      /\ \A j \in Jobs \ {job} : written[j] = Cancelling(old)[j]
  BY <1>2 DEF Cancelling
<1>10. \A j \in Jobs : j \in old => jobs[j] # Freed
  BY DEF IInv, NothingDangles, Referenced
<1> HIDE DEF old, tiles, record, written
<1>11. \A j \in Jobs \ {job} :
          /\ written[j] \in RenderJob \cup {Freed}
          /\ jobs[j] # Freed => written[j] # Freed /\ KeepsJob(written[j], jobs[j])
  BY <1>9, <1>10, CancelFacts DEF IInv
<1>12. /\ jobs' \in [Jobs -> RenderJob \cup {Freed}]
       /\ \A j \in Jobs : jobs'[j] = IF j \in Referenced' THEN written[j] ELSE Freed
  <2>1. \A j \in Jobs : j \in Referenced' => written[j] \in RenderJob \cup {Freed}
    BY <1>8, <1>9, <1>11
  <2>2. QED
    BY <1>1, <2>1, JobsAreFacts
<1>13. \A j \in Jobs \ {job} : j \in Referenced' =>
          /\ jobs[j] # Freed /\ jobs'[j] # Freed /\ KeepsJob(jobs'[j], jobs[j])
  BY <1>7, <1>11, <1>12 DEF IInv, NothingDangles
<1>14. job \in Referenced' => jobs'[job] = record
  BY <1>2, <1>9, <1>12
<1>15. \A j \in Jobs : jobs'[j] # Freed => j \in Referenced'
  BY <1>12
<1>16. /\ \A j \in Jobs \ {job} : Unfinished(j)' = Unfinished(j)
       /\ \A j : Unfinished(j) \in Nat
  <2>1. \A j : Unfinished(j) \in Nat /\ TilesIn(pending, j) \in Nat
    BY UnfinishedCounts DEF IInv
  <2>2. ASSUME NEW j \in Jobs \ {job} PROVE Unfinished(j)' = Unfinished(j)
    <3>1. TilesIn(pending', j) = TilesIn(pending, j)
      BY <1>4, <2>1
    <3>2. InHands(j)' = InHands(j) /\ tasks' = tasks /\ buffer' = buffer
      BY DEF InHands
    <3>3. QED
      BY <3>1, <3>2, UnfinishedSum
  <2>3. QED
    BY <2>1, <2>2
<1>17. Unfinished(job)' = TilesPerChunk
  <2>1. /\ TilesIn(pending, job) = 0 /\ TilesIn(buffer, job) = 0
        /\ TilesIn(tasks, job) = 0 /\ Cardinality(InHands(job)) = 0
    BY <1>2, NoTileOfOthers
  <2>2. TilesIn(pending', job) = TilesPerChunk
    BY <1>4, <2>1, SchedulingAssumption
  <2>3. InHands(job)' = InHands(job) /\ tasks' = tasks /\ buffer' = buffer
    BY DEF InHands
  <2>4. Unfinished(job)' = TilesPerChunk + 0 + 0 + 0
    BY <2>1, <2>2, <2>3, UnfinishedSum
  <2>5. QED
    BY <2>4, SchedulingAssumption
<1>18. \A j, t : Open(j, t) => Open(j, t)'
  BY <1>4 DEF Open
<1>19. NothingDangles'
  BY <1>8, <1>13, <1>14 DEF NothingDangles
<1>20. ASSUME NEW j \in Jobs, jobs'[j] # Freed
       PROVE  JobAccounted(j)' /\ JobRendered(j)'
  <2>1. j \in Referenced'
    BY <1>15, <1>20
  <2>2. CASE j = job
    <3>1. jobs'[j] = record
      BY <1>14, <2>1, <2>2
    <3>2. JobAccounted(j)'
      <4>1. Unfinished(j)' = TilesPerChunk
        BY <1>17, <2>2
      <4>2. jobs'[j].tilesRemaining = TilesPerChunk
        BY <1>8, <3>1
      <4>3. QED
        BY <4>1, <4>2, SchedulingAssumption DEF JobAccounted
    <3>3. \A t \in Tiles : Has(pending', j, t)
      BY <1>4, <2>2
    <3>4. \A t \in Tiles : Open(j, t)'
      BY <3>3 DEF Open
    <3>5. JobRendered(j)'
      BY <1>8, <3>1, <3>4 DEF JobRendered
    <3>6. QED
      BY <3>2, <3>5
  <2>3. CASE j # job
    <3>1. jobs[j] # Freed /\ KeepsJob(jobs'[j], jobs[j])
      BY <1>13, <2>1, <2>3
    <3>2. Unfinished(j)' = Unfinished(j) /\ Unfinished(j) \in Nat
      BY <1>16, <2>3
    <3>3. KeepsTiles(j)
      BY <1>18, <3>1, <3>2 DEF KeepsTiles
    <3>4. QED
      BY <1>20, <3>2, <3>3, JobKept DEF IInv
  <2>4. QED
    BY <2>2, <2>3
<1>21. TilesAccounted' /\ TilesRendered'
  BY <1>20 DEF TilesAccounted, TilesRendered, JobAccounted, FreeJobs
<1>22. WorkersHoldJobs'
  BY DEF IInv, WorkersHoldJobs
<1>23. ReturnedOnce'
  <2>1. \A j \in Jobs : j \in Referenced /\ j \in Referenced' =>
           jobs'[j].tilesRemaining = jobs[j].tilesRemaining
    BY <1>2, <1>13 DEF KeepsJob
  <2>2. \A i \in DOMAIN completed :
           /\ completed[i] \in Jobs /\ completed[i] \in Referenced
           /\ completed[i] \in Referenced'
    BY ReturnedJob DEF Referenced
  <2>3. \A w \in Worker : worker[w].at = "publish" =>
           /\ worker[w].job \in Jobs /\ worker[w].job \in Referenced
           /\ worker[w].job \in Referenced'
    <3>1. \A w \in Worker : worker[w].job \in Referenced'
      BY DEF Referenced
    <3>2. QED
      BY <3>1, WorkersJob
  <2>4. QED
    BY <2>1, <2>2, <2>3, ReturnsKept DEF IInv
<1>24. CacheIsSound'
  BY CacheKept DEF IInv
<1>25. QED
  BY <1>5, <1>6, <1>12, <1>19, <1>21, <1>22, <1>23, <1>24

LEMMA ScheduledHolds ==
  ASSUME IInv, NEW chunk \in Chunks, NoNewJob \/ CreateIfRoom(chunk),
         buffer = <<>>, control = "running",
         UNCHANGED <<control, version, tasks, completed, worker, cache, buffer>>
  PROVE  /\ jobs' \in [Jobs -> RenderJob \cup {Freed}]
         /\ activeJob' \in [Chunks -> Jobs \cup {NoJob}]
         /\ pending' \in Seq(PendingTile)
         /\ Len(pending') + Len(buffer') <= MaxPendingTiles
         /\ Typed' => /\ WorkersHoldJobs' /\ NothingDangles' /\ TilesAccounted'
                      /\ TilesRendered' /\ ReturnedOnce' /\ CacheIsSound'
<1>1. CASE HasRoom(queueLimit(chunk)) /\ CreateJob(chunk)
  BY <1>1, CreateJobHolds
<1>2. CASE NoNewJob
  <2>1. UNCHANGED <<jobs, activeJob, pending>>
    BY <1>2 DEF NoNewJob
  <2>2. /\ jobs' \in [Jobs -> RenderJob \cup {Freed}]
        /\ activeJob' \in [Chunks -> Jobs \cup {NoJob}]
        /\ pending' \in Seq(PendingTile)
        /\ Len(pending') + Len(buffer') <= MaxPendingTiles
    BY <2>1 DEF IInv, Typed
  <2>3. UNCHANGED jobVars
    BY <2>1 DEF jobVars, renderVars
  <2>4. QED
    BY <2>2, <2>3, QuietStep
<1>3. QED
  BY <1>1, <1>2 DEF CreateIfRoom

LEMMA ScheduleChunkHolds ==
  ASSUME IInv, ScheduleChunk
  PROVE  IInv'
<1> USE DEF commandVars
<1> DEFINE chunk == Head(work)
<1>1. /\ scheduler = "schedule" /\ work # <<>> /\ work' = Tail(work)
      /\ UNCHANGED <<control, version, tasks, completed, stopRequested, worker,
                     failures, scheduler, commandVars, playhead, gateOpen,
                     retained, scanCursor, checkedChunks, cache, buffer>>
      /\ NoNewJob \/ CreateIfRoom(chunk)
  BY DEF ScheduleChunk
<1>2. /\ chunk \in Chunks /\ work' \in Seq(Chunks)
      /\ buffer = <<>> /\ control = "running"
  BY <1>1 DEF IInv, Typed, Phases
<1> HIDE DEF chunk
<1>3. /\ jobs' \in [Jobs -> RenderJob \cup {Freed}]
      /\ activeJob' \in [Chunks -> Jobs \cup {NoJob}]
      /\ pending' \in Seq(PendingTile)
      /\ Len(pending') + Len(buffer') <= MaxPendingTiles
      /\ Typed' => /\ WorkersHoldJobs' /\ NothingDangles' /\ TilesAccounted'
                   /\ TilesRendered' /\ ReturnedOnce' /\ CacheIsSound'
  BY <1>1, <1>2, ScheduledHolds
<1>4. Typed'
  BY <1>1, <1>2, <1>3 DEF IInv, Typed
<1>5. Phases'
  BY <1>1, <1>2 DEF IInv, Phases
<1>6. QED
  BY <1>3, <1>4, <1>5 DEF IInv

LEMMA EndMakeRoomHolds ==
  ASSUME IInv, EndMakeRoom
  PROVE  IInv'
<1> USE DEF commandVars
<1> DEFINE chunk == Head(work)
<1>1. /\ scheduler = "retire" /\ buffer = <<>> /\ scheduler' = "schedule"
      /\ work' = Tail(work) /\ retained' = 0
      /\ UNCHANGED <<control, version, tasks, completed, stopRequested, worker,
                     failures, commandVars, playhead, gateOpen, scanCursor,
                     checkedChunks, cache, buffer>>
      /\ CreateIfRoom(chunk)
  BY DEF EndMakeRoom
<1>2. /\ chunk \in Chunks /\ work' \in Seq(Chunks) /\ control = "running"
  <2>1. work # <<>> /\ work \in Seq(Chunks) /\ control = "running"
    BY <1>1 DEF IInv, Typed, Phases
  <2>2. QED
    BY <1>1, <2>1
<1> HIDE DEF chunk
<1>3. /\ jobs' \in [Jobs -> RenderJob \cup {Freed}]
      /\ activeJob' \in [Chunks -> Jobs \cup {NoJob}]
      /\ pending' \in Seq(PendingTile)
      /\ Len(pending') + Len(buffer') <= MaxPendingTiles
      /\ Typed' => /\ WorkersHoldJobs' /\ NothingDangles' /\ TilesAccounted'
                   /\ TilesRendered' /\ ReturnedOnce' /\ CacheIsSound'
  BY <1>1, <1>2, ScheduledHolds
<1>4. Typed'
  <2>1. 0 \in 0 .. MaxPendingTiles
    BY SchedulingAssumption
  <2>2. QED
    BY <1>1, <1>2, <1>3, <2>1 DEF IInv, Typed
<1>5. Phases'
  BY <1>1, <1>2 DEF IInv, Phases
<1>6. QED
  BY <1>3, <1>4, <1>5 DEF IInv

LEMMA ScanChunkHolds ==
  ASSUME IInv, ScanChunk
  PROVE  IInv'
<1> USE DEF commandVars
<1>1. /\ scheduler = "scan" /\ checkedChunks < Smaller(ChunkCount,
                                   MaxPendingTiles \div TilesPerChunk)
      /\ scanCursor' = (scanCursor + 1) % ChunkCount
      /\ checkedChunks' = checkedChunks + 1
      /\ UNCHANGED <<control, version, tasks, completed, stopRequested, worker,
                     failures, scheduler, commandVars, playhead, gateOpen, work,
                     retained, cache, buffer>>
      /\ NoNewJob \/ CreateIfRoom(scanCursor)
  BY DEF ScanChunk, MayScan
<1>2. scanCursor \in Chunks /\ buffer = <<>> /\ control = "running"
  BY <1>1 DEF IInv, Typed, Phases
<1>3. /\ jobs' \in [Jobs -> RenderJob \cup {Freed}]
      /\ activeJob' \in [Chunks -> Jobs \cup {NoJob}]
      /\ pending' \in Seq(PendingTile)
      /\ Len(pending') + Len(buffer') <= MaxPendingTiles
      /\ Typed' => /\ WorkersHoldJobs' /\ NothingDangles' /\ TilesAccounted'
                   /\ TilesRendered' /\ ReturnedOnce' /\ CacheIsSound'
  BY <1>1, <1>2, ScheduledHolds
<1>4. scanCursor' \in Chunks
  <2>1. ChunkCount \in Nat \ {0} /\ scanCursor + 1 \in Nat
    BY <1>2, ChunkFacts DEF Chunks
  <2>2. (scanCursor + 1) % ChunkCount \in 0 .. ChunkCount - 1
    BY <2>1, DivisionFacts
  <2>3. QED
    BY <1>1, <2>2 DEF Chunks
<1>5. checkedChunks' \in 0 .. ChunkCount
  <2>1. ChunkCount \in Nat /\ checkedChunks \in 0 .. ChunkCount
    BY ChunkFacts DEF IInv, Typed
  <2>2. MaxPendingTiles \div TilesPerChunk \in Nat
    BY SchedulingAssumption, DivisionFacts
  <2>3. checkedChunks < ChunkCount
    BY <1>1, <2>1, <2>2 DEF Smaller
  <2>4. QED
    BY <1>1, <2>1, <2>3
<1>6. Typed'
  BY <1>1, <1>3, <1>4, <1>5 DEF IInv, Typed
<1>7. Phases'
  BY <1>1, <1>2 DEF IInv, Phases
<1>8. QED
  BY <1>3, <1>6, <1>7 DEF IInv

-----------------------------------------------------------------------------
(***************************************************************************)
(* The invariant, and what follows from it.                                *)
(***************************************************************************)
LEMMA StutterHolds == IInv /\ UNCHANGED vars => IInv'
<1> SUFFICES ASSUME IInv, UNCHANGED vars PROVE IInv'
  OBVIOUS
<1> USE DEF vars, sharedVars, commandVars, passVars, renderVars
<1>1. UNCHANGED jobVars /\ control' = control
  BY DEF jobVars
<1>2. Typed'
  BY DEF IInv, Typed
<1>3. Phases'
  BY DEF IInv, Phases
<1>4. QED
  BY <1>1, <1>2, <1>3, QuietStep DEF IInv

LEMMA StepHolds == IInv /\ [Next]_vars => IInv'
<1> SUFFICES ASSUME IInv, Next PROVE IInv'
  BY StutterHolds
<1>1. CASE Control
  BY <1>1, StartHolds, StopSchedulerHolds, StopExecutorHolds, PhaseChangesHold
     DEF Control
<1>2. CASE Command \/ LeaveLoop \/ EndCommands
  BY <1>2, CommandsHold
<1>3. CASE SchedulerLoop
  <2>1. CASE EndEdit
    BY <2>1, CommandsHold
  <2>2. CASE \/ EndCollect \/ EndSchedule \/ EndScan \/ EndDispatch
             \/ \E lead \in Leads : UpdateBackgroundAdmission(lead)
    BY <2>2, PhaseChangesHold
  <2>3. CASE \E position \in Playheads : BeginPass(position)
    BY <2>3, BeginPassHolds
  <2>4. CASE InvalidateChunk \/ CollectJob
    BY <2>4, InvalidateChunkHolds, CollectJobHolds
  <2>5. CASE ScheduleChunk \/ EndMakeRoom \/ ScanChunk
    BY <2>5, ScheduleChunkHolds, EndMakeRoomHolds, ScanChunkHolds
  <2>6. CASE BeginMakeRoom \/ Evict \/ KeepTile \/ RetireTile \/ DispatchTile
    BY <2>6, BeginMakeRoomHolds, EvictHolds, KeepTileHolds, RetireTileHolds,
       DispatchTileHolds
  <2>7. QED
    BY <1>3, <2>1, <2>2, <2>3, <2>4, <2>5, <2>6 DEF SchedulerLoop
<1>4. CASE \E w \in Worker : WorkerStep(w)
  BY <1>4, WorkerHolds
<1>5. QED
  BY <1>1, <1>2, <1>3, <1>4 DEF Next

LEMMA Invariant == Spec => []IInv
BY InitHolds, StepHolds, PTL DEF Spec

\* Every variable stays in its type, the pending queue within the storage that
\* Scheduler's constructor reserves for it and the task queue within its
\* capacity, whatever is edited, shown or played.
THEOREM PipelineTypes == Spec => []Typed
<1>1. IInv => Typed
  BY DEF IInv
<1>2. QED
  BY Invariant, <1>1, PTL

\* No tile of a job is lost or finished twice by the dispatcher, the workers or
\* makeRoomForUrgentChunk(): the count fetch_sub decrements in finishRenderTile
\* is the number of tiles still somewhere, for any number of workers.
THEOREM TilesAreAccounted == Spec => []TilesAccounted
<1>1. IInv => TilesAccounted
  BY DEF IInv
<1>2. QED
  BY Invariant, <1>1, PTL

\* A job enters the completed queue once, when no worker has any of its tiles:
\* collectFinishedJobs() may read its samples without a lock.
THEOREM JobsReturnOnce == Spec => []CompletedOnce
<1>1. IInv => CompletedOnce
  <2> SUFFICES ASSUME IInv, NEW i \in DOMAIN completed
               PROVE  /\ Unfinished(completed[i]) = 0
                      /\ \A k \in DOMAIN completed \ {i} : completed[k] # completed[i]
                      /\ \A w \in Worker : worker[w].job # completed[i]
    BY DEF CompletedOnce
  <2>1. Unfinished(completed[i]) = 0
    BY ReturnedJob
  <2>2. \A k \in DOMAIN completed \ {i} : completed[k] # completed[i]
    BY DEF IInv, ReturnedOnce
  <2>3. ASSUME NEW w \in Worker PROVE worker[w].job # completed[i]
    <3>1. worker[w].job = completed[i] => worker[w].at = "publish"
      BY <2>1, FinishedJob
    <3>2. QED
      BY <3>1 DEF IInv, ReturnedOnce
  <2>4. QED
    BY <2>1, <2>2, <2>3
<1>2. QED
  BY Invariant, <1>1, PTL

\* What RenderCache holds as the current version of a chunk was rendered tile by
\* tile for that version, whatever was edited, evicted or failed meanwhile.
THEOREM CacheHoldsWholeChunks == Spec => []CacheIsComplete
<1>1. IInv => CacheIsComplete
  BY DEF IInv, CacheIsSound
<1>2. QED
  BY Invariant, <1>1, PTL

=============================================================================
