------------------------- MODULE EventStreamProofs -------------------------
(***************************************************************************)
(* What a watch page may rely on, for every number of batches, of requests *)
(* and faults, of pages and of processing streams.  The streams change     *)
(* nothing of the queue, so what SubtitleQueueProofs shows of it holds here.*)
(***************************************************************************)
EXTENDS EventStream, SubtitleQueueProofs

-----------------------------------------------------------------------------
(* The inductive invariant *)

(* Batch i is completed, or it was and somebody took it back. *)
Settled(i) == batch[i] = "completed" \/ i \in taken

(* Lines that are processed come from an attempt that was counted; the     *)
(* worker completes a video, or sees it complete, only when every batch is *)
(* or was completed.                                                       *)
WorkIsCounted ==
  /\ \A i \in Batch : lines[i] = "processed" => attempt[i] > 0
  /\ wpc = "reload" => attempt[wbatch] > 0
  /\ wpc = "commit" /\ wall => \A i \in Batch \ {wbatch} : Settled(i)
  /\ video = "completed" => \A i \in Batch : Settled(i)

(* Only a page that has read its batches has events to handle, and the end *)
(* of the video is not among them before it has subscribed or its stream   *)
(* has ended; a stream that read a completed progress read it of batches   *)
(* that were.                                                              *)
Served == {"snapshot", "listening", "ended"}
InboxFollowsPage ==
  \A v \in Viewers :
    /\ page[v] \notin Served => inbox[v] = <<>>
    /\ page[v] = "snapshot" => \A k \in DOMAIN inbox[v] : inbox[v][k] # Completed
    /\ page[v] = "progress" /\ seen[v] => \A i \in Batch : Settled(i)

(* The page has or gets the latest lines of batch i, and nothing older of  *)
(* it comes after them.                                                    *)
About(e, i) == e.event = "subtitle_batch" /\ e.batch = i
Latest(v, i) ==
  /\ shown[v][i] = attempt[i] \/ OnItsWay(v, i)
  /\ \A k \in DOMAIN inbox[v] : About(inbox[v][k], i) =>
       \E l \in DOMAIN inbox[v] : k <= l /\ inbox[v][l] = BatchEvent(i)

UpToDate ==
  \A v \in Viewers : page[v] \in {"snapshot", "listening"} =>
    \A i \in Batch : batch[i] = "completed" =>
      Latest(v, i) \/ BeingPublished(i) \/ i \in missed[v]

(* Before the end of the video arrives, so does every batch that stayed    *)
(* completed; and while the page listens none of those can be published    *)
(* again behind the end.                                                   *)
Arrives(v, k, i) ==
  \/ shown[v][i] > 0
  \/ i \in missed[v]
  \/ i \in taken
  \/ \E l \in DOMAIN inbox[v] : l < k /\ About(inbox[v][l], i)

EndComesLast ==
  \A v \in Viewers : page[v] \in {"listening", "ended"} =>
    \A k \in DOMAIN inbox[v] : inbox[v][k] = Completed =>
      \A i \in Batch :
        /\ Arrives(v, k, i)
        /\ page[v] = "listening" => i \in taken \/ (batch[i] = "completed" /\ ~BeingPublished(i))

StreamInv ==
  /\ IInv
  /\ StreamTypeOK
  /\ WorkIsCounted
  /\ InboxFollowsPage
  /\ UpToDate
  /\ EndComesLast
  /\ ClosedPageIsWhole

-----------------------------------------------------------------------------
(* The streams leave the queue alone *)

(* A step of the whole system is a step of the queue, or none for it. *)
LEMMA StreamStepIsQueueStep ==
  ASSUME [StreamNext]_<<vars, stream>>
  PROVE  [Next]_vars
<1>1. CASE UNCHANGED <<vars, stream>>
  BY <1>1
<1>2. CASE QueueStep
  BY <1>2 DEF QueueStep, Next
<1>3. CASE RestartStreams
  BY <1>3 DEF RestartStreams, Next
<1>4. ASSUME NEW v \in Viewers, OpenPage(v) \/ ViewerStep(v) \/ Reconnect(v)
      PROVE  UNCHANGED vars
  BY <1>4 DEF OpenPage, ViewerStep, ReadProgress, ReadBatches, Subscribe, HandleEvent, Reconnect
<1>5. ASSUME NEW o \in Observers, OpenProcessingStream(o) \/ ObserverStep(o)
      PROVE  UNCHANGED vars
  BY <1>5 DEF OpenProcessingStream, ObserverStep, PollProgress, GiveUp, ObserverSubscribes
<1> QED
  BY <1>1, <1>2, <1>3, <1>4, <1>5 DEF StreamNext

(* The streams add readers to the queue and nothing else: every behaviour  *)
(* of both is a behaviour of the queue, with the fairness of its tasks.    *)
THEOREM StreamRunsQueue == StreamSpec => FairSpec
<1>1. StreamInit => Init
  BY DEF StreamInit
<1>2. [StreamNext]_<<vars, stream>> => [Next]_vars
  BY StreamStepIsQueueStep
<1> QED
  BY <1>1, <1>2, PTL DEF StreamSpec, StreamFairness, FairSpec, Spec

LEMMA QueueInvariantStep ==
  ASSUME StreamInv, [StreamNext]_<<vars, stream>>
  PROVE  IInv'
BY StreamStepIsQueueStep, TypeStep, InvariantStep DEF StreamInv

-----------------------------------------------------------------------------
(* What the worker's moves mean to those who listen *)

(* Batches become completed, lines processed and the video completed in    *)
(* one place only, and a batch that has been completed is published in the *)
(* next step of the worker or not at all.                                  *)
Commits == Moved({"commit"}, "reload")
Publishes == Moved({"reload"}, "select")

LEMMA WorkerMoves ==
  ASSUME IInv, QueueStep
  PROVE  /\ \A i \in Batch : batch'[i] = "completed" => batch[i] = "completed" \/ (i = wbatch /\ Commits)
         /\ \A i \in Batch : lines'[i] = "processed" => lines[i] = "processed" \/ (i = wbatch /\ Commits)
         /\ Commits => wbatch' = wbatch /\ batch[wbatch] = "pending" /\ batch'[wbatch] = "completed"
         /\ wpc = "reload" => wpc' \in {"reload", "select", "fail"} /\ wbatch' = wbatch
         /\ wpc' = "reload" => wpc = "reload" \/ Commits
         /\ video' = "completed" => video = "completed" \/ (Commits /\ wall)
         /\ wpc' = "commit" /\ wall' =>
              \/ wpc = "commit" /\ wall /\ wbatch' = wbatch
              \/ \A i \in Batch \ {wbatch'} : batch[i] = "completed"
<1> USE DEF IInv, TypeOK, Commits, Moved
<1>1. CASE WorkerStep
  <2>1. CASE PrepareMissing \/ CloseWorker \/ PublishBatchProgress \/ TranslateBatch
             \/ TranslateFails \/ ReloadBatch \/ ReloadFails \/ MarkFailedAborted
             \/ ReportProgress \/ DrainWorker
    BY <2>1 DEF PrepareMissing, CloseWorker, PublishBatchProgress, TranslateBatch,
       TranslateFails, ReloadBatch, ReloadFails, MarkFailedAborted, ReportProgress,
       DrainWorker, Moves, Step, rows
  <2>2. CASE PrepareSource \/ SourceUnavailable \/ NextBatch \/ PickBatch \/ LoadBatch
             \/ MarkProcessing \/ CommitAborted
    BY <2>2 DEF PrepareSource, SourceUnavailable, PreparationFailed, NextBatch, PickBatch,
       LoadBatch, MarkProcessing, CommitAborted, Step, rows
  <2>3. CASE PrepareKnown \/ SourceReady
    BY <2>3 DEF PrepareKnown, SourceReady, CreateMissing, Step
  <2>4. CASE SaveBatch
    BY <2>4 DEF SaveBatch, OthersCompleted, Step, rows
  <2>5. CASE CommitBatch
    BY <2>5 DEF CommitBatch, CompletesVideo, Step, TransactionIsolated, InTransaction
  <2>6. CASE MarkFailed
    BY <2>6 DEF MarkFailed, Step, rows
  <2> QED
    BY <1>1, <2>1, <2>2, <2>3, <2>4, <2>5, <2>6 DEF WorkerStep
<1>2. CASE ClassifyTopics
  BY <1>2 DEF ClassifyTopics, rows
<1>3. ASSUME NEW c \in Callers, CallBegins(c)
      PROVE  UNCHANGED <<batch, lines, worker>> /\ (video' = "completed" => video = "completed")
  BY <1>3 DEF CallBegins, ProcessVideo, PlaybackPosition, RetryBatch, DeleteVideo, rows, worker
<1>4. ASSUME NEW c \in Callers, CallStep(c) \/ DeleteCancelled(c) \/ RetryAborted(c)
      PROVE  /\ \A i \in Batch : batch'[i] = "completed" => batch[i] = "completed"
             /\ \A i \in Batch : lines'[i] = "processed" => lines[i] = "processed"
             /\ UNCHANGED <<wbatch, wall>>
             /\ wpc' = wpc \/ (wpc = "off" /\ wpc' = "prepare")
             /\ video' = "completed" => video = "completed"
  <2>1. CASE ImportKnown(c) \/ ImportUnfinished(c) \/ RetryVideo(c) \/ RetryRefused(c)
             \/ DeleteCancelled(c) \/ RetryAborted(c)
    BY <2>1 DEF ImportKnown, ImportUnfinished, RetryVideo, RetryRefused, DeleteCancelled, RetryAborted,
       rows, worker
  <2>2. CASE ImportEnqueue(c) \/ PrioritizeBatch(c) \/ RetryQueue(c)
    BY <2>2 DEF ImportEnqueue, PrioritizeBatch, RetryQueue, EnqueueVideo, rows, worker
  <2>3. CASE ReopenVideo(c)
    BY <2>3 DEF ReopenVideo, worker
  <2>4. CASE RetryMark(c)
    BY <2>4 DEF RetryMark, worker
  <2>5. CASE DeleteCascade(c)
    BY <2>5 DEF DeleteCascade
  <2> QED
    BY <1>4, <2>1, <2>2, <2>3, <2>4, <2>5 DEF CallStep
<1> QED
  BY <1>1, <1>2, <1>3, <1>4 DEF QueueStep, worker

LEMMA PairIsConcatenation ==
  ASSUME NEW x, NEW y
  PROVE  <<x>> \o <<y>> = <<x, y>>
<1> DEFINE S == {x, y}
           s == <<x>> \o <<y>>
           t == <<x, y>>
<1>1. <<x>> \in Seq(S) /\ <<y>> \in Seq(S) /\ t \in Seq(S)
  OBVIOUS
<1>2. Len(<<x>>) = 1 /\ Len(<<y>>) = 1 /\ Len(t) = 2 /\ <<x>>[1] = x /\ <<y>>[1] = y /\ t[1] = x /\ t[2] = y
  OBVIOUS
<1> HIDE DEF S, t
<1>3. s \in Seq(S) /\ Len(s) = 2 /\ \A i \in 1 .. 2 : s[i] = IF i <= 1 THEN <<x>>[i] ELSE <<y>>[i - 1]
  BY <1>1, <1>2, ConcatProperties
<1> HIDE DEF s
<1>4. s[1] = x /\ s[2] = y
  BY <1>2, <1>3
<1>5. s = t
  BY <1>1, <1>2, <1>3, <1>4, SeqEqual
<1> QED
  BY <1>5 DEF s, t

(* What is published about a batch is its latest attempt, and nothing but  *)
(* the batch that was just read again.                                     *)
LEMMA PublishedFacts ==
  ASSUME StreamInv
  PROVE  /\ Published \in Seq(Events)
         /\ \A k \in DOMAIN Published : \A i :
              About(Published[k], i) => Publishes /\ i = wbatch /\ Published[k] = BatchEvent(wbatch)
         /\ Publishes => 1 \in DOMAIN Published /\ Published[1] = BatchEvent(wbatch)
         /\ \A k \in DOMAIN Published : Published[k] = Completed =>
              wpc = "report" /\ VideoFinished /\ Published = <<Completed>>
<1> USE DEF About, BatchEvent, Event, Completed, Failed, Publishes
<1>1. BatchReady <=> Publishes
  BY DEF StreamInv, IInv, WorkerReads, BatchReady, Moved
<1>2. Publishes => BatchEvent(wbatch) \in Events
  BY DEF StreamInv, StreamTypeOK, IInv, TypeOK, WorkIsCounted, Moved, Events
<1>3. CASE BatchReady /\ WorkRaised
  <2>1. ~WorkCompleted
    BY <1>3 DEF BatchReady, WorkCompleted, Moved
  <2>2. Published = <<BatchEvent(wbatch), Failed>>
    <3>1. Published = <<BatchEvent(wbatch)>> \o <<Failed>> \o <<>>
      BY <1>3, <2>1 DEF Published
    <3> HIDE DEF BatchEvent, Failed
    <3>2. BatchEvent(wbatch) \in Events /\ Failed \in Events
      BY <1>1, <1>2, <1>3 DEF Events
    <3>3. <<BatchEvent(wbatch)>> \o <<Failed>> = <<BatchEvent(wbatch), Failed>>
      BY PairIsConcatenation
    <3>4. <<BatchEvent(wbatch), Failed>> \o <<>> = <<BatchEvent(wbatch), Failed>>
      BY <3>2, ConcatEmptySeq
    <3> QED
      BY <3>1, <3>3, <3>4
  <2> QED
    BY <1>1, <1>2, <1>3, <2>2 DEF Events
<1>4. CASE BatchReady /\ ~WorkRaised
  <2>1. ~WorkCompleted
    BY <1>4 DEF BatchReady, WorkCompleted, Moved
  <2>2. Published = <<BatchEvent(wbatch)>>
    BY <1>4, <2>1 DEF Published
  <2> QED
    BY <1>1, <1>2, <1>4, <2>2 DEF Events
<1>5. CASE ~BatchReady /\ WorkRaised
  <2>1. ~WorkCompleted
    BY <1>5 DEF WorkRaised, WorkCompleted, Moved
  <2>2. Published = <<Failed>>
    BY <1>5, <2>1 DEF Published
  <2> QED
    BY <1>1, <1>5, <2>2 DEF Events
<1>6. CASE ~BatchReady /\ ~WorkRaised /\ WorkCompleted
  <2>1. Published = <<Completed>>
    BY <1>6 DEF Published
  <2> QED
    BY <1>1, <1>6, <2>1 DEF Events, WorkCompleted, Moved
<1>7. CASE ~BatchReady /\ ~WorkRaised /\ ~WorkCompleted
  <2>1. Published = <<>>
    BY <1>7 DEF Published
  <2> QED
    BY <1>1, <1>7, <2>1
<1> QED
  BY <1>3, <1>4, <1>5, <1>6, <1>7

(* What a step of the queue does to those who read. *)
LEMMA BroadcastReaches ==
  ASSUME StreamInv, QueueStep, NEW v \in Viewers
  PROVE  /\ page' = page /\ shown' = shown /\ seen' = seen
         /\ page[v] = "listening" => inbox'[v] = inbox[v] \o Published
         /\ page[v] # "listening" => inbox'[v] = inbox[v]
         /\ \A i : i \in missed[v] => i \in missed'[v] \/ (page[v] = "listening" /\ Publishes /\ i = wbatch)
         /\ page[v] \in Reading /\ Publishes => wbatch \in missed'[v]
         /\ page[v] \in Reading \cup {"listening"} /\ Moved({"reload"}, "fail") => wbatch \in missed'[v]
<1> DEFINE batches == {e.batch : e \in {f \in {Published[k] : k \in DOMAIN Published} : f.event = "subtitle_batch"}}
<1>1. /\ page' = page /\ shown' = shown /\ seen' = seen
      /\ inbox' = [w \in Viewers |-> IF page[w] = "listening" THEN inbox[w] \o Published ELSE inbox[w]]
      /\ missed' = [w \in Viewers |-> IF page[w] \in Reading THEN missed[w] \cup batches \cup Unpublished
                                      ELSE IF page[w] = "listening" THEN (missed[w] \ batches) \cup Unpublished
                                      ELSE missed[w]]
  BY DEF QueueStep, Broadcast
<1>2. \A i \in batches : Publishes /\ i = wbatch
  <2> TAKE i \in batches
  <2>1. PICK k \in DOMAIN Published : About(Published[k], i)
    BY DEF About
  <2> QED
    BY <2>1, PublishedFacts
<1>3. Publishes => wbatch \in batches
  BY PublishedFacts DEF BatchEvent, Event
<1>4. Moved({"reload"}, "fail") => wbatch \in Unpublished
  BY DEF Unpublished
<1> HIDE DEF batches
<1> QED
  BY <1>1, <1>2, <1>3, <1>4 DEF Reading

(* What it does to what is counted. *)
LEMMA BroadcastCounts ==
  ASSUME StreamInv, QueueStep
  PROVE  /\ \A i \in Batch : attempt'[i] = IF Commits /\ i = wbatch THEN attempt[i] + 1 ELSE attempt[i]
         /\ \A i \in taken : i \in taken'
         /\ \A i \in Batch : batch[i] = "completed" => batch'[i] = "completed" \/ i \in taken'
BY DEF StreamInv, StreamTypeOK, QueueStep, Broadcast, Commits

-----------------------------------------------------------------------------
(* The invariant is inductive *)

LEMMA InitStream == StreamInit => StreamInv
<1> SUFFICES ASSUME StreamInit PROVE StreamInv
  OBVIOUS
<1>1. IInv
  BY InitInvariant DEF StreamInit
<1>2. StreamTypeOK
  BY StreamAssumption DEF StreamInit, StreamTypeOK, PageState, Connected
<1>3. WorkIsCounted
  BY DEF StreamInit, Init, WorkIsCounted
<1>4. InboxFollowsPage /\ UpToDate /\ EndComesLast /\ ClosedPageIsWhole
  BY DEF StreamInit, InboxFollowsPage, Served, UpToDate, EndComesLast, ClosedPageIsWhole
<1> QED
  BY <1>1, <1>2, <1>3, <1>4 DEF StreamInv

(* Restarts and readers leave the rows and the counts alone. *)
LEMMA RestartLeaves ==
  ASSUME RestartStreams
  PROVE  UNCHANGED <<rows, wbatch, seen, shown, attempt, taken>> /\ wpc' = "off"
BY DEF RestartStreams, Restart, history

(* The steps of one page *)
PageStep(v) == OpenPage(v) \/ ViewerStep(v) \/ Reconnect(v)

LEMMA PageStepLeaves ==
  ASSUME NEW v \in Viewers, PageStep(v)
  PROVE  UNCHANGED <<vars, observers, history>>
BY DEF PageStep, OpenPage, ViewerStep, ReadProgress, ReadBatches, Subscribe, HandleEvent, Reconnect

LEMMA ObserverStepLeaves ==
  ASSUME NEW o \in Observers, OpenProcessingStream(o) \/ ObserverStep(o)
  PROVE  UNCHANGED <<vars, pages, history>>
BY DEF OpenProcessingStream, ObserverStep, PollProgress, GiveUp, ObserverSubscribes

(* Counts *)
LEMMA WorkIsCountedStep ==
  ASSUME StreamInv, [StreamNext]_<<vars, stream>>
  PROVE  WorkIsCounted'
<1> USE DEF WorkIsCounted, Settled
<1>1. CASE UNCHANGED <<vars, history>>
  BY <1>1 DEF StreamInv, vars, rows, worker, history
<1>2. CASE QueueStep
  <2>1. \A i \in Batch : Settled(i) => Settled(i)'
    BY <1>2, BroadcastCounts
  <2>2. attempt \in [Batch -> Nat] /\ wbatch \in Batch
    BY DEF StreamInv, StreamTypeOK, IInv, TypeOK
  <2>3. \A i \in Batch : lines'[i] = "processed" => attempt'[i] > 0
    BY <1>2, <2>2, WorkerMoves, BroadcastCounts DEF StreamInv
  <2>4. wpc' = "reload" => attempt'[wbatch'] > 0
    BY <1>2, <2>2, WorkerMoves, BroadcastCounts DEF StreamInv
  <2>5. wpc' = "commit" /\ wall' => \A i \in Batch \ {wbatch'} : Settled(i)'
    BY <1>2, <2>1, WorkerMoves DEF StreamInv
  <2>6. video' = "completed" => \A i \in Batch : Settled(i)'
    <3>1. CASE video = "completed"
      BY <2>1, <3>1 DEF StreamInv
    <3>2. CASE Commits /\ wall
      <4>1. \A i \in Batch \ {wbatch} : Settled(i)'
        BY <2>1, <3>2 DEF StreamInv, Commits, Moved
      <4>2. batch'[wbatch] = "completed"
        BY <1>2, <3>2, WorkerMoves DEF StreamInv
      <4> QED
        BY <4>1, <4>2
    <3> QED
      BY <1>2, <3>1, <3>2, WorkerMoves DEF StreamInv
  <2> QED
    BY <2>3, <2>4, <2>5, <2>6
<1>3. CASE RestartStreams
  BY <1>3, RestartLeaves DEF StreamInv, rows
<1>4. ASSUME NEW v \in Viewers, PageStep(v)
      PROVE  WorkIsCounted'
  BY <1>1, <1>4, PageStepLeaves
<1>5. ASSUME NEW o \in Observers, OpenProcessingStream(o) \/ ObserverStep(o)
      PROVE  WorkIsCounted'
  BY <1>1, <1>5, ObserverStepLeaves
<1>6. CASE UNCHANGED <<vars, stream>>
  BY <1>1, <1>6 DEF stream, history
<1> QED
  BY <1>2, <1>3, <1>4, <1>5, <1>6 DEF StreamNext, PageStep

(* The snapshot has an event for each completed batch and no others. *)
LEMMA SnapshotFacts ==
  ASSUME StreamInv, NEW v
  PROVE  /\ CompletedBatchEvents(v) \in Seq(Events)
         /\ \A k \in DOMAIN CompletedBatchEvents(v) :
              \E i \in Batch : batch[i] = "completed" /\ CompletedBatchEvents(v)[k] = BatchEvent(i)
         /\ \A i \in Batch : batch[i] = "completed" =>
              \E k \in DOMAIN CompletedBatchEvents(v) : CompletedBatchEvents(v)[k] = BatchEvent(i)
<1> DEFINE S == {i \in Batch : batch[i] = "completed"}
           done == InOrder(S)
           n == Cardinality(S)
<1>1. S \in SUBSET Nat /\ IsFiniteSet(S)
  <2>1. IsFiniteSet(Batch) /\ Batch \subseteq Nat
    BY NumBatchesAssumption, FS_Interval DEF Batch
  <2> QED
    BY <2>1, FS_Subset
<1>2. \A i \in S : BatchEvent(i) \in Events
  BY DEF StreamInv, StreamTypeOK, IInv, LinesFollowBatches, WorkIsCounted, BatchEvent, Event, Events
<1>3. n \in Nat /\ done \in [1 .. n -> S] /\ \A i \in S : \E k \in 1 .. n : done[k] = i
  <2> HIDE DEF S
  <2> QED
    BY <1>1, InOrderLists
<1>4. CompletedBatchEvents(v) = [k \in 1 .. n |-> BatchEvent(done[k])]
  BY <1>3 DEF CompletedBatchEvents
<1>5. \A i \in S : i \in Batch /\ batch[i] = "completed"
  OBVIOUS
<1>6. \A i \in Batch : batch[i] = "completed" => i \in S
  OBVIOUS
<1> HIDE DEF S, done, n
<1>7. \A k \in 1 .. n : done[k] \in S /\ BatchEvent(done[k]) \in Events
  BY <1>2, <1>3
<1>8. [k \in 1 .. n |-> BatchEvent(done[k])] \in Seq(Events)
  BY <1>3, <1>7
<1> QED
  BY <1>3, <1>4, <1>5, <1>6, <1>7, <1>8

(* What ReadBatches sends: the snapshot, and the end if it was read. *)
Sent(v) == CompletedBatchEvents(v) \o (IF seen[v] THEN <<Completed>> ELSE <<>>)

LEMMA SentFacts ==
  ASSUME StreamInv, NEW v \in Viewers
  PROVE  /\ Sent(v) \in Seq(Events)
         /\ \A k \in DOMAIN Sent(v) : \A i : About(Sent(v)[k], i) => Sent(v)[k] = BatchEvent(i)
         /\ \A i \in Batch : batch[i] = "completed" =>
              \E k \in DOMAIN Sent(v) : Sent(v)[k] = BatchEvent(i)
         /\ \A k \in DOMAIN Sent(v) : Sent(v)[k] = Completed => seen[v] /\ k = Len(Sent(v))
<1> DEFINE snap == CompletedBatchEvents(v)
           end == IF seen[v] THEN <<Completed>> ELSE <<>>
<1>1. snap \in Seq(Events)
  BY SnapshotFacts
<1>2. end \in Seq(Events) /\ Len(end) \in 0 .. 1 /\ (Len(end) = 1 <=> seen[v])
      /\ \A k \in 1 .. Len(end) : k = 1 /\ end[k] = Completed
  <2>1. CASE seen[v]
    <3>1. end = <<Completed>> /\ Completed \in Events
      BY <2>1 DEF Events
    <3> HIDE DEF end
    <3> QED
      BY <2>1, <3>1
  <2>2. CASE ~seen[v]
    BY <2>2
  <2> QED
    BY <2>1, <2>2
<1>3. \A k \in 1 .. Len(snap) : \E i \in Batch : snap[k] = BatchEvent(i)
  BY <1>1, SnapshotFacts
<1>4. \A i \in Batch : batch[i] = "completed" => \E k \in 1 .. Len(snap) : snap[k] = BatchEvent(i)
  BY <1>1, SnapshotFacts
<1>5. Sent(v) = snap \o end
  BY DEF Sent
<1> HIDE DEF snap, end
<1>6. /\ snap \o end \in Seq(Events)
      /\ Len(snap \o end) = Len(snap) + Len(end)
      /\ \A k \in 1 .. Len(snap) + Len(end) :
           (snap \o end)[k] = IF k <= Len(snap) THEN snap[k] ELSE end[k - Len(snap)]
  BY <1>1, <1>2, ConcatProperties
<1>7. Len(snap) \in Nat /\ DOMAIN (snap \o end) = 1 .. Len(snap) + Len(end)
  BY <1>1, <1>6
<1>8. \A k \in 1 .. Len(snap) : (snap \o end)[k] = snap[k]
  BY <1>2, <1>6, <1>7
<1>9. \A k \in 1 .. Len(snap) + Len(end) : k \notin 1 .. Len(snap) =>
        /\ (snap \o end)[k] = Completed
        /\ seen[v] /\ k = Len(snap) + Len(end)
  BY <1>2, <1>6, <1>7
<1>10. \A i, j : About(BatchEvent(i), j) => i = j
  BY DEF About, BatchEvent, Event
<1>11. \A i : ~About(Completed, i) /\ BatchEvent(i) # Completed
  BY DEF About, Completed, BatchEvent, Event
<1>12. \A k \in DOMAIN (snap \o end) : \A i : About((snap \o end)[k], i) => (snap \o end)[k] = BatchEvent(i)
  BY <1>3, <1>7, <1>8, <1>9, <1>10, <1>11
<1>13. \A i \in Batch : batch[i] = "completed" => \E k \in DOMAIN (snap \o end) : (snap \o end)[k] = BatchEvent(i)
  <2> TAKE i \in Batch
  <2> HAVE batch[i] = "completed"
  <2>1. PICK k \in 1 .. Len(snap) : snap[k] = BatchEvent(i)
    BY <1>4
  <2>2. k \in DOMAIN (snap \o end)
    BY <1>2, <1>7
  <2> QED
    BY <1>8, <2>1, <2>2
<1>14. \A k \in DOMAIN (snap \o end) : (snap \o end)[k] = Completed => seen[v] /\ k = Len(snap \o end)
  BY <1>3, <1>6, <1>7, <1>8, <1>9, <1>11
<1> QED
  BY <1>5, <1>6, <1>12, <1>13, <1>14

LEMMA StreamTypeStep ==
  ASSUME StreamInv, [StreamNext]_<<vars, stream>>
  PROVE  StreamTypeOK'
<1> USE DEF StreamTypeOK
<1>1. StreamTypeOK
  BY DEF StreamInv
<1>2. CASE UNCHANGED stream
  BY <1>1, <1>2 DEF stream
<1>3. CASE QueueStep
  <2>1. page' = page /\ seen' = seen /\ shown' = shown /\ tries' = tries
    BY <1>3 DEF QueueStep, Broadcast
  <2>2. inbox' \in [Viewers -> Seq(Events)]
    <3>1. \A v \in Viewers : inbox[v] \o Published \in Seq(Events)
      BY <1>1, PublishedFacts, ConcatProperties
    <3> QED
      BY <1>1, <1>3, <3>1 DEF QueueStep, Broadcast
  <2>3. opc' \in [Observers -> {"off", "polling", "snapshot", "listening", "ended"}]
    BY <1>1, <1>3 DEF QueueStep, Broadcast
  <2>4. attempt' \in [Batch -> Nat]
    <3>1. attempt' = attempt \/ attempt' = [attempt EXCEPT ![wbatch] = @ + 1]
      BY <1>3 DEF QueueStep, Broadcast
    <3>2. wbatch \in Batch
      BY DEF StreamInv, IInv, TypeOK
    <3>3. attempt[wbatch] + 1 \in Nat
      BY <1>1, <3>2
    <3> QED
      BY <1>1, <3>1, <3>3
  <2>5. taken' \in SUBSET Batch
    BY <1>1, <1>3 DEF QueueStep, Broadcast
  <2>6. missed' \in [Viewers -> SUBSET Batch]
    <3> DEFINE batches == {e.batch : e \in {f \in {Published[k] : k \in DOMAIN Published} : f.event = "subtitle_batch"}}
    <3>1. batches \subseteq Batch
      <4> SUFFICES ASSUME NEW k \in DOMAIN Published, Published[k].event = "subtitle_batch"
                   PROVE  Published[k].batch \in Batch
        OBVIOUS
      <4>1. About(Published[k], Published[k].batch)
        BY DEF About
      <4>2. Published[k].batch = wbatch
        BY <4>1, PublishedFacts
      <4> QED
        BY <4>2 DEF StreamInv, IInv, TypeOK
    <3>2. Unpublished \subseteq Batch
      BY DEF Unpublished, StreamInv, IInv, TypeOK
    <3>3. missed' = [w \in Viewers |-> IF page[w] \in Reading THEN missed[w] \cup batches \cup Unpublished
                                       ELSE IF page[w] = "listening" THEN (missed[w] \ batches) \cup Unpublished
                                       ELSE missed[w]]
      BY <1>3 DEF QueueStep, Broadcast
    <3> HIDE DEF batches
    <3> QED
      BY <1>1, <3>1, <3>2, <3>3
  <2> QED
    BY <1>1, <2>1, <2>2, <2>3, <2>4, <2>5, <2>6
<1>4. CASE RestartStreams
  <2>1. page' \in [Viewers -> PageState]
    BY <1>1, <1>4 DEF RestartStreams, PageState
  <2>2. inbox' \in [Viewers -> Seq(Events)] /\ missed' \in [Viewers -> SUBSET Batch]
    BY <1>1, <1>4 DEF RestartStreams
  <2>3. opc' \in [Observers -> {"off", "polling", "snapshot", "listening", "ended"}]
        /\ tries' \in [Observers -> 0 .. MaxTries]
    BY <1>1, <1>4, StreamAssumption DEF RestartStreams
  <2> QED
    BY <1>1, <1>4, <2>1, <2>2, <2>3 DEF RestartStreams, history
<1>5. ASSUME NEW v \in Viewers, PageStep(v)
      PROVE  StreamTypeOK'
  <2>1. UNCHANGED <<observers, history>>
    BY <1>5, PageStepLeaves
  <2>2. CASE OpenPage(v)
    BY <1>1, <2>1, <2>2 DEF OpenPage, PageState, observers, history
  <2>3. CASE ReadProgress(v)
    <3>1. seen' \in [Viewers -> BOOLEAN]
      BY <1>1, <2>3 DEF ReadProgress, VideoFinished
    <3> QED
      BY <1>1, <2>1, <2>3, <3>1 DEF ReadProgress, PageState, Connected, Reading, observers, history
  <2>4. CASE ReadBatches(v)
    <3>1. inbox' = [inbox EXCEPT ![v] = Sent(v)]
      BY <2>4 DEF ReadBatches, Sent
    <3>2. inbox' \in [Viewers -> Seq(Events)]
      BY <1>1, <3>1, SentFacts
    <3> QED
      BY <1>1, <2>1, <2>4, <3>2 DEF ReadBatches, PageState, Connected, Reading, observers, history
  <2>5. CASE Subscribe(v)
    BY <1>1, <2>1, <2>5 DEF Subscribe, PageState, Connected, observers, history
  <2>6. CASE HandleEvent(v)
    <3> DEFINE e == Head(inbox[v])
    <3>1. e \in Events /\ Tail(inbox[v]) \in Seq(Events)
      BY <1>1, <2>6, HeadTailProperties DEF HandleEvent
    <3>2. e \notin {Completed, Failed} => e.batch \in Batch /\ e.attempt \in Nat
      BY <3>1 DEF Events
    <3>3. inbox' \in [Viewers -> Seq(Events)]
      <4>1. inbox' = [inbox EXCEPT ![v] = <<>>] \/ inbox' = [inbox EXCEPT ![v] = Tail(inbox[v])]
        BY <1>1, <2>6 DEF HandleEvent
      <4>2. <<>> \in Seq(Events)
        OBVIOUS
      <4> HIDE DEF e
      <4>3. inbox \in [Viewers -> Seq(Events)]
        BY <1>1
      <4>4. CASE inbox' = [inbox EXCEPT ![v] = <<>>]
        BY <4>2, <4>3, <4>4
      <4>5. CASE inbox' = [inbox EXCEPT ![v] = Tail(inbox[v])]
        BY <3>1, <4>3, <4>5
      <4> QED
        BY <4>1, <4>4, <4>5
    <3>4. shown' \in [Viewers -> [Batch -> Nat]]
      <4>1. CASE e \in {Completed, Failed}
        BY <1>1, <2>6, <4>1 DEF HandleEvent
      <4>2. CASE e \notin {Completed, Failed}
        <5>1. MergeSubtitleBatch(shown[v], e) \in [Batch -> Nat]
          BY <1>1, <3>2, <4>2 DEF MergeSubtitleBatch
        <5> QED
          BY <1>1, <2>6, <4>2, <5>1 DEF HandleEvent
      <4> QED
        BY <4>1, <4>2
    <3>5. page' \in [Viewers -> PageState]
      BY <1>1, <2>6 DEF HandleEvent, PageState
    <3> QED
      BY <1>1, <2>1, <2>6, <3>3, <3>4, <3>5 DEF HandleEvent, observers, history
  <2>7. CASE Reconnect(v)
    BY <1>1, <2>1, <2>7 DEF Reconnect, PageState, observers, history
  <2> QED
    BY <1>5, <2>2, <2>3, <2>4, <2>5, <2>6, <2>7 DEF PageStep, ViewerStep
<1>6. ASSUME NEW o \in Observers, OpenProcessingStream(o) \/ ObserverStep(o)
      PROVE  StreamTypeOK'
  <2>1. UNCHANGED <<pages, history>>
    BY <1>6, ObserverStepLeaves
  <2>2. opc' \in [Observers -> {"off", "polling", "snapshot", "listening", "ended"}]
    BY <1>1, <1>6 DEF OpenProcessingStream, ObserverStep, PollProgress, GiveUp, ObserverSubscribes
  <2>3. tries' \in [Observers -> 0 .. MaxTries]
    <3>1. \/ tries' = tries
          \/ tries' = [tries EXCEPT ![o] = 0]
          \/ tries' = [tries EXCEPT ![o] = tries[o] + 1] /\ tries[o] < MaxTries
      BY <1>1, <1>6
      DEF OpenProcessingStream, ObserverStep, PollProgress, GiveUp, ObserverSubscribes, TriesLeft
    <3>2. tries[o] < MaxTries => tries[o] + 1 \in 0 .. MaxTries
      BY <1>1, StreamAssumption
    <3>3. 0 \in 0 .. MaxTries
      BY StreamAssumption
    <3>4. tries \in [Observers -> 0 .. MaxTries]
      BY <1>1
    <3>5. CASE tries' = tries
      BY <3>4, <3>5
    <3>6. CASE tries' = [tries EXCEPT ![o] = 0]
      BY <3>3, <3>4, <3>6
    <3>7. CASE tries' = [tries EXCEPT ![o] = tries[o] + 1] /\ tries[o] < MaxTries
      BY <3>2, <3>4, <3>7
    <3> QED
      BY <3>1, <3>5, <3>6, <3>7
  <2> QED
    BY <1>1, <2>1, <2>2, <2>3 DEF pages, history
<1> QED
  BY <1>2, <1>3, <1>4, <1>5, <1>6 DEF StreamNext, PageStep

(* A page that is served handles its first event: the end closes it, the   *)
(* lines of a batch are shown, a failure changes nothing.                  *)
LEMMA HandlesFirst ==
  ASSUME StreamInv, NEW v \in Viewers, HandleEvent(v)
  PROVE  /\ inbox[v] # <<>> /\ inbox[v] \in Seq(Events) /\ 1 \in DOMAIN inbox[v]
         /\ page[v] \in Served
         /\ inbox[v][1] = Completed => page'[v] = "done" /\ inbox'[v] = <<>> /\ shown' = shown
         /\ inbox[v][1] # Completed =>
              /\ page' = page
              /\ Len(inbox[v]) \in Nat /\ Len(inbox'[v]) = Len(inbox[v]) - 1
              /\ DOMAIN inbox[v] = 1 .. Len(inbox[v]) /\ DOMAIN inbox'[v] = 1 .. Len(inbox'[v])
              /\ \A k \in DOMAIN inbox'[v] : inbox'[v][k] = inbox[v][k + 1]
              /\ \A i \in Batch : IF About(inbox[v][1], i)
                                    THEN shown'[v][i] = inbox[v][1].attempt /\ shown'[v][i] > 0
                                    ELSE shown'[v][i] = shown[v][i]
<1>1. /\ inbox \in [Viewers -> Seq(Events)] /\ page \in [Viewers -> PageState]
      /\ shown \in [Viewers -> [Batch -> Nat]]
  BY DEF StreamInv, StreamTypeOK
<1>2. inbox[v] # <<>> /\ inbox[v] \in Seq(Events) /\ 1 \in DOMAIN inbox[v]
  BY <1>1 DEF HandleEvent
<1>3. page[v] \in Served
  BY <1>2 DEF StreamInv, InboxFollowsPage
<1>4. Head(inbox[v]) = inbox[v][1] /\ inbox[v][1] \in Events
  BY <1>2, HeadTailProperties
<1>5. CASE inbox[v][1] = Completed
  BY <1>1, <1>2, <1>3, <1>4, <1>5 DEF HandleEvent
<1>6. CASE inbox[v][1] # Completed
  <2>1. page' = page /\ inbox'[v] = Tail(inbox[v])
    BY <1>1, <1>4, <1>6 DEF HandleEvent
  <2>2. /\ Len(inbox[v]) \in Nat /\ Len(inbox'[v]) = Len(inbox[v]) - 1
        /\ DOMAIN inbox[v] = 1 .. Len(inbox[v]) /\ DOMAIN inbox'[v] = 1 .. Len(inbox'[v])
        /\ \A k \in DOMAIN inbox'[v] : inbox'[v][k] = inbox[v][k + 1]
    BY <1>2, <2>1, HeadTailProperties
  <2>3. ASSUME NEW i \in Batch
        PROVE  IF About(inbox[v][1], i)
                 THEN shown'[v][i] = inbox[v][1].attempt /\ shown'[v][i] > 0
                 ELSE shown'[v][i] = shown[v][i]
    <3>1. CASE inbox[v][1] = Failed
      BY <1>4, <1>6, <3>1 DEF HandleEvent, About, Failed, Event
    <3>2. CASE inbox[v][1] # Failed
      <4>1. /\ inbox[v][1].event = "subtitle_batch" /\ inbox[v][1].batch \in Batch
            /\ inbox[v][1].attempt \in Nat \ {0}
        BY <1>4, <1>6, <3>2 DEF Events
      <4>2. shown' = [shown EXCEPT ![v] = [shown[v] EXCEPT ![inbox[v][1].batch] = inbox[v][1].attempt]]
        BY <1>1, <1>4, <1>6, <3>2 DEF HandleEvent, MergeSubtitleBatch
      <4>3. shown'[v][i] = IF inbox[v][1].batch = i THEN inbox[v][1].attempt ELSE shown[v][i]
        BY <1>1, <4>2
      <4> QED
        BY <4>1, <4>3 DEF About
    <3> QED
      BY <3>1, <3>2
  <2> QED
    BY <1>2, <1>3, <1>6, <2>1, <2>2, <2>3
<1> QED
  BY <1>5, <1>6

(* A page's step is no other page's. *)
LEMMA OthersUntouched ==
  ASSUME StreamInv, NEW v \in Viewers, PageStep(v), NEW w \in Viewers, w # v
  PROVE  /\ page'[w] = page[w] /\ seen'[w] = seen[w] /\ inbox'[w] = inbox[w]
         /\ shown'[w] = shown[w] /\ missed'[w] = missed[w]
<1> USE DEF StreamInv, StreamTypeOK
<1>1. CASE HandleEvent(v)
  BY <1>1 DEF HandleEvent
<1>2. CASE ReadBatches(v)
  BY <1>2 DEF ReadBatches
<1>3. CASE OpenPage(v) \/ ReadProgress(v) \/ Subscribe(v) \/ Reconnect(v)
  BY <1>3 DEF OpenPage, ReadProgress, Subscribe, Reconnect
<1> QED
  BY <1>1, <1>2, <1>3 DEF PageStep, ViewerStep

(* After a restart no page is served and nothing is under way to one. *)
LEMMA RestartDisconnects ==
  ASSUME StreamInv, RestartStreams, NEW v \in Viewers
  PROVE  /\ inbox'[v] = <<>> /\ page'[v] \notin Connected
         /\ page'[v] = "done" => page[v] = "done" /\ missed'[v] = missed[v]
<1>1. inbox'[v] = <<>> /\ page'[v] \notin Connected
  BY DEF RestartStreams, Connected, Reading
<1>2. page'[v] = "done" => page[v] = "done"
  BY DEF RestartStreams, Connected, Reading
<1>3. page[v] = "done" => missed'[v] = missed[v]
  BY DEF RestartStreams, Connected, Reading, StreamInv, StreamTypeOK
<1> QED
  BY <1>1, <1>2, <1>3

LEMMA InboxStep ==
  ASSUME StreamInv, [StreamNext]_<<vars, stream>>
  PROVE  InboxFollowsPage'
<1> USE DEF InboxFollowsPage, Settled
<1>1. InboxFollowsPage
  BY DEF StreamInv
<1>2. CASE UNCHANGED <<vars, pages, history>>
  BY <1>1, <1>2 DEF vars, rows, pages, history
<1>3. CASE QueueStep
  BY <1>1, <1>3, BroadcastReaches, BroadcastCounts DEF Served
<1>4. CASE RestartStreams
  BY <1>4, RestartDisconnects DEF Connected, Reading, Served
<1>5. ASSUME NEW v \in Viewers, PageStep(v)
      PROVE  InboxFollowsPage'
  <2>1. UNCHANGED <<batch, taken>>
    BY <1>5, PageStepLeaves DEF vars, rows, history
  <2>2. ASSUME NEW w \in Viewers, w # v
        PROVE  /\ page'[w] \notin Served => inbox'[w] = <<>>
               /\ page'[w] = "snapshot" => \A k \in DOMAIN inbox'[w] : inbox'[w][k] # Completed
               /\ page'[w] = "progress" /\ seen'[w] => \A i \in Batch : Settled(i)'
    BY <1>1, <1>5, <2>1, <2>2, OthersUntouched
  <2>3. /\ page'[v] \notin Served => inbox'[v] = <<>>
        /\ page'[v] = "snapshot" => \A k \in DOMAIN inbox'[v] : inbox'[v][k] # Completed
        /\ page'[v] = "progress" /\ seen'[v] => \A i \in Batch : Settled(i)'
    <3> USE DEF StreamInv, StreamTypeOK, Served
    <3>1. CASE OpenPage(v)
      BY <1>1, <2>1, <3>1 DEF OpenPage
    <3>2. CASE ReadProgress(v)
      <4>1. page'[v] = "progress" /\ inbox'[v] = <<>> /\ (seen'[v] = VideoFinished)
        BY <1>1, <3>2 DEF ReadProgress
      <4>2. VideoFinished => \A i \in Batch : Settled(i)
        BY DEF VideoFinished, AllCompleted, WorkIsCounted
      <4> QED
        BY <2>1, <4>1, <4>2
    <3>3. CASE ReadBatches(v)
      <4>1. inbox'[v] = Sent(v) /\ page'[v] = IF seen[v] THEN "ended" ELSE "snapshot"
        BY <3>3 DEF ReadBatches, Sent
      <4>2. page'[v] = "snapshot" => \A k \in DOMAIN Sent(v) : Sent(v)[k] # Completed
        BY <4>1, SentFacts
      <4> QED
        BY <4>1, <4>2
    <3>4. CASE Subscribe(v)
      BY <3>4 DEF Subscribe
    <3>5. CASE HandleEvent(v)
      <4>1. CASE inbox[v][1] = Completed
        BY <3>5, <4>1, HandlesFirst
      <4>2. CASE inbox[v][1] # Completed
        <5>1. page'[v] = page[v] /\ page[v] \in Served
          BY <3>5, <4>2, HandlesFirst
        <5>2. page[v] = "snapshot" => \A k \in DOMAIN inbox'[v] : inbox'[v][k] # Completed
          <6> SUFFICES ASSUME page[v] = "snapshot", NEW k \in DOMAIN inbox'[v]
                       PROVE  inbox'[v][k] # Completed
            OBVIOUS
          <6>1. inbox'[v][k] = inbox[v][k + 1] /\ k + 1 \in DOMAIN inbox[v]
            BY <3>5, <4>2, HandlesFirst
          <6> QED
            BY <1>1, <6>1
        <5> QED
          BY <5>1, <5>2
      <4> QED
        BY <4>1, <4>2
    <3>6. CASE Reconnect(v)
      BY <3>6 DEF Reconnect
    <3> QED
      BY <1>5, <3>1, <3>2, <3>3, <3>4, <3>5, <3>6 DEF PageStep, ViewerStep
  <2> QED
    BY <2>2, <2>3
<1>6. ASSUME NEW o \in Observers, OpenProcessingStream(o) \/ ObserverStep(o)
      PROVE  InboxFollowsPage'
  BY <1>2, <1>6, ObserverStepLeaves
<1>7. CASE UNCHANGED <<vars, stream>>
  BY <1>2, <1>7 DEF stream, pages, history
<1> QED
  BY <1>3, <1>4, <1>5, <1>6, <1>7 DEF StreamNext, PageStep

(* What joins the inbox of a page that listens goes behind what was there. *)
LEMMA InboxGrows ==
  ASSUME StreamInv, QueueStep, NEW v \in Viewers, page[v] = "listening"
  PROVE  /\ Len(inbox[v]) \in Nat /\ Len(Published) \in Nat
         /\ DOMAIN inbox[v] = 1 .. Len(inbox[v]) /\ DOMAIN Published = 1 .. Len(Published)
         /\ DOMAIN inbox'[v] = 1 .. Len(inbox[v]) + Len(Published)
         /\ \A k \in DOMAIN inbox[v] : k \in DOMAIN inbox'[v] /\ inbox'[v][k] = inbox[v][k]
         /\ \A k \in DOMAIN Published :
              Len(inbox[v]) + k \in DOMAIN inbox'[v] /\ inbox'[v][Len(inbox[v]) + k] = Published[k]
         /\ \A k \in DOMAIN inbox'[v] : k \notin DOMAIN inbox[v] =>
              k - Len(inbox[v]) \in DOMAIN Published /\ inbox'[v][k] = Published[k - Len(inbox[v])]
<1> DEFINE a == inbox[v]
           b == Published
<1>1. a \in Seq(Events) /\ b \in Seq(Events)
  BY PublishedFacts DEF StreamInv, StreamTypeOK
<1>2. inbox'[v] = a \o b
  BY BroadcastReaches
<1> HIDE DEF a, b
<1>3. /\ a \o b \in Seq(Events) /\ Len(a \o b) = Len(a) + Len(b)
      /\ \A i \in 1 .. Len(a) + Len(b) : (a \o b)[i] = IF i <= Len(a) THEN a[i] ELSE b[i - Len(a)]
  BY <1>1, ConcatProperties
<1>4. Len(a) \in Nat /\ Len(b) \in Nat /\ DOMAIN a = 1 .. Len(a) /\ DOMAIN b = 1 .. Len(b)
      /\ DOMAIN (a \o b) = 1 .. Len(a) + Len(b)
  BY <1>1, <1>3
<1>5. \A k \in 1 .. Len(a) : k \in 1 .. Len(a) + Len(b) /\ (a \o b)[k] = a[k]
  BY <1>3, <1>4
<1>6. \A k \in 1 .. Len(b) : Len(a) + k \in 1 .. Len(a) + Len(b) /\ (a \o b)[Len(a) + k] = b[k]
  <2> TAKE k \in 1 .. Len(b)
  <2>1. Len(a) + k \in 1 .. Len(a) + Len(b) /\ ~(Len(a) + k <= Len(a)) /\ Len(a) + k - Len(a) = k
    BY <1>4
  <2> QED
    BY <1>3, <2>1
<1>7. \A k \in 1 .. Len(a) + Len(b) : k \notin 1 .. Len(a) =>
        k - Len(a) \in 1 .. Len(b) /\ (a \o b)[k] = b[k - Len(a)]
  BY <1>3, <1>4
<1> QED
  BY <1>2, <1>4, <1>5, <1>6, <1>7 DEF a, b

(* A batch is published to a page that listens: then the page gets it. *)
LEMMA PublishedArrives ==
  ASSUME StreamInv, QueueStep, NEW v \in Viewers, page[v] = "listening", Publishes
  PROVE  Latest(v, wbatch)'
<1>1. wbatch \in Batch /\ ~Commits /\ wbatch' = wbatch
  BY WorkerMoves DEF StreamInv, IInv, TypeOK, Commits, Publishes, Moved
<1>2. attempt'[wbatch] = attempt[wbatch]
  BY <1>1, BroadcastCounts
<1> DEFINE n == Len(inbox[v])
<1>3. n \in Nat /\ n + 1 \in DOMAIN inbox'[v] /\ inbox'[v][n + 1] = BatchEvent(wbatch)
  BY InboxGrows, PublishedFacts
<1>4. \A k \in DOMAIN inbox'[v] : About(inbox'[v][k], wbatch) =>
        \E l \in DOMAIN inbox'[v] : k <= l /\ inbox'[v][l] = BatchEvent(wbatch)
  <2> SUFFICES ASSUME NEW k \in DOMAIN inbox'[v], About(inbox'[v][k], wbatch)
               PROVE  \E l \in DOMAIN inbox'[v] : k <= l /\ inbox'[v][l] = BatchEvent(wbatch)
    OBVIOUS
  <2>1. CASE k \in DOMAIN inbox[v]
    <3>1. k <= n + 1
      BY <2>1, InboxGrows
    <3> QED
      BY <1>3, <3>1
  <2>2. CASE k \notin DOMAIN inbox[v]
    <3>1. inbox'[v][k] = BatchEvent(wbatch) /\ k <= k
      BY <2>2, InboxGrows, PublishedFacts
    <3> QED
      BY <3>1
  <2> QED
    BY <2>1, <2>2
<1>5. [event |-> "subtitle_batch", batch |-> wbatch, attempt |-> attempt'[wbatch']] = BatchEvent(wbatch)
  BY <1>1, <1>2 DEF BatchEvent, Event
<1> QED
  BY <1>1, <1>2, <1>3, <1>4, <1>5 DEF Latest, OnItsWay, BatchEvent, Event

(* A page that has or gets the latest lines of a batch keeps them as long  *)
(* as the batch is not completed again.                                    *)
LEMMA LatestStays ==
  ASSUME StreamInv, QueueStep, NEW v \in Viewers, page[v] \in {"snapshot", "listening"},
         NEW i \in Batch, ~(Commits /\ i = wbatch), Latest(v, i)
  PROVE  Latest(v, i)'
<1>1. attempt'[i] = attempt[i] /\ shown' = shown
  BY BroadcastCounts, BroadcastReaches
<1>2. \A k \in DOMAIN inbox[v] : k \in DOMAIN inbox'[v] /\ inbox'[v][k] = inbox[v][k]
  BY BroadcastReaches, InboxGrows
<1>3. \A k \in DOMAIN inbox'[v] : k \in DOMAIN inbox[v] \/ (About(inbox'[v][k], i) => inbox'[v][k] = BatchEvent(i))
  <2>1. CASE page[v] = "listening"
    BY <2>1, InboxGrows, PublishedFacts
  <2>2. CASE page[v] = "snapshot"
    BY <2>2, BroadcastReaches
  <2> QED
    BY <2>1, <2>2
<1>4. \A k \in DOMAIN inbox'[v] : About(inbox'[v][k], i) =>
        \E l \in DOMAIN inbox'[v] : k <= l /\ inbox'[v][l] = BatchEvent(i)
  <2> SUFFICES ASSUME NEW k \in DOMAIN inbox'[v], About(inbox'[v][k], i)
               PROVE  \E l \in DOMAIN inbox'[v] : k <= l /\ inbox'[v][l] = BatchEvent(i)
    OBVIOUS
  <2>1. CASE k \in DOMAIN inbox[v]
    BY <1>2, <2>1 DEF Latest
  <2>2. CASE k \notin DOMAIN inbox[v]
    <3>1. k <= k
      <4>1. CASE page[v] = "listening"
        BY <4>1, InboxGrows
      <4>2. CASE page[v] = "snapshot"
        BY <2>2, <4>2, BroadcastReaches
      <4> QED
        BY <4>1, <4>2
    <3> QED
      BY <1>3, <2>2, <3>1
  <2> QED
    BY <2>1, <2>2
<1>5. shown[v][i] = attempt[i] \/ \E k \in DOMAIN inbox'[v] : inbox'[v][k] = BatchEvent(i)
  BY <1>2 DEF Latest, OnItsWay
<1> QED
  BY <1>1, <1>4, <1>5 DEF Latest, OnItsWay, BatchEvent, Event

(* What a page gets of a batch when the worker moves. *)
LEMMA UpToDateQueueStep ==
  ASSUME StreamInv, QueueStep, NEW v \in Viewers, page[v] \in {"snapshot", "listening"},
         NEW i \in Batch, batch'[i] = "completed"
  PROVE  Latest(v, i)' \/ BeingPublished(i)' \/ i \in missed'[v]
<1>1. CASE Commits /\ i = wbatch
  BY <1>1, WorkerMoves DEF StreamInv, Commits, Moved, BeingPublished
<1>2. CASE ~(Commits /\ i = wbatch)
  <2>1. Latest(v, i) \/ BeingPublished(i) \/ i \in missed[v]
    BY <1>2, WorkerMoves DEF StreamInv, UpToDate
  <2>2. CASE Publishes /\ i = wbatch
    <3>1. page[v] = "listening" => Latest(v, i)'
      BY <2>2, PublishedArrives, WorkerMoves DEF StreamInv, Publishes, Moved
    <3>2. page[v] = "snapshot" => i \in missed'[v]
      BY <2>2, BroadcastReaches DEF Reading
    <3> QED
      BY <3>1, <3>2
  <2>3. CASE ~(Publishes /\ i = wbatch)
    <3>1. CASE Latest(v, i)
      BY <1>2, <3>1, LatestStays
    <3>2. CASE BeingPublished(i)
      <4>1. wpc' \in {"reload", "fail"} /\ wbatch' = wbatch /\ i = wbatch
        BY <2>3, <3>2, WorkerMoves DEF StreamInv, BeingPublished, Publishes, Moved
      <4>2. wpc' = "fail" => i \in missed'[v]
        BY <3>2, <4>1, BroadcastReaches DEF BeingPublished, Moved, Reading
      <4> QED
        BY <4>1, <4>2 DEF BeingPublished
    <3>3. CASE i \in missed[v]
      BY <2>3, <3>3, BroadcastReaches
    <3> QED
      BY <2>1, <3>1, <3>2, <3>3
  <2> QED
    BY <2>2, <2>3
<1> QED
  BY <1>1, <1>2

LEMMA UpToDateStep ==
  ASSUME StreamInv, [StreamNext]_<<vars, stream>>
  PROVE  UpToDate'
<1>1. UpToDate
  BY DEF StreamInv
<1>2. CASE UNCHANGED <<vars, pages, history>>
  BY <1>1, <1>2 DEF UpToDate, Latest, OnItsWay, BeingPublished, BatchEvent, vars, rows, worker, pages, history
<1>3. CASE QueueStep
  BY <1>3, UpToDateQueueStep, BroadcastReaches DEF UpToDate
<1>4. CASE RestartStreams
  BY <1>4, RestartDisconnects DEF UpToDate, Connected, Reading
<1>5. ASSUME NEW v \in Viewers, PageStep(v)
      PROVE  UpToDate'
  <2>1. UNCHANGED <<batch, wpc, wbatch, attempt>>
    BY <1>5, PageStepLeaves DEF vars, rows, worker, history
  <2>2. SUFFICES ASSUME NEW w \in Viewers, page'[w] \in {"snapshot", "listening"},
                        NEW i \in Batch, batch[i] = "completed"
                 PROVE  Latest(w, i)' \/ BeingPublished(i)' \/ i \in missed'[w]
    BY <2>1 DEF UpToDate
  <2>3. BeingPublished(i)' <=> BeingPublished(i)
    BY <2>1 DEF BeingPublished
  <2>4. ASSUME page[w] \in {"snapshot", "listening"}, inbox'[w] = inbox[w], shown'[w] = shown[w],
               missed'[w] = missed[w]
        PROVE  Latest(w, i)' \/ BeingPublished(i)' \/ i \in missed'[w]
    <3>1. Latest(w, i) \/ BeingPublished(i) \/ i \in missed[w]
      BY <1>1, <2>2, <2>4 DEF UpToDate
    <3>2. Latest(w, i) => Latest(w, i)'
      BY <2>1, <2>4 DEF Latest, OnItsWay, BatchEvent, Event
    <3> QED
      BY <2>3, <2>4, <3>1, <3>2
  <2>5. CASE w # v
    BY <1>5, <2>2, <2>4, <2>5, OthersUntouched
  <2>6. CASE w = v
    <3> USE DEF StreamInv, StreamTypeOK
    <3>1. CASE OpenPage(v) \/ ReadProgress(v) \/ Reconnect(v)
      BY <2>2, <2>6, <3>1 DEF OpenPage, ReadProgress, Reconnect
    <3>2. CASE ReadBatches(v)
      <4>1. inbox'[v] = Sent(v)
        BY <3>2 DEF ReadBatches, Sent
      <4>2. \E k \in DOMAIN Sent(v) : Sent(v)[k] = BatchEvent(i)
        BY <2>2, SentFacts
      <4>3. \A k \in DOMAIN Sent(v) : About(Sent(v)[k], i) => Sent(v)[k] = BatchEvent(i) /\ k <= k
        BY SentFacts
      <4>4. Latest(v, i)'
        BY <2>1, <4>1, <4>2, <4>3 DEF Latest, OnItsWay, BatchEvent
      <4> QED
        BY <2>6, <4>4
    <3>3. CASE Subscribe(v)
      BY <2>4, <2>6, <3>3 DEF Subscribe
    <3>4. CASE HandleEvent(v)
      <4>1. inbox[v][1] # Completed /\ page'[v] = page[v]
        BY <2>2, <2>6, <3>4, HandlesFirst
      <4>2. missed'[v] = missed[v]
        BY <3>4 DEF HandleEvent
      <4>3. ASSUME Latest(v, i)
            PROVE  Latest(v, i)'
        <5> DEFINE m == Len(inbox[v])
        <5>1. /\ m \in Nat /\ DOMAIN inbox[v] = 1 .. m /\ DOMAIN inbox'[v] = 1 .. m - 1
              /\ \A k \in 1 .. m - 1 : inbox'[v][k] = inbox[v][k + 1]
          BY <3>4, <4>1, HandlesFirst
        <5> HIDE DEF m
        <5>2. ASSUME NEW l \in DOMAIN inbox[v], inbox[v][l] = BatchEvent(i), l # 1
              PROVE  l - 1 \in DOMAIN inbox'[v] /\ inbox'[v][l - 1] = BatchEvent(i)
          <6>1. l \in 1 .. m /\ l - 1 \in 1 .. m - 1 /\ l - 1 + 1 = l
            BY <5>1, <5>2
          <6> QED
            BY <5>1, <5>2, <6>1
        <5>3. ASSUME NEW k \in DOMAIN inbox'[v], About(inbox'[v][k], i)
              PROVE  \E l \in DOMAIN inbox'[v] : k <= l /\ inbox'[v][l] = BatchEvent(i)
          <6>1. k \in 1 .. m - 1 /\ k + 1 \in 1 .. m /\ About(inbox[v][k + 1], i)
            BY <5>1, <5>3
          <6>2. PICK l \in DOMAIN inbox[v] : k + 1 <= l /\ inbox[v][l] = BatchEvent(i)
            BY <4>3, <5>1, <6>1 DEF Latest
          <6>3. l # 1 /\ k <= l - 1
            BY <5>1, <6>1, <6>2
          <6> QED
            BY <5>2, <6>2, <6>3
        <5>4. shown'[v][i] = attempt[i] \/ \E k \in DOMAIN inbox'[v] : inbox'[v][k] = BatchEvent(i)
          <6>1. CASE About(inbox[v][1], i)
            <7>1. 1 \in DOMAIN inbox[v]
              BY <3>4, HandlesFirst
            <7>2. PICK l \in DOMAIN inbox[v] : 1 <= l /\ inbox[v][l] = BatchEvent(i)
              BY <4>3, <6>1, <7>1 DEF Latest
            <7>3. l = 1 => shown'[v][i] = attempt[i]
              BY <3>4, <4>1, <6>1, <7>2, HandlesFirst DEF BatchEvent, Event
            <7> QED
              BY <5>2, <7>2, <7>3
          <6>2. CASE ~About(inbox[v][1], i)
            <7>1. shown'[v][i] = shown[v][i]
              BY <3>4, <4>1, <6>2, HandlesFirst
            <7>2. \A l \in DOMAIN inbox[v] : inbox[v][l] = BatchEvent(i) => l # 1
              BY <6>2 DEF About, BatchEvent, Event
            <7> QED
              BY <4>3, <5>2, <7>1, <7>2 DEF Latest, OnItsWay
          <6> QED
            BY <6>1, <6>2
        <5> QED
          BY <2>1, <5>3, <5>4 DEF Latest, OnItsWay, BatchEvent
      <4> QED
        BY <1>1, <2>2, <2>3, <2>6, <4>1, <4>2, <4>3 DEF UpToDate
    <3> QED
      BY <1>5, <2>6, <3>1, <3>2, <3>3, <3>4 DEF PageStep, ViewerStep
  <2> QED
    BY <2>5, <2>6
<1>6. ASSUME NEW o \in Observers, OpenProcessingStream(o) \/ ObserverStep(o)
      PROVE  UpToDate'
  BY <1>2, <1>6, ObserverStepLeaves
<1>7. CASE UNCHANGED <<vars, stream>>
  BY <1>2, <1>7 DEF stream, pages, history
<1> QED
  BY <1>3, <1>4, <1>5, <1>6, <1>7 DEF StreamNext, PageStep

(* What EndComesLast says of one event of a page. *)
NothingBehind(v, i) == i \in taken \/ (batch[i] = "completed" /\ ~BeingPublished(i))

LEMMA EndQueueStep ==
  ASSUME StreamInv, QueueStep, NEW v \in Viewers, page[v] \in {"listening", "ended"},
         NEW k \in DOMAIN inbox'[v], inbox'[v][k] = Completed, NEW i \in Batch
  PROVE  Arrives(v, k, i)' /\ (page[v] = "listening" => NothingBehind(v, i)')
<1>1. shown' = shown /\ (i \in taken => i \in taken')
  BY BroadcastReaches, BroadcastCounts
<1>2. NothingBehind(v, i) => NothingBehind(v, i)'
  BY WorkerMoves, BroadcastCounts DEF StreamInv, NothingBehind, BeingPublished
<1>3. CASE page[v] = "ended"
  <2>1. inbox'[v] = inbox[v] /\ (i \in missed[v] => i \in missed'[v])
    BY <1>3, BroadcastReaches
  <2> QED
    BY <1>1, <1>3, <2>1 DEF StreamInv, EndComesLast, Arrives
<1>4. CASE page[v] = "listening" /\ k \in DOMAIN inbox[v]
  <2>1. \A l \in DOMAIN inbox[v] : l \in DOMAIN inbox'[v] /\ inbox'[v][l] = inbox[v][l]
    BY <1>4, InboxGrows
  <2>2. Arrives(v, k, i) /\ NothingBehind(v, i)
    BY <1>4, <2>1 DEF StreamInv, EndComesLast, NothingBehind
  <2>3. i \in missed[v] => i \in missed'[v] \/ i \in taken
    BY <2>2, BroadcastReaches DEF NothingBehind, BeingPublished, Publishes, Moved
  <2>4. Arrives(v, k, i)'
    BY <1>1, <2>1, <2>2, <2>3 DEF Arrives
  <2> QED
    BY <1>2, <2>2, <2>4
<1>5. CASE page[v] = "listening" /\ k \notin DOMAIN inbox[v]
  <2>1. wpc = "report" /\ VideoFinished /\ ~Publishes
    BY <1>5, InboxGrows, PublishedFacts DEF Publishes, Moved
  <2>2. i \in taken \/ batch[i] = "completed"
    BY <2>1 DEF VideoFinished, AllCompleted, StreamInv, WorkIsCounted, Settled
  <2>3. NothingBehind(v, i)
    BY <2>1, <2>2 DEF NothingBehind, BeingPublished
  <2>4. Arrives(v, k, i)'
    <3>1. CASE i \in taken
      BY <1>1, <3>1 DEF Arrives
    <3>2. CASE batch[i] = "completed"
      <4>1. Latest(v, i) \/ i \in missed[v]
        BY <1>5, <2>1, <3>2 DEF StreamInv, UpToDate, BeingPublished
      <4>2. attempt[i] > 0
        BY <3>2 DEF StreamInv, IInv, LinesFollowBatches, WorkIsCounted
      <4>3. i \in missed[v] => i \in missed'[v]
        BY <2>1, BroadcastReaches
      <4>4. ASSUME NEW l \in DOMAIN inbox[v], inbox[v][l] = BatchEvent(i)
            PROVE  Arrives(v, k, i)'
        <5>1. l \in DOMAIN inbox'[v] /\ l < k /\ inbox'[v][l] = BatchEvent(i)
          BY <1>5, <4>4, InboxGrows
        <5>2. About(inbox'[v][l], i)
          BY <5>1 DEF About, BatchEvent, Event
        <5> QED
          BY <5>1, <5>2 DEF Arrives
      <4> QED
        BY <1>1, <4>1, <4>2, <4>3, <4>4 DEF Latest, OnItsWay, Arrives
    <3> QED
      BY <2>2, <3>1, <3>2
  <2> QED
    BY <1>2, <2>3, <2>4
<1> QED
  BY <1>3, <1>4, <1>5

LEMMA EndStep ==
  ASSUME StreamInv, [StreamNext]_<<vars, stream>>
  PROVE  EndComesLast'
<1>1. EndComesLast
  BY DEF StreamInv
<1>2. CASE UNCHANGED <<vars, pages, history>>
  BY <1>1, <1>2 DEF EndComesLast, Arrives, BeingPublished, vars, rows, worker, pages, history
<1>3. CASE QueueStep
  BY <1>3, EndQueueStep, BroadcastReaches DEF EndComesLast, NothingBehind
<1>4. CASE RestartStreams
  BY <1>4, RestartDisconnects DEF EndComesLast, Connected
<1>5. ASSUME NEW v \in Viewers, PageStep(v)
      PROVE  EndComesLast'
  <2>1. UNCHANGED <<batch, wpc, wbatch, attempt, taken>>
    BY <1>5, PageStepLeaves DEF vars, rows, worker, history
  <2>2. SUFFICES ASSUME NEW w \in Viewers, page'[w] \in {"listening", "ended"},
                        NEW k \in DOMAIN inbox'[w], inbox'[w][k] = Completed, NEW i \in Batch
                 PROVE  Arrives(w, k, i)' /\ (page'[w] = "listening" => NothingBehind(w, i)')
    BY DEF EndComesLast, NothingBehind
  <2>3. NothingBehind(w, i)' <=> NothingBehind(w, i)
    BY <2>1 DEF NothingBehind, BeingPublished
  <2>4. CASE w # v
    <3>1. /\ page'[w] = page[w] /\ inbox'[w] = inbox[w] /\ shown'[w] = shown[w]
          /\ missed'[w] = missed[w]
      BY <1>5, <2>4, OthersUntouched
    <3>2. Arrives(w, k, i) /\ (page[w] = "listening" => NothingBehind(w, i))
      BY <1>1, <2>2, <3>1 DEF EndComesLast, NothingBehind
    <3> QED
      BY <2>1, <2>3, <3>1, <3>2 DEF Arrives
  <2>5. CASE w = v
    <3> USE DEF StreamInv, StreamTypeOK
    <3>1. CASE OpenPage(v) \/ ReadProgress(v) \/ Reconnect(v)
      BY <2>2, <2>5, <3>1 DEF OpenPage, ReadProgress, Reconnect
    <3>2. CASE ReadBatches(v)
      <4>1. inbox'[v] = Sent(v) /\ page[v] = "progress" /\ page'[v] = IF seen[v] THEN "ended" ELSE "snapshot"
        BY <3>2 DEF ReadBatches, Sent
      <4>2. seen[v] /\ k = Len(Sent(v)) /\ page'[v] = "ended"
        BY <2>2, <2>5, <4>1, SentFacts
      <4>3. i \in taken \/ batch[i] = "completed"
        BY <4>1, <4>2 DEF InboxFollowsPage, Settled
      <4>4. batch[i] = "completed" => Arrives(v, k, i)'
        <5> SUFFICES ASSUME batch[i] = "completed" PROVE Arrives(v, k, i)'
          OBVIOUS
        <5>1. PICK l \in DOMAIN Sent(v) : Sent(v)[l] = BatchEvent(i)
          BY SentFacts
        <5>2. Sent(v)[k] = Completed /\ Sent(v)[l] # Completed
          BY <2>2, <2>5, <4>1, <5>1 DEF BatchEvent, Event, Completed
        <5>3. l < k
          <6>1. DOMAIN Sent(v) = 1 .. Len(Sent(v)) /\ Len(Sent(v)) \in Nat
            BY SentFacts, LenProperties
          <6> QED
            BY <4>2, <5>2, <6>1
        <5>4. About(Sent(v)[l], i)
          BY <5>1 DEF About, BatchEvent, Event
        <5> QED
          BY <4>1, <5>3, <5>4 DEF Arrives
      <4>5. i \in taken => Arrives(v, k, i)'
        BY <2>1 DEF Arrives
      <4> QED
        BY <2>5, <4>2, <4>3, <4>4, <4>5
    <3>3. CASE Subscribe(v)
      BY <2>2, <2>5, <3>3 DEF Subscribe, InboxFollowsPage
    <3>4. CASE HandleEvent(v)
      <4>1. inbox[v][1] # Completed /\ page'[v] = page[v]
        BY <2>2, <2>5, <3>4, HandlesFirst
      <4>2. missed'[v] = missed[v]
        BY <3>4 DEF HandleEvent
      <4> DEFINE m == Len(inbox[v])
      <4>3. /\ m \in Nat /\ DOMAIN inbox[v] = 1 .. m /\ DOMAIN inbox'[v] = 1 .. m - 1
            /\ \A j \in 1 .. m - 1 : inbox'[v][j] = inbox[v][j + 1]
        BY <3>4, <4>1, HandlesFirst
      <4> HIDE DEF m
      <4>4. k \in 1 .. m - 1 /\ k + 1 \in 1 .. m /\ inbox[v][k + 1] = Completed
        BY <2>2, <2>5, <4>3
      <4>5. Arrives(v, k + 1, i) /\ (page[v] = "listening" => NothingBehind(v, i))
        BY <1>1, <2>2, <2>5, <4>1, <4>3, <4>4 DEF EndComesLast, NothingBehind
      <4>6. shown[v][i] > 0 => shown'[v][i] > 0
        BY <3>4, <4>1, HandlesFirst
      <4>7. ASSUME NEW l \in DOMAIN inbox[v], l < k + 1, About(inbox[v][l], i)
            PROVE  Arrives(v, k, i)'
        <5>1. CASE l = 1
          BY <3>4, <4>1, <4>7, <5>1, HandlesFirst DEF Arrives
        <5>2. CASE l # 1
          <6>1. l \in 1 .. m /\ l - 1 \in 1 .. m - 1 /\ l - 1 < k /\ l - 1 + 1 = l
            BY <4>3, <4>4, <4>7, <5>2
          <6>2. About(inbox'[v][l - 1], i)
            BY <4>3, <4>7, <6>1
          <6> QED
            BY <4>3, <6>1, <6>2 DEF Arrives
        <5> QED
          BY <5>1, <5>2
      <4>8. Arrives(v, k, i)'
        BY <2>1, <4>2, <4>5, <4>6, <4>7 DEF Arrives
      <4> QED
        BY <2>3, <2>5, <4>1, <4>5, <4>8
    <3> QED
      BY <1>5, <2>5, <3>1, <3>2, <3>3, <3>4 DEF PageStep, ViewerStep
  <2> QED
    BY <2>4, <2>5
<1>6. ASSUME NEW o \in Observers, OpenProcessingStream(o) \/ ObserverStep(o)
      PROVE  EndComesLast'
  BY <1>2, <1>6, ObserverStepLeaves
<1>7. CASE UNCHANGED <<vars, stream>>
  BY <1>2, <1>7 DEF stream, pages, history
<1> QED
  BY <1>3, <1>4, <1>5, <1>6, <1>7 DEF StreamNext, PageStep

(* A page closes on the first event of its inbox, so nothing is before it. *)
LEMMA ClosedStep ==
  ASSUME StreamInv, [StreamNext]_<<vars, stream>>
  PROVE  ClosedPageIsWhole'
<1>1. ClosedPageIsWhole
  BY DEF StreamInv
<1>2. CASE UNCHANGED <<pages, history>>
  BY <1>1, <1>2 DEF ClosedPageIsWhole, pages, history
<1>3. CASE QueueStep
  BY <1>1, <1>3, BroadcastReaches, BroadcastCounts DEF ClosedPageIsWhole
<1>4. CASE RestartStreams
  BY <1>1, <1>4, RestartDisconnects, RestartLeaves DEF ClosedPageIsWhole
<1>5. ASSUME NEW v \in Viewers, PageStep(v)
      PROVE  ClosedPageIsWhole'
  <2>1. UNCHANGED <<lines, attempt, taken>>
    BY <1>5, PageStepLeaves DEF vars, rows, history
  <2>2. SUFFICES ASSUME NEW w \in Viewers, page'[w] = "done", NEW i \in Batch
                 PROVE  shown'[w][i] > 0 \/ i \in missed'[w] \/ i \in taken
    BY <2>1 DEF ClosedPageIsWhole
  <2>3. CASE w # v
    BY <1>1, <1>5, <2>2, <2>3, OthersUntouched DEF ClosedPageIsWhole
  <2>4. CASE w = v
    <3> USE DEF StreamInv, StreamTypeOK
    <3>1. CASE OpenPage(v)
      <4>1. AllProcessed
        BY <2>2, <2>4, <3>1 DEF OpenPage
      <4>2. shown'[v][i] = attempt[i] /\ attempt[i] > 0
        BY <3>1, <4>1 DEF OpenPage, AllProcessed, WorkIsCounted
      <4> QED
        BY <2>4, <4>2
    <3>2. CASE ReadProgress(v) \/ ReadBatches(v) \/ Subscribe(v) \/ Reconnect(v)
      BY <2>2, <2>4, <3>2 DEF ReadProgress, ReadBatches, Subscribe, Reconnect
    <3>3. CASE HandleEvent(v)
      <4>1. /\ 1 \in DOMAIN inbox[v] /\ page[v] \in Served /\ inbox[v][1] = Completed
            /\ inbox[v] \in Seq(Events) /\ shown' = shown
        BY <2>2, <2>4, <3>3, HandlesFirst DEF Served
      <4>2. page[v] \in {"listening", "ended"}
        BY <4>1 DEF Served, InboxFollowsPage
      <4>3. Arrives(v, 1, i)
        BY <4>1, <4>2 DEF EndComesLast
      <4>4. \A l \in DOMAIN inbox[v] : ~(l < 1)
        BY <4>1, LenProperties
      <4>5. missed' = missed
        BY <3>3 DEF HandleEvent
      <4> QED
        BY <2>4, <4>1, <4>3, <4>4, <4>5 DEF Arrives
    <3> QED
      BY <1>5, <2>4, <3>1, <3>2, <3>3 DEF PageStep, ViewerStep
  <2> QED
    BY <2>3, <2>4
<1>6. ASSUME NEW o \in Observers, OpenProcessingStream(o) \/ ObserverStep(o)
      PROVE  ClosedPageIsWhole'
  BY <1>2, <1>6, ObserverStepLeaves
<1>7. CASE UNCHANGED <<vars, stream>>
  BY <1>2, <1>7 DEF stream, pages, history
<1> QED
  BY <1>3, <1>4, <1>5, <1>6, <1>7 DEF StreamNext, PageStep

THEOREM StreamInvariantHolds == StreamSpec => []StreamInv
<1>1. StreamInv /\ [StreamNext]_<<vars, stream>> => StreamInv'
  BY QueueInvariantStep, StreamTypeStep, WorkIsCountedStep, InboxStep, UpToDateStep, EndStep,
     ClosedStep DEF StreamInv
<1> QED
  BY InitStream, <1>1, PTL DEF StreamSpec

-----------------------------------------------------------------------------
(* The properties the runs check *)

(* Pages, streams and events keep their types, and a stream never looks for *)
(* the video more often than it may.                                        *)
THEOREM StreamTyped == StreamSpec => []StreamTypeOK
<1>1. StreamInv => StreamTypeOK
  BY DEF StreamInv
<1> QED
  BY StreamInvariantHolds, <1>1, PTL

(* A page behind an open stream falls behind the rows only through the gap *)
(* before its subscription, or when the worker could not read back what it *)
(* had committed.                                                          *)
THEOREM NothingIsLost == StreamSpec => []StreamLosesNothing
<1>1. StreamInv => StreamLosesNothing
  BY DEF StreamInv, UpToDate, Latest, StreamLosesNothing
<1> QED
  BY StreamInvariantHolds, <1>1, PTL

(* The end of a stream never overtakes the batches. *)
THEOREM ClosedPagesAreWhole == StreamSpec => []ClosedPageIsWhole
<1>1. StreamInv => ClosedPageIsWhole
  BY DEF StreamInv
<1> QED
  BY StreamInvariantHolds, <1>1, PTL

(* With streams attached the rows still change by the commits of the ledger *)
(* only.                                                                    *)
THEOREM StreamedQueueImplementsLedger == StreamSpec => ImplementsLedger
BY StreamRunsQueue, QueueImplementsLedger, PTL DEF FairSpec
=============================================================================
