--------------------------- MODULE SubtitleQueue ---------------------------
(***************************************************************************)
(* The life of one imported video: the in-process queue of                 *)
(* subtitle_queue.py, its single worker task, the service calls the worker *)
(* makes, and the API calls that meet it: POST /process, /playback-        *)
(* position, /batches/{i}/retry and DELETE.                                *)
(*                                                                         *)
(* One action is the code between two awaits that reach the database, the  *)
(* network or another task.  Rows are written under READ COMMITTED; a row  *)
(* that an open transaction has updated is locked until it ends.           *)
(***************************************************************************)
EXTENDS Integers, Sequences, FiniteSets

CONSTANTS
  NumBatches,   \* number of subtitle batches the video splits into
  Callers,      \* concurrent API requests about the video
  Retried,      \* the batch indexes clients ask to retry: the route takes any integer
  Column,       \* the integers that the 32 bits of the column batch_index hold
  Ops,          \* which calls and faults the environment produces
  MaxCalls      \* bound: the number of requests clients send

ASSUME NumBatchesAssumption == NumBatches \in Nat \ {0}

Batch == 0 .. NumBatches - 1

ASSUME IndexAssumption == Retried \subseteq Int /\ Batch \subseteq Column

Operations == {"process", "playback", "retry", "delete", "restart", "no_source", "reload_error"}

ASSUME OpsAssumption == Ops \subseteq Operations /\ MaxCalls \in Nat

VARIABLES
  \* committed rows
  video,      \* videos.processing_status, "none" when there is no row
  batch,      \* subtitle_processing_batches.status per batch
  lines,      \* subtitles.processing_status, one value for the lines of a batch
  \* memory of the process
  priority,   \* VideoQueueState.priority_batches
  wpc,        \* where the worker task is; "off": no task, or task.done()
  wpending,   \* the pending set _next_batch read
  wbatch,     \* the batch picked last
  wseen,      \* video.processing_status as process_batch loaded it
  wall,       \* _maybe_complete_video saw every other batch completed
  wgone,      \* the rows the worker loaded have been deleted since
  classify,   \* is the topic classification task running
  \* API calls
  call,       \* per request: its step and what it has read so far
  sent,       \* requests sent so far
  \* auxiliary
  redo        \* batches whose retry was committed and not started since

rows == <<video, batch, lines>>
worker == <<wpc, wpending, wbatch, wseen, wall, wgone, classify>>
vars == <<rows, priority, worker, call, sent, redo>>

VideoStatus == {"pending", "processing", "completed", "failed"}
InTransaction == {"publish", "translate", "save", "commit"}
HoldsRows == {"source", "mark", "reload", "fail"}
WorkerPc == {"off", "prepare", "source", "closing", "select", "pick", "load", "mark", "reload",
             "fail", "report", "drain"} \cup InTransaction
CallPc == {"idle", "import", "reopen", "enqueue", "seek", "retryVideo", "retryMark",
           "retryLocked", "retryQueue", "cascade"}

(* What a request keeps over its awaits: the index it is about, the status *)
(* of the video object it loaded, and whether those rows are gone.         *)
Call == [pc : CallPc, arg : Int, seen : VideoStatus, gone : BOOLEAN]
Idle == [pc |-> "idle", arg |-> 0, seen |-> "pending", gone |-> FALSE]

(* Types of the rows, the list, the worker and the calls. *)
TypeOK ==
  /\ video \in VideoStatus \cup {"none"}
  /\ batch \in [Batch -> {"none", "pending", "completed", "failed"}]
  /\ lines \in [Batch -> {"none", "raw", "processed", "failed"}]
  /\ priority \in Seq(Int)
  /\ wpc \in WorkerPc
  /\ wpending \in SUBSET Batch
  /\ wbatch \in Batch
  /\ wseen \in VideoStatus
  /\ wall \in BOOLEAN
  /\ wgone \in BOOLEAN
  /\ classify \in BOOLEAN
  /\ call \in [Callers -> Call]
  /\ sent \in 0 .. MaxCalls
  /\ redo \in SUBSET Batch

Init ==
  /\ video = "none"
  /\ batch = [i \in Batch |-> "none"]
  /\ lines = [i \in Batch |-> "none"]
  /\ priority = <<>>
  /\ wpc = "off"
  /\ wpending = {}
  /\ wbatch = 0
  /\ wseen = "pending"
  /\ wall = FALSE
  /\ wgone = FALSE
  /\ classify = FALSE
  /\ call = [c \in Callers |-> Idle]
  /\ sent = 0
  /\ redo = {}

-----------------------------------------------------------------------------
(* Rows and their locks *)

Split == \E i \in Batch : batch[i] # "none"
AllCompleted == \A i \in Batch : batch[i] = "completed"
AllProcessed == \A i \in Batch : lines[i] = "processed"

(* An open transaction of a retry or of a delete has updated the video row. *)
VideoRowFree == \A c \in Callers : call[c].pc \notin {"retryLocked", "cascade"}

(* process_batch flushes "processing" before it translates and commits at  *)
(* the end: the row and its lines stay locked over every await in between. *)
(* Mutant: each statement of process_batch commits on its own.             *)
BatchRowAlwaysFree(i) == TRUE
BatchRowFree(i) == ~(wpc \in InTransaction /\ wbatch = i)

(* Some call holds the video row and waits for the rows of batch i. *)
WaitsForBatch(i) == \E c \in Callers : call[c].pc = "cascade" \/ (call[c].pc = "retryLocked" /\ call[c].arg = i)

(* _maybe_complete_video writes the status only if it changes the loaded one. *)
CompletesVideo == wall /\ wseen # "completed"

CreateMissing(b) == [i \in Batch |-> IF b[i] = "none" THEN "pending" ELSE b[i]]

-----------------------------------------------------------------------------
(* The queue's memory *)

(* Mutant: the seek does not look whether the batch is listed already. *)
AppendAlways(p, i) == Append(p, i)
AddToWindow(p, i) == IF \E k \in DOMAIN p : p[k] = i THEN p ELSE Append(p, i)

AppendWindow(p, i) == AddToWindow(AddToWindow(AddToWindow(p, i), i + 1), i + 2)

InsertFirst(p, i) == IF \E k \in DOMAIN p : p[k] = i THEN p ELSE <<i>> \o p

Least(S) == CHOOSE i \in S : \A j \in S : i <= j

(* order[0] of prioritized_batch_order. *)
(* Mutant: the list is not filtered by what is pending. *)
FirstListed(pending, p) == IF p = <<>> THEN Least(pending) ELSE p[1]
FirstInOrder(pending, p) ==
  LET listed == {k \in 1 .. Len(p) : p[k] \in pending}
  IN  IF listed = {} THEN Least(pending) ELSE p[Least(listed)]

(* A set of naturals as a sequence: the j-th is the one with j up to it. *)
InOrder(S) == [j \in 1 .. Cardinality(S) |-> CHOOSE i \in S : Cardinality({k \in S : k <= i}) = j]

(* _next_batch forgets every listed batch that is pending, not only the one it returns. *)
ForgetListed(p, pending) ==
  LET kept == InOrder({k \in DOMAIN p : p[k] \notin pending})
  IN  [j \in DOMAIN kept |-> p[kept[j]]]

(* A worker task is created unless one exists that is not done. *)
EnqueueVideo(p) ==
  /\ priority' = p
  /\ wpc' = IF wpc = "off" THEN "prepare" ELSE wpc
  /\ UNCHANGED <<wpending, wbatch, wseen, wall, wgone, classify>>

-----------------------------------------------------------------------------
(* API calls *)

Goto(c, step) == call' = [call EXCEPT ![c].pc = step] /\ UNCHANGED sent
Return(c) == call' = [call EXCEPT ![c] = Idle] /\ UNCHANGED sent

(* A request arrives and has read its first rows. *)
Begin(c, op, step, i, status) ==
  /\ call[c].pc = "idle"
  /\ op \in Ops
  /\ sent < MaxCalls
  /\ sent' = sent + 1
  /\ call' = [call EXCEPT ![c] = [pc |-> step, arg |-> i, seen |-> status, gone |-> FALSE]]

(* POST /process: upsert of the video row, committed *)
ProcessVideo(c) ==
  /\ VideoRowFree
  /\ video' = IF video = "none" THEN "pending" ELSE video
  /\ Begin(c, "process", "import", 0, video')
  /\ UNCHANGED <<batch, lines, priority, worker, redo>>

(* All the lines are processed, or Redis holds subtitles of the video: they *)
(* may be partial, or those of an earlier import of it that was deleted.   *)
ImportKnown(c) ==
  /\ call[c].pc = "import"
  /\ Goto(c, "enqueue")
  /\ UNCHANGED <<rows, priority, worker, redo>>

ImportUnfinished(c) ==
  /\ call[c].pc = "import"
  /\ ~AllProcessed
  /\ Goto(c, "reopen")
  /\ UNCHANGED <<rows, priority, worker, redo>>

(* set_processing_status(video, "processing") and commit.  The session     *)
(* writes only what differs from the object it loaded; an update of a      *)
(* deleted row raises.                                                     *)
ReopenVideo(c) ==
  /\ call[c].pc = "reopen"
  /\ \/ call[c].seen = "processing" /\ Goto(c, "enqueue") /\ UNCHANGED video
     \/ call[c].seen # "processing" /\ call[c].gone /\ Return(c) /\ UNCHANGED video
     \/ /\ call[c].seen # "processing" /\ ~call[c].gone
        /\ VideoRowFree
        /\ video' = "processing"
        /\ call' = [call EXCEPT ![c].pc = "enqueue", ![c].seen = "processing"]
        /\ UNCHANGED sent
  /\ UNCHANGED <<batch, lines, priority, worker, redo>>

(* The status reported is "completed" when every batch is. *)
ReportedCompleted(c) == call[c].seen = "completed" \/ (AllCompleted /\ ~call[c].gone)

ImportEnqueue(c) ==
  /\ call[c].pc = "enqueue"
  /\ Return(c)
  /\ IF ReportedCompleted(c) THEN UNCHANGED <<priority, worker>> ELSE EnqueueVideo(priority)
  /\ UNCHANGED <<rows, redo>>

(* POST /playback-position: the batch under the playback time is read ... *)
PlaybackPosition(c, i) ==
  /\ batch[i] # "none"
  /\ Begin(c, "playback", "seek", i, "pending")
  /\ UNCHANGED <<rows, priority, worker, redo>>

(* ... and it and the next two are listed. *)
PrioritizeBatch(c) ==
  /\ call[c].pc = "seek"
  /\ EnqueueVideo(AppendWindow(priority, call[c].arg))
  /\ Return(c)
  /\ UNCHANGED <<rows, redo>>

(* POST /batches/{i}/retry, for any integer: the video is loaded. *)
RetryBatch(c, i) ==
  /\ video # "none"
  /\ Begin(c, "retry", "retryVideo", i, video)
  /\ UNCHANGED <<rows, priority, worker, redo>>

(* Its status is flushed: no update at all if it was loaded as processing. *)
RetryVideo(c) ==
  /\ call[c].pc = "retryVideo"
  /\ \/ call[c].seen = "processing" /\ Goto(c, "retryMark")
     \/ call[c].seen # "processing" /\ call[c].gone /\ Return(c)
     \/ call[c].seen # "processing" /\ ~call[c].gone /\ VideoRowFree /\ Goto(c, "retryLocked")
  /\ UNCHANGED <<rows, priority, worker, redo>>

(* The row mark_status finds: of a batch that exists, of this video. *)
(* Mutants: the row is created when it is missing; the update is not *)
(* restricted to the batch.                                          *)
RetriedOrCreated(c) == IF call[c].gone THEN {} ELSE {i \in Batch : i = call[c].arg}
RetriedOfVideo(c) == IF call[c].gone THEN {} ELSE {i \in Batch : batch[i] # "none"}
RetriedRows(c) == IF call[c].gone THEN {} ELSE {i \in Batch : i = call[c].arg /\ batch[i] # "none"}

(* mark_status(video, i, "pending") whatever it was, and commit *)
RetryMark(c) ==
  /\ call[c].pc \in {"retryMark", "retryLocked"}
  /\ call[c].arg \in Column
  /\ \A i \in RetriedRows(c) : BatchRowFree(i)
  /\ batch' = [i \in Batch |-> IF i \in RetriedRows(c) THEN "pending" ELSE batch[i]]
  /\ video' = IF call[c].pc = "retryLocked" THEN "processing" ELSE video
  /\ redo' = redo \cup RetriedRows(c)
  /\ Goto(c, "retryQueue")
  /\ UNCHANGED <<lines, priority, worker>>

(* The driver has no encoding for an index that the column cannot hold: the *)
(* update raises before it is sent, and the transaction rolls back.         *)
RetryRefused(c) ==
  /\ call[c].pc \in {"retryMark", "retryLocked"}
  /\ call[c].arg \notin Column
  /\ Return(c)
  /\ UNCHANGED <<rows, priority, worker, redo>>

(* Whatever the column can hold is listed, of a batch that exists or not. *)
RetryQueue(c) ==
  /\ call[c].pc = "retryQueue"
  /\ EnqueueVideo(InsertFirst(priority, call[c].arg))
  /\ Return(c)
  /\ UNCHANGED <<rows, redo>>

(* DELETE /{video_id}: one statement of the Go API, which locks the video  *)
(* row and then cascades to the batches and lines.                         *)
DeleteVideo(c) ==
  /\ video # "none"
  /\ VideoRowFree
  /\ Begin(c, "delete", "cascade", 0, video)
  /\ UNCHANGED <<rows, priority, worker, redo>>

DeleteCascade(c) ==
  /\ call[c].pc = "cascade"
  /\ \A i \in Batch : BatchRowFree(i)
  /\ video' = "none"
  /\ batch' = [i \in Batch |-> "none"]
  /\ lines' = [i \in Batch |-> "none"]
  /\ wgone' = (wpc \in HoldsRows)
  /\ call' = [d \in Callers |-> IF d = c \/ call[d].pc = "idle" THEN Idle
                                ELSE [call[d] EXCEPT !.gone = TRUE]]
  /\ redo' = {}
  /\ UNCHANGED <<sent, priority, wpc, wpending, wbatch, wseen, wall, classify>>

(* The client goes away, or PostgreSQL picks the statement as a deadlock victim. *)
DeleteCancelled(c) ==
  /\ call[c].pc = "cascade"
  /\ Return(c)
  /\ UNCHANGED <<rows, priority, worker, redo>>

(* A retry is the victim when the worker waits for the video row in a      *)
(* transaction that has updated the batch the retry waits for.             *)
RetryAborted(c) ==
  /\ call[c].pc = "retryLocked"
  /\ call[c].arg = wbatch
  /\ wpc = "fail" \/ (wpc = "commit" /\ CompletesVideo)
  /\ Return(c)
  /\ UNCHANGED <<rows, priority, worker, redo>>

-----------------------------------------------------------------------------
(* The worker task *)

Step(from, to) == wpc = from /\ wpc' = to

(* A step that changes nothing but the worker's place in its code *)
Moves(from, to) ==
  /\ Step(from, to)
  /\ UNCHANGED <<rows, priority, wpending, wbatch, wseen, wall, wgone, classify, call, sent, redo>>

(* prepare_video_content: no video row *)
PrepareMissing == video = "none" /\ Moves("prepare", "closing")

(* prepare_video_content: the lines are there.  Missing batches are        *)
(* created; batches that failed stay failed.                               *)
PrepareKnown ==
  /\ video # "none"
  /\ Split
  /\ Step("prepare", "select")
  /\ batch' = IF AllProcessed THEN batch ELSE CreateMissing(batch)
  /\ classify' = TRUE
  /\ UNCHANGED <<video, lines, priority, wpending, wbatch, wseen, wall, wgone, call, sent, redo>>

(* prepare_video_content: nothing is there yet, captions are fetched or the *)
(* audio transcribed.                                                       *)
PrepareSource ==
  /\ video # "none"
  /\ ~Split
  /\ VideoRowFree
  /\ Step("prepare", "source")
  /\ wgone' = FALSE
  /\ UNCHANGED <<rows, priority, wpending, wbatch, wseen, wall, classify, call, sent, redo>>

SourceReady ==
  /\ ~wgone
  /\ VideoRowFree
  /\ Step("source", "select")
  /\ batch' = CreateMissing(batch)
  /\ lines' = [i \in Batch |-> "raw"]
  /\ classify' = TRUE
  /\ UNCHANGED <<video, priority, wpending, wbatch, wseen, wall, wgone, call, sent, redo>>

(* What the except block of prepare_video_content leaves in the rows: it    *)
(* reads `exc`, which nothing binds, after it has set the status "failed"   *)
(* and before it commits, so the session is closed with nothing written.    *)
PreparationFailed == UNCHANGED rows

(* No captions and no transcript, or the rows are deleted during the fetch. *)
SourceUnavailable ==
  /\ wgone \/ "no_source" \in Ops
  /\ Step("source", "closing")
  /\ PreparationFailed
  /\ UNCHANGED <<priority, wpending, wbatch, wseen, wall, wgone, classify, call, sent, redo>>

(* The worker returns; until its session is closed the task is not done.   *)
CloseWorker == Moves("closing", "off")

(* What _next_batch takes for work.  Mutants: once batches are listed only *)
(* those are looked at; failed batches are taken up again.                 *)
PendingListed == {i \in Batch : batch[i] = "pending" /\ (priority = <<>> \/ \E k \in DOMAIN priority : priority[k] = i)}
PendingOrFailed == {i \in Batch : batch[i] \in {"pending", "failed"}}
PendingBatches == {i \in Batch : batch[i] = "pending"}

(* _next_batch reads the pending set ... *)
NextBatch ==
  /\ wpc = "select"
  /\ wpending' = PendingBatches
  /\ wpc' = IF wpending' = {} THEN "report" ELSE "pick"
  /\ UNCHANGED <<rows, priority, wbatch, wseen, wall, wgone, classify, call, sent, redo>>

(* ... and, once its session is closed, picks from it. *)
PickBatch ==
  /\ Step("pick", "load")
  /\ wbatch' = FirstInOrder(wpending, priority)
  /\ priority' = ForgetListed(priority, wpending)
  /\ wpending' = {}
  /\ UNCHANGED <<rows, wseen, wall, wgone, classify, call, sent, redo>>

(* process_batch loads the rows: it raises when they are gone and returns  *)
(* the stored lines when the batch is completed.                           *)
LoadBatch ==
  /\ wpc = "load"
  /\ IF batch[wbatch] \in {"none", "completed"}
       THEN wpc' = "select" /\ UNCHANGED <<wseen, wgone>>
       ELSE wpc' = "mark" /\ wseen' = video /\ wgone' = FALSE
  /\ UNCHANGED <<rows, priority, wpending, wbatch, wall, classify, call, sent, redo>>

(* mark_status(..., "processing"), flushed and not committed *)
MarkProcessing ==
  /\ wpc = "mark"
  /\ IF wgone
       THEN wpc' = "select" /\ UNCHANGED redo
       ELSE wpc' = "publish" /\ redo' = redo \ {wbatch}
  /\ UNCHANGED <<rows, priority, wpending, wbatch, wseen, wall, wgone, classify, call, sent>>

(* publish_batch_progress persists the phase through a session of its own, *)
(* while the transaction of process_batch stays open.                      *)
PublishBatchProgress == VideoRowFree /\ Moves("publish", "translate")

(* The lines are translated and analysed, or the provider raises. *)
TranslateBatch == Moves("translate", "save")
TranslateFails == Moves("translate", "fail")

(* _maybe_complete_video has just marked this batch completed itself. *)
(* Mutant: a failed batch counts as done.                             *)
OthersDone == \A i \in Batch \ {wbatch} : batch[i] # "pending"
OthersCompleted == \A i \in Batch \ {wbatch} : batch[i] = "completed"

(* The last progress report, update_processed_batch, and the read of *)
(* _maybe_complete_video.                                            *)
SaveBatch ==
  /\ VideoRowFree
  /\ Step("save", "commit")
  /\ wall' = OthersCompleted
  /\ UNCHANGED <<rows, priority, wpending, wbatch, wseen, wgone, classify, call, sent, redo>>

CommitBatch ==
  /\ CompletesVideo => VideoRowFree
  /\ Step("commit", "reload")
  /\ batch' = [batch EXCEPT ![wbatch] = "completed"]
  /\ lines' = [lines EXCEPT ![wbatch] = "processed"]
  /\ video' = IF CompletesVideo THEN "completed" ELSE video
  /\ wall' = FALSE
  /\ UNCHANGED <<priority, wpending, wbatch, wseen, wgone, classify, call, sent, redo>>

(* A call holds the video row and waits for this batch: PostgreSQL aborts  *)
(* one of the two.                                                         *)
CommitAborted ==
  /\ CompletesVideo
  /\ WaitsForBatch(wbatch)
  /\ Step("commit", "fail")
  /\ wall' = FALSE
  /\ UNCHANGED <<rows, priority, wpending, wbatch, wseen, wgone, classify, call, sent, redo>>

(* After the commit the rows are read again for the event. *)
ReloadBatch == Moves("reload", "select")

ReloadFails == "reload_error" \in Ops /\ Moves("reload", "fail")

(* The except block of process_batch: after the rollback released the locks *)
(* a second transaction marks the batch, its lines and the video failed.    *)
MarkFailed ==
  /\ VideoRowFree
  /\ Step("fail", "select")
  /\ IF wgone
       THEN UNCHANGED rows
       ELSE /\ batch' = [batch EXCEPT ![wbatch] = "failed"]
            /\ lines' = [lines EXCEPT ![wbatch] = "failed"]
            /\ video' = "failed"
  /\ UNCHANGED <<priority, wpending, wbatch, wseen, wall, wgone, classify, call, sent, redo>>

(* That transaction is the victim of a deadlock with a delete or a retry. *)
MarkFailedAborted == WaitsForBatch(wbatch) /\ Moves("fail", "select")

(* No batch was pending: the progress is read and published ... *)
ReportProgress == Moves("report", "drain")

(* ... and the task ends when the classification it started has ended. *)
DrainWorker == ~classify /\ Moves("drain", "off")

ClassifyTopics ==
  /\ classify
  /\ classify' = FALSE
  /\ UNCHANGED <<rows, priority, wpc, wpending, wbatch, wseen, wall, wgone, call, sent, redo>>

(* The Python process restarts: tasks, requests and memory are lost, open  *)
(* transactions roll back, and nothing enqueues the videos left pending.   *)
(* A DELETE runs in the Go process and survives.                           *)
Restart ==
  /\ "restart" \in Ops
  /\ priority' = <<>>
  /\ wpc' = "off"
  /\ wpending' = {}
  /\ wall' = FALSE
  /\ classify' = FALSE
  /\ call' = [c \in Callers |-> IF call[c].pc = "cascade" THEN call[c] ELSE Idle]
  /\ UNCHANGED <<rows, wbatch, wseen, wgone, sent, redo>>

-----------------------------------------------------------------------------
(* The system *)

WorkerStep ==
  \/ PrepareMissing \/ PrepareKnown \/ PrepareSource \/ SourceReady \/ SourceUnavailable
  \/ CloseWorker \/ NextBatch \/ PickBatch \/ LoadBatch \/ MarkProcessing
  \/ PublishBatchProgress \/ TranslateBatch \/ TranslateFails
  \/ SaveBatch \/ CommitBatch \/ CommitAborted
  \/ ReloadBatch \/ ReloadFails \/ MarkFailed \/ MarkFailedAborted
  \/ ReportProgress \/ DrainWorker

CallBegins(c) ==
  \/ ProcessVideo(c)
  \/ \E i \in Batch : PlaybackPosition(c, i)
  \/ \E i \in Retried : RetryBatch(c, i)
  \/ DeleteVideo(c)

CallStep(c) ==
  \/ ImportKnown(c) \/ ImportUnfinished(c) \/ ReopenVideo(c) \/ ImportEnqueue(c)
  \/ PrioritizeBatch(c)
  \/ RetryVideo(c) \/ RetryMark(c) \/ RetryRefused(c) \/ RetryQueue(c)
  \/ DeleteCascade(c)

Next ==
  \/ WorkerStep
  \/ ClassifyTopics
  \/ \E c \in Callers : CallBegins(c) \/ CallStep(c) \/ DeleteCancelled(c) \/ RetryAborted(c)
  \/ Restart

Spec == Init /\ [][Next]_vars

(* Every task the process has started, and every call it has accepted, is  *)
(* run again when what it waits for is there: asyncio resumes it, the      *)
(* network calls have timeouts.  Row locks are granted in the order they   *)
(* were asked for, so a call gets rows that are freed again and again.     *)
(* Nothing makes a client send or cancel a request.                        *)
Fairness ==
  /\ WF_vars(WorkerStep)
  /\ WF_vars(ClassifyTopics)
  /\ \A c \in Callers : SF_vars(CallStep(c))

FairSpec == Spec /\ Fairness

-----------------------------------------------------------------------------
(* Properties *)

(* The in-memory list never holds an index twice, whatever order the seeks, *)
(* the retries, which may name any integer, and the picks come in.          *)
PriorityOK == \A k, l \in DOMAIN priority : priority[k] = priority[l] => k = l

(* The lines of a batch tell the same story as its row: they exist         *)
(* together, a completed batch has processed lines, a failed one has       *)
(* failed lines.  The two tables are written by prepare_video_content,     *)
(* process_batch, its except block, retry_batch and the cascade.           *)
LinesFollowBatches ==
  \A i \in Batch :
    /\ batch[i] = "none" <=> lines[i] = "none"
    /\ batch[i] = "completed" => lines[i] = "processed"
    /\ batch[i] = "failed" => lines[i] = "failed"

(* A video listed as completed has no failed and no missing batch.  Retries *)
(* and repeated imports that commit between the read of                     *)
(* _maybe_complete_video and its commit may leave one pending, never more.  *)
CompletedVideoHasNoFailure ==
  video = "completed" => \A i \in Batch : batch[i] \in {"completed", "pending"}

(* A batch is never reported completed by work that began before its last  *)
(* retry was committed: the retry waits for the worker's transaction.      *)
RetryIsRedone == \A i \in redo : batch[i] \in {"pending", "failed"}

(* The commits of the worker and of the calls implement the ledger. *)
Ledger == INSTANCE BatchLedger WITH Batch <- Batch, video <- video, batch <- batch

ImplementsLedger == Ledger!Spec

(* Every batch that is pending is processed, fails or is deleted. *)
EveryBatchSettles == \A i \in Batch : batch[i] = "pending" ~> batch[i] # "pending"

(* A worker never outlives its work. *)
WorkerEnds == wpc # "off" ~> wpc = "off"

(* README, system flow 9: a seek has the batch at that time and the next   *)
(* two processed before the others.  So a pick keeps the other listed      *)
(* batches that are still pending.                                         *)
Listed(p) == {p[k] : k \in DOMAIN p}

PickKeepsTheOthers == (Listed(priority) \cap wpending) \ {wbatch'} \subseteq Listed(priority')

SeekWindowFirst == [][wpc = "pick" /\ wpc' = "load" => PickKeepsTheOthers]_vars

(* An import that is under way ends as completed or failed. *)
ImportSettles == video = "processing" ~> video # "processing"
=============================================================================
