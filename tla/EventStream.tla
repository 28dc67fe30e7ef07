---------------------------- MODULE EventStream ----------------------------
(***************************************************************************)
(* Who hears of the worker's progress: SubtitleEventBroker, the two event  *)
(* streams of api/videos.py and the watch page that reads one of them.     *)
(* The worker of SubtitleQueue publishes as it moves.  A stream reads the  *)
(* rows first and subscribes to the broker afterwards.                     *)
(***************************************************************************)
EXTENDS SubtitleQueue

CONSTANTS
  Viewers,    \* open watch pages, readers of /subtitles/stream
  Observers,  \* readers of /processing-stream
  MaxTries,   \* how often /processing-stream looks for the video; 30 in the code
  MaxReaders  \* bound: the number of pages and streams that are opened

ASSUME StreamAssumption == MaxTries \in Nat \ {0} /\ MaxReaders \in Nat

VARIABLES
  page,     \* per viewer: where the page and its stream are
  seen,     \* per viewer: the stream read a completed progress
  inbox,    \* per viewer: events sent and not handled yet
  shown,    \* per viewer: which attempt at a batch the page shows, 0 for none
  opc,      \* per observer: where its stream is
  tries,    \* per observer: how often it has looked for the video
  \* auxiliary
  attempt,  \* how often a batch has been completed
  missed,   \* per viewer: batches published between its reads and its
            \* subscription, or completed and never published, and not
            \* published since
  taken     \* batches that were completed and then were not: retried, failed
            \* after their commit, or deleted

stream == <<page, seen, inbox, shown, opc, tries, attempt, missed, taken>>
pages == <<page, seen, inbox, shown, missed>>
observers == <<opc, tries>>
history == <<attempt, taken>>

Event(name, i, a) == [event |-> name, batch |-> i, attempt |-> a]
Completed == Event("processing_completed", 0, 0)
Failed == Event("processing_failed", 0, 0)
BatchEvent(i) == Event("subtitle_batch", i, attempt[i])
Events == {Completed, Failed} \cup [event : {"subtitle_batch"}, batch : Batch, attempt : Nat \ {0}]

(* Between its reads and its subscription a stream hears nothing. *)
Reading == {"progress", "snapshot"}
Connected == Reading \cup {"listening", "ended"}
PageState == {"closed", "error", "connect", "lost", "done"} \cup Connected

(* Types.  A stream looks for the video MaxTries times at most.  *)
StreamTypeOK ==
  /\ page \in [Viewers -> PageState]
  /\ seen \in [Viewers -> BOOLEAN]
  /\ inbox \in [Viewers -> Seq(Events)]
  /\ shown \in [Viewers -> [Batch -> Nat]]
  /\ opc \in [Observers -> {"off", "polling", "snapshot", "listening", "ended"}]
  /\ tries \in [Observers -> 0 .. MaxTries]
  /\ attempt \in [Batch -> Nat]
  /\ missed \in [Viewers -> SUBSET Batch]
  /\ taken \in SUBSET Batch

StreamInit ==
  /\ Init
  /\ page = [v \in Viewers |-> "closed"]
  /\ seen = [v \in Viewers |-> FALSE]
  /\ inbox = [v \in Viewers |-> <<>>]
  /\ shown = [v \in Viewers |-> [i \in Batch |-> 0]]
  /\ opc = [o \in Observers |-> "off"]
  /\ tries = [o \in Observers |-> 0]
  /\ attempt = [i \in Batch |-> 0]
  /\ missed = [v \in Viewers |-> {}]
  /\ taken = {}

-----------------------------------------------------------------------------
(* What the worker publishes, read off its moves *)

Moved(from, to) == wpc \in from /\ wpc' = to

(* progress_for_video *)
VideoFinished == video = "completed" \/ AllCompleted

BatchReady ==
  \/ Moved({"reload"}, "select")
  \/ Moved({"load"}, "select") /\ batch[wbatch] = "completed"

(* The preparation or a batch raised; a batch that is ready and whose video *)
(* is gone raises when the progress is read after it.                      *)
WorkRaised ==
  \/ Moved({"prepare", "source"}, "closing")
  \/ Moved({"mark", "fail"}, "select")
  \/ Moved({"load"}, "select") /\ batch[wbatch] = "none"
  \/ Moved({"reload"}, "select") /\ video = "none"

WorkCompleted == Moved({"report"}, "drain") /\ VideoFinished

(* processing_started, processing_progress and heartbeat only change what  *)
(* is displayed.                                                           *)
Published ==
  (IF BatchReady THEN <<BatchEvent(wbatch)>> ELSE <<>>)
  \o (IF WorkRaised THEN <<Failed>> ELSE <<>>)
  \o (IF WorkCompleted THEN <<Completed>> ELSE <<>>)

(* A batch whose lines could not be read again after the commit *)
Unpublished == IF Moved({"reload"}, "fail") THEN {wbatch} ELSE {}

(* What ends /processing-stream: one failed batch does. *)
(* Mutant: the stream only looks for failures.          *)
FailureOnly == {Failed}
Terminal == {Completed, Failed}

(* put() on the queue of every subscriber; a stream that reads its         *)
(* snapshot is not subscribed yet.                                         *)
Broadcast ==
  LET new == Published
      heard == {new[k] : k \in DOMAIN new}
      batches == {e.batch : e \in {f \in heard : f.event = "subtitle_batch"}}
  IN  /\ inbox' = [v \in Viewers |-> IF page[v] = "listening" THEN inbox[v] \o new ELSE inbox[v]]
      /\ missed' = [v \in Viewers |-> IF page[v] \in Reading THEN missed[v] \cup batches \cup Unpublished
                                      ELSE IF page[v] = "listening" THEN (missed[v] \ batches) \cup Unpublished
                                      ELSE missed[v]]
      /\ opc' = [o \in Observers |->
                   IF opc[o] = "listening" /\ heard \cap Terminal # {} THEN "ended" ELSE opc[o]]
      /\ taken' = taken \cup {i \in Batch : batch[i] = "completed" /\ batch'[i] # "completed"}
      /\ attempt' = IF Moved({"commit"}, "reload") THEN [attempt EXCEPT ![wbatch] = @ + 1] ELSE attempt
      /\ UNCHANGED <<page, seen, shown, tries>>

(* Every step of the queue but a restart publishes what it has to. *)
QueueStep ==
  /\ \/ WorkerStep
     \/ ClassifyTopics
     \/ \E c \in Callers : CallBegins(c) \/ CallStep(c) \/ DeleteCancelled(c) \/ RetryAborted(c)
  /\ Broadcast

(* A restart breaks every connection.  The browser connects again unless   *)
(* it is answered with an error meanwhile.                                 *)
RestartStreams ==
  /\ Restart
  /\ \E lost \in SUBSET {v \in Viewers : page[v] \in Connected \cup {"connect"}} :
       page' = [v \in Viewers |-> IF v \in lost THEN "lost"
                                  ELSE IF page[v] \in Connected THEN "connect" ELSE page[v]]
  /\ inbox' = [v \in Viewers |-> <<>>]
  /\ missed' = [v \in Viewers |-> IF page[v] \in Connected THEN {} ELSE missed[v]]
  /\ opc' = [o \in Observers |-> IF opc[o] = "ended" THEN "ended" ELSE "off"]
  /\ tries' = [o \in Observers |-> 0]
  /\ UNCHANGED <<seen, shown, history>>

-----------------------------------------------------------------------------
(* The watch page *)

(* Readers have nothing to do with each other: a few at a time are enough. *)
MayOpen ==
  Cardinality({v \in Viewers : page[v] # "closed"}) + Cardinality({o \in Observers : opc[o] # "off"}) < MaxReaders

(* getRawSubtitles, once: without lines the page shows an error, with all  *)
(* lines processed it needs no stream.                                     *)
OpenPage(v) ==
  /\ page[v] = "closed"
  /\ MayOpen
  /\ page' = [page EXCEPT ![v] = IF \A i \in Batch : lines[i] = "none" THEN "error"
                                 ELSE IF AllProcessed THEN "done" ELSE "connect"]
  /\ shown' = [shown EXCEPT ![v] = [i \in Batch |-> IF lines[i] = "processed" THEN attempt[i] ELSE 0]]
  /\ UNCHANGED <<vars, seen, inbox, missed, observers, history>>

(* GET /subtitles/stream reads the progress.  A stream without a video     *)
(* ends at once and the browser connects again.                            *)
ReadProgress(v) ==
  /\ page[v] = "connect"
  /\ video # "none"
  /\ page' = [page EXCEPT ![v] = "progress"]
  /\ seen' = [seen EXCEPT ![v] = VideoFinished]
  /\ UNCHANGED <<vars, inbox, shown, missed, observers, history>>

(* The completed batches in order, as events.  Mutant: those of a finished *)
(* video are not sent again.                                               *)
ReplayUnlessFinished(v) ==
  LET done == InOrder({i \in Batch : batch[i] = "completed" /\ ~seen[v]})
  IN  [k \in DOMAIN done |-> BatchEvent(done[k])]
CompletedBatchEvents(v) ==
  LET done == InOrder({i \in Batch : batch[i] = "completed"})
  IN  [k \in DOMAIN done |-> BatchEvent(done[k])]

(* ... then the completed batches; the stream ends if the progress was     *)
(* completed.  What was published since the progress is among them.        *)
ReadBatches(v) ==
  /\ page[v] = "progress"
  /\ page' = [page EXCEPT ![v] = IF seen[v] THEN "ended" ELSE "snapshot"]
  /\ inbox' = [inbox EXCEPT ![v] = CompletedBatchEvents(v) \o (IF seen[v] THEN <<Completed>> ELSE <<>>)]
  /\ seen' = [seen EXCEPT ![v] = FALSE]
  /\ missed' = [missed EXCEPT ![v] = {}]
  /\ UNCHANGED <<vars, shown, observers, history>>

(* The snapshot has been sent; only now the stream subscribes. *)
Subscribe(v) ==
  /\ page[v] = "snapshot"
  /\ page' = [page EXCEPT ![v] = "listening"]
  /\ UNCHANGED <<vars, seen, inbox, shown, missed, observers, history>>

(* mergeSubtitleBatch replaces the lines of the batch that has arrived.  *)
(* Mutant: lines the page has are kept.                                  *)
KeepShown(s, e) == IF s[e.batch] = 0 THEN [s EXCEPT ![e.batch] = e.attempt] ELSE s
MergeSubtitleBatch(s, e) == [s EXCEPT ![e.batch] = e.attempt]

(* The page handles one event; a failure is shown as an error only.  *)
HandleEvent(v) ==
  /\ inbox[v] # <<>>
  /\ LET e == Head(inbox[v])
     IN  IF e = Completed
           THEN /\ page' = [page EXCEPT ![v] = "done"]
                /\ inbox' = [inbox EXCEPT ![v] = <<>>]
                /\ UNCHANGED shown
           ELSE /\ inbox' = [inbox EXCEPT ![v] = Tail(@)]
                /\ shown' = IF e = Failed THEN shown
                            ELSE [shown EXCEPT ![v] = MergeSubtitleBatch(@, e)]
                /\ UNCHANGED page
  /\ UNCHANGED <<vars, seen, missed, observers, history>>

(* The connection breaks and the browser connects again. *)
Reconnect(v) ==
  /\ page[v] \in Connected
  /\ page' = [page EXCEPT ![v] = "connect"]
  /\ inbox' = [inbox EXCEPT ![v] = <<>>]
  /\ missed' = [missed EXCEPT ![v] = {}]
  /\ UNCHANGED <<vars, seen, shown, observers, history>>

-----------------------------------------------------------------------------
(* GET /processing-stream *)

OpenProcessingStream(o) ==
  /\ opc[o] = "off"
  /\ MayOpen
  /\ opc' = [opc EXCEPT ![o] = "polling"]
  /\ UNCHANGED <<vars, pages, tries, history>>

(* Mutant: the stream looks once too often. *)
TriesNotExceeded(n) == n <= MaxTries
TriesLeft(n) == n < MaxTries

(* One of the looks for the video, a second apart; once it is there the    *)
(* stream ends for a video that is completed or failed.                    *)
PollProgress(o) ==
  /\ opc[o] = "polling"
  /\ TriesLeft(tries[o])
  /\ tries' = [tries EXCEPT ![o] = @ + 1]
  /\ opc' = [opc EXCEPT ![o] = IF video = "none" THEN "polling"
                              ELSE IF VideoFinished \/ video = "failed" THEN "ended" ELSE "snapshot"]
  /\ UNCHANGED <<vars, pages, history>>

(* After the last look and its second of sleep the video may be there: the *)
(* stream does not look again.                                             *)
GiveUp(o) ==
  /\ opc[o] = "polling"
  /\ ~TriesLeft(tries[o])
  /\ opc' = [opc EXCEPT ![o] = "ended"]
  /\ UNCHANGED <<vars, pages, tries, history>>

(* The looks are over: their number is of no use any more. *)
ObserverSubscribes(o) ==
  /\ opc[o] = "snapshot"
  /\ opc' = [opc EXCEPT ![o] = "listening"]
  /\ tries' = [tries EXCEPT ![o] = 0]
  /\ UNCHANGED <<vars, pages, history>>

-----------------------------------------------------------------------------
ViewerStep(v) == ReadProgress(v) \/ ReadBatches(v) \/ Subscribe(v) \/ HandleEvent(v)
ObserverStep(o) == PollProgress(o) \/ GiveUp(o) \/ ObserverSubscribes(o)

StreamNext ==
  \/ QueueStep
  \/ RestartStreams
  \/ \E v \in Viewers : OpenPage(v) \/ ViewerStep(v) \/ Reconnect(v)
  \/ \E o \in Observers : OpenProcessingStream(o) \/ ObserverStep(o)

(* The streams run in the event loop of the worker; nobody has to open a   *)
(* page, and a browser may stop reading.                                   *)
StreamFairness ==
  /\ Fairness
  /\ \A o \in Observers : WF_stream(ObserverStep(o))

StreamSpec == StreamInit /\ [][StreamNext]_<<vars, stream>> /\ StreamFairness

-----------------------------------------------------------------------------
(* Properties *)

OnItsWay(v, i) == \E k \in DOMAIN inbox[v] : inbox[v][k] = BatchEvent(i)
BeingPublished(i) == wpc = "reload" /\ wbatch = i

(* What is behind a watch page falls behind the rows only through the gap  *)
(* between the snapshot and the subscription of its stream: the latest     *)
(* lines of every completed batch are shown, on their way, about to be     *)
(* published, or were published in that gap; or the worker failed to read  *)
(* them after their commit and never published them.                       *)
StreamLosesNothing ==
  \A v \in Viewers : page[v] \in {"snapshot", "listening"} =>
    \A i \in Batch : batch[i] = "completed" =>
      shown[v][i] = attempt[i] \/ OnItsWay(v, i) \/ BeingPublished(i) \/ i \in missed[v]

(* A page that has closed its stream, or never opened one, shows processed *)
(* lines for every batch that stayed completed: the end of the stream does *)
(* not overtake the batches.  A retry may take a batch back between the    *)
(* two reads of a stream, and the video may be listed completed while it   *)
(* waits: the page then closes and keeps the raw lines.                    *)
ClosedPageIsWhole ==
  \A v \in Viewers : page[v] = "done" =>
    \A i \in Batch : shown[v][i] > 0 \/ i \in missed[v] \/ i \in taken

(* Whoever listens to a worker that still works is told of its end, unless *)
(* the worker leaves the video unfinished or stalls on a retry:            *)
(* /processing-stream has no other way to end.                             *)
Working == wpc \notin {"off", "closing", "drain"}
Stalled == wpc \in {"publish", "save"} /\ WaitsForBatch(wbatch)
ObserverEnds ==
  \A o \in Observers :
    (opc[o] = "listening" /\ Working)
      ~> (opc[o] # "listening" \/ (wpc = "off" /\ ~VideoFinished) \/ Stalled)
=============================================================================
