# Mandarin Flow in TLA+

Mandarin Flow imports YouTube videos, splits their subtitles into batches,
translates and annotates the batches one by one while the learner watches, and
keeps the learner's vocabulary and progress.  This directory holds a TLA+
specification of the parts of it whose correctness depends on the order in which
things happen: what is modelled, what TLC checks, what TLAPS proves, and what is
still to be done.  Paths below are relative to `src/`.

## 1. The system

### Components

| Component | State it keeps | Operations | Hard behaviour |
|---|---|---|---|
| Subtitle queue (`backend/app/services/subtitle_queue.py`) | per video: the priority list, the worker task, the subscribers of its events, all in the memory of one process | `enqueue_video`, `prioritize_batch`, `retry_batch`, `_worker`, `publish`/`subscribe` | requests meet the worker between any two awaits; a restart loses all of it |
| Subtitle service and repositories (`subtitle_service.py`, `backend/app/repositories/`) | rows `videos`, `subtitle_processing_batches`, `subtitles`; a Redis entry per video | `prepare_video`, `prepare_video_content`, `process_batch`, `progress_for_video` | a transaction that stays open over translations; a second session for the progress; commits followed by more fallible work |
| SSE streams (`backend/app/api/videos.py` 104-144, 177-202) | a queue per subscriber | snapshot, subscribe, forward until the end event | an event between the snapshot and the subscription; a retry between the two reads of a snapshot; an end nobody repeats |
| Agent approval (`agent_request_service.py`, `api/agent.py`, `telegram_service.py`) | rows `agent_requests` with a status and an expiry | request, notify, approve, reject, execute, resume after a restart | repeated callbacks, expiry, concurrent requests, execution that starts twice |
| Subtitle sources and providers (`youtube_*.py`, `asr_service.py`, `translation_service.py`) | the status of the cookies, in a file | captions, audio chunks, translation with splitting and retries | bounded retries, order of chunks and lines, a status file several downloads write |
| Dictionary and NLP (`dictionary_service.py`, `subtitle_nlp_service.py`, ...) | explanations in Redis and in `dictionary_enrichment_cache` | lookup, analysis of a line, places of its tokens | two lookups that miss at once; a store that fails; a word that occurs twice in a line |
| Metadata backfill (`video_metadata_backfill.py`) | rows `videos` | fill in what is missing | the row changes while the metadata is fetched |
| Guests, vocabulary, progress (`core/auth.py`, `vocabulary_service.py`, `video_progress_service.py`, `go-api/internal/httpapi/native.go`) | rows `guest_sessions`, `saved_vocabulary`, `guest_video_progress` | create a guest, save a word, save a position | the same word saved twice at once, from two programs |
| Go API (`go-api/internal/httpapi/`, `internal/store/postgres.go`) | none of its own but the rate limit counters in Redis | native routes, proxy to Python, rate limits, readiness, `DELETE` of a video | Redis or Python away; a delete under the worker's feet |
| Deployment (`scripts/`, `.github/workflows/deploy.yml`) | the running release, the previous one | deploy, roll back, restore a database | a step of several that fails |
| Frontend (`frontend/src/`) | lines received so far, state of an import, the answer shown | merge of batch events, import page, dictionary lookups | answers and events out of order |
| Configuration, schemas, migrations, presentation, notebooks | none that other parts depend on | | |

### How they interact

`POST /process` upserts the video and calls `enqueue_video`; the worker calls the
subtitle service, which writes the rows and reports progress through a callback
that writes the `videos` row in a session of its own and publishes an event to
the SSE streams.  `POST /playback-position` and `POST /batches/{i}/retry` change
the list the worker takes its batches from.  `DELETE` runs in the Go process and
meets the Python worker only through PostgreSQL's row locks.  An approved agent
request imports a video through the same queue and polls its status.  The browser
merges what the streams send it with what it loaded.

### What makes each part correct

* Queue and service: the rows always tell one story (video, batches, lines);
  a completed video has nothing failed or missing; a retry is never answered by
  the attempt before it; every pending batch is eventually processed or failed;
  the worker ends; what is sought is done first.
* Streams: a page falls behind the rows only through the gap before its
  subscription; a page that closes its stream has every batch; a stream ends.
* Approval: nothing is executed that was not approved, a finished request stays
  finished, a guest stays within the limit, an approved request finishes.
* Rate limits: no client passes more than its limit in a window, but for a bounded
  excess at its end; what happens without Redis depends on the group alone.
* Guests and vocabulary: one row per guest and word; what a guest was told is saved
  is there; a browser can reach what it saved; no guest changes another's rows; a
  word has its own meaning.
* Sources: the status of the cookies is the last verdict on them; a transcript has
  every part of the audio once and in order.
* Content of a batch: every line keeps its place through splitting, placeholders and
  local analyses; every token is found at its own letters.
* Explanations: the two stores agree.
* Backfill: metadata belongs to the row it is written to.
* Deployment: whatever step fails, the release on record is the one that runs.

## 2. Plan

| | Module | Composes / refines | State |
|---|---|---|---|
| 1 | `BatchLedger` | abstract specification of the rows of a video | done |
| 2 | `SubtitleQueue` | refines `BatchLedger` | done |
| 3 | `SubtitleQueueProofs` | proofs about `SubtitleQueue` | done |
| 4 | `RequestLifecycle` | abstract specification of the table of agent requests | done |
| 5 | `AgentRequests` | refines `RequestLifecycle` | done |
| 6 | `AgentRequestsProofs` | proofs about `AgentRequests` | done |
| 7 | `EventStream` | composes `SubtitleQueue` with the broker, both streams and the watch page | done |
| 8 | `RateLimit`, `GuestData` | the Go API; put side by side in `MCGoApi` | done |
| 9 | `AudioSource`, `BatchContent`, `TokenSpans` | what a source, a batch and a line are made of; in `MCContent` | done |
| 10 | `WordCache`, `Backfill`, `Release` | explanations, metadata, deployments; in `MCContent` | done |
| 11 | `OperationsProofs`, `WordCacheProofs` | proofs about the three modules of row 10, `Backfill` and `Release` together | done |
| 12 | `RateLimitProofs`, `GuestDataProofs` | proofs about the two modules of row 8 | done |
| 13 | `EventStreamProofs` | proofs about `EventStream`, from those about the queue | done |
| 14 | `ContentProofs` | proofs about `AudioSource`, `BatchContent` and `TokenSpans`, and about `MCContent` as a whole | done |
| 15 | abstract specifications of the limiter and of an import's content | what a client may count on, as refinements | next |

## 3. The model of the queue

### BatchLedger

Two variables, `video` (the video's status, `"none"` without a row) and `batch`
(a status per batch), and the seven commits that may change them: a first import,
a repeated import, the split into batches, a batch that succeeds, one that fails,
one that is taken back, a delete.  It says for instance that a video fails in the
commit that fails a batch, that it becomes completed only together with a batch
and only when no batch is failed, and that the batches of a video appear at once.

### SubtitleQueue

One video, its worker and the requests about it.  **One action is the code between
two awaits that reach the database, the network or another task**; within it
asyncio runs nothing else.

| State | Code |
|---|---|
| `video`, `batch`, `lines` | committed values of `videos.processing_status`, `subtitle_processing_batches.status`, `subtitles.processing_status` |
| `priority` | `VideoQueueState.priority_batches` |
| `wpc` | where the worker task is; `"off"` when there is none or `task.done()` |
| `wpending`, `wbatch`, `wseen`, `wall`, `wgone` | locals of `_next_batch`, `process_batch` and `_maybe_complete_video`: what was read and may be stale |
| `classify` | the topic classification task the worker waits for at its end |
| `call`, `sent` | the requests: step, argument, status of the video object each loaded |
| `Retried`, `Column` | constants: the integers clients name in a retry, and those the column `batch_index` can hold |
| `redo` | auxiliary: batches whose retry was committed and that were not started since |

The steps of the worker, in the order of the code:

| `wpc` | Action(s) | Code |
|---|---|---|
| `prepare` | `PrepareMissing`, `PrepareKnown`, `PrepareSource` | `prepare_video_content` |
| `source` | `SourceReady`, `SourceUnavailable` | `_retrieve_or_transcribe`, the insert of the lines and batches, the except block |
| `closing` | `CloseWorker` | the return of the worker after a failed preparation |
| `select`, `pick` | `NextBatch`, `PickBatch` | `_next_batch`: the read, then the pick in memory |
| `load`, `mark` | `LoadBatch`, `MarkProcessing` | `process_batch` until the flush of `processing` |
| `publish`, `translate` | `PublishBatchProgress`, `TranslateBatch`, `TranslateFails` | the callback with its own session, `_process_subtitle_batch` |
| `save`, `commit` | `SaveBatch`, `CommitBatch`, `CommitAborted` | `update_processed_batch`, `_maybe_complete_video`, the commit |
| `reload` | `ReloadBatch`, `ReloadFails` | the reads after the commit |
| `fail` | `MarkFailed`, `MarkFailedAborted` | the except block: rollback, then a second transaction |
| `report`, `drain` | `ReportProgress`, `DrainWorker` | the end of `_worker` |

Requests: `ProcessVideo` to `ImportEnqueue` (import), `PlaybackPosition` and
`PrioritizeBatch` (seek), `RetryBatch` to `RetryQueue`, `RetryRefused` and `RetryAborted`
(retry), `DeleteVideo`, `DeleteCascade`, `DeleteCancelled` (the Go route).  `Restart` is the
death and start of the Python process.

The route takes any integer for the batch to retry, and so does the model (`Retried`): an
index before the first batch or after the last one updates no row, is put on the list all the
same, and stays there.  One that the 32-bit column cannot hold never gets so far: the driver
has no encoding for it, the update raises, and the transaction with the change of the
video's status rolls back (`RetryRefused`).

**Row locks.**  The database runs under READ COMMITTED.  `process_batch` updates
its batch row before the translation and commits after it, so in the steps of
`InTransaction` nobody else can write that row (`BatchRowFree`).  A retry whose
flush of the video row was a real update, and a delete, hold the video row until
they end (`VideoRowFree`).  Where the lock graph has a cycle PostgreSQL aborts one
side, and both choices are actions (`CommitAborted`, `MarkFailedAborted`,
`RetryAborted`, `DeleteCancelled`).  Where one side of the cycle is a
transaction that waits in Python and not in the database there is no deadlock
to detect, and the model stops as the code does.

**Sessions.**  SQLAlchemy writes an attribute only if it differs from the object
loaded (`seen`, `wseen`): a status loaded as `processing` and set to `processing`
takes no lock and overwrites nothing.  An update of rows deleted since the load
raises (`gone`, `wgone`).

**Abstractions.**  Batches are numbered from 0 without gaps.  `_batch_definitions`
numbers them by time and leaves out windows without a line; the code only compares
and orders the numbers, so the model closes the gaps.  An index in a gap is like one
past the end: it names no batch.  The lines of a batch have one status, because
each statement that writes them writes all of them.  Phases, percentages, titles,
topics and tokens are left out: no guard of the modelled code reads them.  The
Redis entry appears only as an import that may return early (`ImportKnown`); the
worker is given `RedisCache(None)`, so it never writes there.  The status
`processing` of a batch is never committed, so committed rows do not have it.  A
progress read that is directly followed by the reads of `process_batch` is merged
with them in `LoadBatch`.

### Bounds

`NumBatches` batches, the set `Callers` of requests in flight, `MaxCalls` requests
sent in all, and `Ops`, the kinds of requests and faults that occur.  Two batches are
the fewest with "the others" to be completed or failed, and with a batch in the
worker's hands while another is sought or retried.  Clients retry the indexes -1 to 2 and
one that the column cannot hold, so the list `priority` also holds indexes before
the first batch and past the last one.  The runs about liveness and about seeks have no retries,
or only retries of batches.  Two requests in flight
are the fewest that race each other as well as the worker, and three in all allow
an import, and two more that meet it and each other: import, retry, delete; import,
delete, import; import, seek, retry.  With four requests the safety run passes as
well (9.6 million states) and with three batches so does the liveness run
(135 848 states); both are too long to be run each time.  The seek run needs three
batches: the window of a seek has three.
Deadlock is not checked because clients stop after `MaxCalls` requests, and a
system nobody asks anything of stops.

### Fairness

`FairSpec` assumes weak fairness of the worker's next step and of the classification:
asyncio resumes a task whose await is done, and the provider calls have timeouts
and so end one way or the other.  Each accepted call has strong fairness: its steps
wait for row locks, and PostgreSQL grants those in the order of request, so a call
gets a row that is freed again and again.  Nothing is assumed of clients: no fairness
of sending a request, of cancelling one, of restarts or of deadlock victims.

## 4. The model of the approval workflow

### RequestLifecycle

Two variables: the status of each request and which of `approved_at` and
`rejected_at` are set.  A request is created, approved or rejected once, and
only while it is pending; what was approved and not rejected may be run any number
of times; any request may expire, whatever became of it.

### AgentRequests

One action is the code between two awaits.  `approve`, `reject` and
`complete_cookie_export` read the row with `FOR UPDATE` and commit in the same
transaction, so each is one action; the executing task takes no such lock and is
split at every commit and every read.

| State | Code |
|---|---|
| `status`, `subject`, `guest`, `decision`, `due` | `agent_requests.status`, the video, word or cookies the payload is about (it tells the type too), `guest_id`, which of `approved_at` and `rejected_at` are set, `expires_at` passed |
| `video` | the status `progress_for_youtube_id` reports for a video |
| `dictionary` | the requests that have an entry `agent:<id>:<word>` in `normalized_dictionary_entries` |
| `task` | `execute(id)`: where it is and how often it has polled; two per request, one created by `approve`, one by `resume_agent_executions` |
| `resuming` | `resume_agent_executions` has not read the table yet |
| `call`, `sent` | the requests being created: step, the id they will have, what for, for whom |
| `helper` | `scripts/cookie_export_helper.py`: the rest of its round, and the report it is to send |
| `exported`, `crashed` | auxiliary: cookies that were exported; requests that lost a task to a database error in this process |

| Actions | Code |
|---|---|
| `RequestVideo`, `RequestVocabulary`, `RequestCookieUpdate` | the entry of `request_video`, `request_vocabulary`, `request_cookie_update`, from `api/agent.py` |
| `ReadActive`, `CountRequests`, `InsertRequest` | the look for an active request, the count for the guest, the insert |
| `Expires`, `FindExpired`, `Approve`, `Reject` | the clock; the expiry check of `approve` and `reject`; the rest of them |
| `LoadRequest`, `StartExecution` | `execute` until its first commit |
| `PrepareVideo`, `PollVideo`, `PollTimesOut` | `_execute_video` |
| `ReadDictionary`, `InsertEntry`, `InsertConflict` | `_execute_vocabulary`; the last one is the second of two executions of one request |
| `Succeed`, `Fail`, `DatabaseFails` | the end of `execute`: its commit, its except block, an exception in that block |
| `VideoMoves` | what the rest of the program does with the video (external to this module) |
| `Restart`, `Resume`, `ResumeFails` | the process; `resume_agent_executions`, which runs beside the first calls |
| `ListApproved`, `ExportCookies`, `ReportExport` | one round of the helper; `complete_cookie_export` with a call or an answer that may be lost |

**Abstractions.**  A vocabulary request is about one word: each item of a larger
one is filtered, looked up and inserted in the same way, all in one commit.
The `error` column and the messages to Telegram are left out: no guard reads
them, and `TelegramService._call` catches what its HTTP client raises.  A call that finds an active
request ends there; at most it sends the notification again.  The status
`pending` of a video is counted as `processing`.  Each poll is taken to read the row
as it is: the session keeps weak references, and the objects of the poll before are
gone.  The helper reads the newest 100 requests; the model has no more.

**Bounds.**  `MaxCalls` requests are created, by `Callers` at a time, the process
restarts `MaxRestarts` times, and an execution polls `MaxPolls` times (60 per hour
of `settings.agent_request_expiry_hours` in the code; two are enough for one
that does not end the execution and one that does).  Requests share
videos, words and the guest's count only, so the execution is checked
for one request of any kind, with both restarts that can meet its two tasks, and
the creation for three requests of two callers, without execution: with three
requests and a limit of one, two calls may pass the limit together and a third must
not.  With two requests from one caller, one poll, one restart and no guest, the safety
properties and the refinement hold as well (2.1 million states), as does
`ApprovedFinishes` for two vocabulary requests and one restart (98 413 states); these
are too long to be run each time.

**Fairness.**  `FairSpec` assumes weak fairness of each execution and of the
resumption at start-up: asyncio runs the tasks that were created, and no step of
theirs waits for another one.  Nothing is assumed of administrators, clients, the
helper, the import of the video, or restarts: `ApprovedFinishes` holds because
polling is bounded.

## 5. The model of the streams

`EventStream` extends `SubtitleQueue`: the worker moves as there, and `QueueStep`
adds to each of its steps what the step publishes and who is subscribed.

| State | Code |
|---|---|
| `page` | the watch page and its `EventSource` on `/subtitles/stream`: closed, waiting to connect, after the progress was read, after the batches were, subscribed, ended by the server, lost after an error answer, closed by the page |
| `seen` | the progress `/subtitles/stream` read first was a completed one |
| `inbox` | the events sent to a page that it has not handled: the queue of the subscriber, the socket and the browser together |
| `shown` | the lines the page shows, by the attempt at the batch they are of |
| `opc`, `tries` | `/processing-stream`: where it is, and how often it looked for the video |
| `attempt`, `missed`, `taken` | auxiliary: how often a batch was completed; per page the batches published between the reads of its stream and its subscription, or never published because the worker could not read them after their commit; batches that were completed and then were not: retried, failed after their commit, deleted |

| Actions | Code |
|---|---|
| `Broadcast` | `SubtitleEventBroker.publish`, called by `_worker` |
| `OpenPage` | the page's first `getRawSubtitles` |
| `ReadProgress`, `ReadBatches`, `Subscribe` | the snapshot, the completed batches and the subscription of `stream_video_subtitles` |
| `HandleEvent` | `mergeSubtitleBatch` and the listeners of the page |
| `Reconnect`, `RestartStreams` | a broken connection, a restart of the process |
| `OpenProcessingStream`, `PollProgress`, `GiveUp`, `ObserverSubscribes` | `stream_video_processing`: each look for the video, the end after the last of them, the subscription |

**Abstractions.**  The queue of a subscriber is emptied by the same task that
created it, so its events and those on the wire are one sequence.  Events that
only change what is displayed (`processing_started`, `processing_progress`,
`heartbeat`) are left out.  A subscriber of `/processing-stream` acts on an end
event in the step that publishes it.

**Bounds.**  Two batches, one caller with two requests (imports, retries and deletes, with
restarts and failing sources), and `MaxReaders` 1: one page or one observer at a
time.  With failing reloads as well the same properties hold in 1.2 million states, which
are too many to be run each time; the proofs include them.  Readers share nothing but the
list of subscribers, which `publish` walks, so one at a time meets everything the worker does.  `MaxTries` is the number of looks a
processing stream takes, each followed by a second of sleep: 2 here, 30 in the code.

**Fairness.**  That of the queue, and weak fairness of an observer's stream, which is
a task of the same event loop.  None of pages: a browser may stop reading.

## 6. The models of the Go API

A request passes the rate limiter before its handler starts, and the two share no
state.  They are two modules, and `MCGoApi` checks one at a time: `part` says which
one moves.

### RateLimit

| State | Code |
|---|---|
| `now` | the clock, in ticks; windows are `now \div Window` |
| `redis`, `counter` | is Redis reachable; count and expiry of each key |
| `slot` | the requests in hand: group, identities, window |
| `passed`, `outage`, `arrived` | auxiliary: requests let through per key; was Redis ever away; bound |

`Arrive` is `rateLimitMiddlewareWithCounter` until the script, `Count` the script and its result,
`CountFails` the error path (`FailsClosed` for the expensive routes), `Leave` the
answer of the handler.  `Tick` waits for requests that are to be counted: the client's
timeout (`MaxDelay`) is shorter than a window.

### GuestData

| State | Code |
|---|---|
| `session`, `vocabulary`, `progress`, `import` | rows `guest_sessions`, `saved_vocabulary`, `guest_video_progress`; which import of the video there is |
| `handler` | the requests in hand, in Go or in Python |
| `jar`, `selected`, `entry`, `lookups` | per browser: the cookie; the watch page's `selectedToken`, `entry`, and lookups under way |
| `told`, `removed`, `overlap`, `strayed` | auxiliary: words a guest was told are saved; words taken away; browsers with two lookups at once; browsers that lost a cookie or became a guest twice |

| Actions | Code |
|---|---|
| `ClickToken`, `LookupAnswered`, `AskSave`, `AskRemove`, `AskPosition` | `handleTokenClick`, its continuation, `handleSave`, the vocabulary page, the player's reports |
| `IdentifyGuest`, `CreateGuest` | `guest` in `native.go`, `get_or_create_guest` in `core/auth.py` |
| `SaveVocabulary` | `SaveVocabulary` in `postgres.go` |
| `FindWord`, `FindLine`, `InsertWord` | `vocabulary_service.py`, the same route when Go has no database |
| `DeleteVocabulary`, `FindVideo`, `UpdateProgress` | `DeleteVocabulary`; `video_progress_service.py` |
| `Raises` | in a step of a Python route: an `AppError` or a refused row, answered by an exception handler (`app_error_handler`) |
| `Answer`, `AnswerLost` | the answer that arrives, or does not; it carries the cookie of a new guest unless the handler raised |
| `Expire`, `DeleteVideo`, `ImportVideo` | expiry of a session; `DELETE` and a new import |

Go writes the cookie to the response before the handler goes on, so its errors carry it
too.  Python sets it on a response that FastAPI merges into the handler's own answer, and
the answer to an exception is another response: the session of that guest exists, and no
browser has its cookie.

**Bounds.**  For the limiter two requests in hand, a limit of 1, an address and a
cookie, windows of 2 ticks, a delay of 1 and 4 ticks: a window ends with requests in
hand, and its counter dies before they are counted.  For the guests two handlers, one
browser, two sessions, two words, three requests, two clicks and one fault: two
requests become two guests at once, two lookups cross, a word is saved twice by both
programs.

## 7. The models of content, caches and releases

Six parts of the backend and of its operation that share no variable; `MCContent`
checks them one at a time, like `MCGoApi`.

| Module | State | Actions | Code |
|---|---|---|---|
| `AudioSource` | per import its step, attempts and transcript; the cookies and their status file | metadata, captions, attempts, the two halves of `_update`, chunks | `youtube_service.py`, `youtube_download_service.py`, `cookie_session.py`, `asr_service.py` |
| `BatchContent` | the lists of lines to be translated, what came of them, the analyses, the rows | one request to the translator or the analyser and its outcome; `zip` at the end | `translation_service.py`, `subtitle_nlp_service.py`, `_process_subtitle_batch` |
| `TokenSpans` | a line, its tokens, their places | an accepted answer; one round of the loop of `locate_tokens` | `_validate_result`, `segmentation_service.py` |
| `WordCache` | the explanation in Redis, the one in PostgreSQL, lookups under way | one access of a lookup to a store or the model, or its failure | `LearningDictionaryProvider` in `dictionary_service.py` |
| `Backfill` | the row of each video, imports and refreshes under way | look up, insert or merge, delete; select, fetch, read, commit | `video_repository.py`, `video_metadata_backfill.py` |
| `Release` | the running containers, the two records, the scripts | one phase of a script, its failure, the trap, a kill | `deploy_production.sh`, `rollback_production.sh` |

**Abstractions.**  An audio file is its duration, in fractions of a second, because
chunks are cut by a fractional duration.  A translation or an analysis is the number
of the line it is of and how it came about.  A line is a sequence of letters and gaps,
since `locate_tokens` searches in it; a token may be empty, which the schema of the answer and
`_validate_result` accept, and is found where the cursor is.  An explanation is the question it answers, so
that two of them differ.  Of the metadata only the view count is kept; titles
and thumbnails are merged alike.  A release is its tag.

**Bounds.**  Two imports with two downloads and durations on both sides of a chunk and
of a whole second (units of half a second, chunks of 2 seconds: 3, 5, 9 and 10 units);
up to four lines in lists of three, so that a list is full, another is not, and three
lines are split unevenly; lines of four characters of two letters and a gap with
three tokens of none to two; two lookups at a time, three in all, two losses; two videos, two
imports and three rows, so that a row is deleted and replaced under a refresh; two
releases and three scripts in all, started by the workflow, as a deployment by hand beside it
(`README.md:187`), or as a rollback, any of which may overlap.

## 8. What the runs show

| Run | Specification | Properties | Result |
|---|---|---|---|
| `queue_safety` | 2 batches, 2 callers, 3 requests, every operation and fault, retries of any index | `TypeOK`, `PriorityOK`, `LinesFollowBatches`, `CompletedVideoHasNoFailure`, `RetryIsRedone`, `ImplementsLedger` | holds |
| `queue_liveness` | same sizes, imports and seeks, failing sources and reloads, fair | `EveryBatchSettles`, `WorkerEnds` | holds |
| `queue_seek_window` | 3 batches | `SeekWindowFirst` | violated |
| `queue_lost_retry` | 1 batch, import and retry, fair | `EveryBatchSettles` | violated |
| `queue_delete_stall` | 2 batches, import and delete, fair | `EveryBatchSettles` | violated |
| `queue_failed_import` | 2 batches, imports, failing sources, fair | `ImportSettles` | violated |
| `agent_execution` | 1 request, 2 restarts, every operation and fault, fair | `TypeOK`, `OnlyApprovedRuns`, `CompletedWasDone`, `NoneForgotten`, `ImplementsLifecycle`, `ApprovedFinishes` | holds |
| `agent_limits` | 2 callers, 3 requests, 2 videos, 1 word, limit 1 | `GuestWithinLimit`, `WaitingWithinCallers` | holds |
| `agent_repeated_callback` | 1 request | `RepeatedCallbackRejected` | violated |
| `stream_viewers` | the queue with 2 batches and 1 caller, 1 page or observer, retries, deletes, restarts, fair | `StreamTypeOK`, `StreamLosesNothing`, `ClosedPageIsWhole`, `ObserverEnds` | holds |
| `go_api` | `RateLimit` and `GuestData` | `LimiterTypeOK`, `GuestTypeOK`, `PassedWithinLimit`, `SavedIsKept`, `SavedWordsStayReachable`, `MeaningBelongsToWord`, `IsolatedByGuest` | holds |
| `content` | the six parts of section 7 | `TypesOK`, `AudioTypeOK`, `ContentTypeOK`, `BackfillTypeOK`, `StatusKeepsVerdict`, `TranscriptWhole`, `LinesInPlace`, `SpansHoldTokens`, `StoresAgree`, `MetadataOfItsRow`, `RunningIsRecorded` | holds |

* `LinesFollowBatches`: the two tables never disagree, though five pieces of
  code write them, in two programs.
* `CompletedVideoHasNoFailure`: a completed video has only completed batches, or
  ones that a retry or a repeated import made pending between the read of
  `_maybe_complete_video` and its commit; never a failed or a missing one.
* `RetryIsRedone`: work that began before a retry was committed never reports that
  batch completed.
* `PriorityOK`: no index is listed twice, whatever integers clients retry and whatever stays
  on the list because it is never pending.  How many different ones are listed is limited by
  nothing in the code.
* `ImplementsLedger`: the refinement.
* `EveryBatchSettles` and `WorkerEnds` hold as long as nobody retries or deletes.

* `OnlyApprovedRuns`: whatever is or was executed, or has left an entry in the
  dictionary, was approved and not rejected.
* `CompletedWasDone`: a completed request has its word in the dictionary, or its
  cookies exported, although executions are repeated and reports lost.
* `NoneForgotten` and `ApprovedFinishes`: an approved request always has a task, or
  gets one after a restart, and ends; unless the database fails under it, when the
  except block raises too and the request stays as it is until the next restart.
* `GuestWithinLimit`, `WaitingWithinCallers`: the checks before the insert are
  not atomic with it, so they are exceeded, but by no more than the calls that run
  at the same time.
* `ImplementsLifecycle`: the refinement.

* `StreamLosesNothing`: behind an open stream the page has the latest lines of every
  completed batch, or they are on their way, or they were published between the
  stream's reads and its subscription, or the worker failed to read them after their
  commit and never published them.  Both gaps are real and nothing repeats what falls
  into them.
* `ClosedPageIsWhole`: the end of a stream never overtakes the batches; a page closes
  on raw lines only of a batch that fell into a gap, or that was completed and then
  taken back: retried, failed after its commit, or deleted.
* `ObserverEnds`: a listener of `/processing-stream` is told of the worker's end,
  unless the worker ends with the video unfinished or stalls on a row.  An observer
  that subscribes after the end waits for good: it is not `Working` any more.
* `StreamTypeOK` includes that a processing stream looks for its video `MaxTries` times at
  most and then ends, whether the video is there by then or not.

* `PassedWithinLimit`: a window lets through its limit, and once more what was in
  hand when its counter expired, at most the limit again.
* `SavedIsKept`, `IsolatedByGuest`: what a guest was told is saved is there until
  it is removed, by that guest or with the video.
* `SavedWordsStayReachable`, `MeaningBelongsToWord`: the exceptions are those
  the code has: a browser that becomes two guests at once or loses the answer with its cookie,
  and a lookup that is answered after the next click.  An answer that drops the cookie
  because the handler raised is no exception: its guest has saved nothing.

* `StatusKeepsVerdict`: the status of the cookies is the last verdict, but for a
  media error that was written over a verdict it had not read (`_update` reads and
  replaces without a lock between the two).
* `TranscriptWhole`: chunks join without a gap or an overlap; at most the last part
  of a second is lost, because whole seconds are cut.
* `ContentTypeOK`: the translator is asked three times per line at most, however its
  answers fail; a list that is split leaves no more requests than it had lines for.
* `LinesInPlace`: splitting, placeholders and local analyses never move a line.
* `SpansHoldTokens`: tokens of the analyser are found at their own letters, up to the first
  that holds a gap or joins what a gap separates; such answers are accepted.
* `StoresAgree`: `README.md` calls PostgreSQL the source of truth; Redis contradicts
  it only after two lookups missed at once or PostgreSQL failed one.
* `MetadataOfItsRow`: a view count is never written to the row that replaced the one
  it was fetched for.
* `RunningIsRecorded`: whichever step of a deployment fails, the record names what
  runs; not so after a kill, an overlap, or a rollback that fails after its switch.

Where the code does not do what is said of it:

* **Seek window.**  `README.md:39` has the batch at the playback time and the
  next two prioritized.  `_next_batch` (`subtitle_queue.py:223`) removes from the
  list all indexes that are pending, not only the one it returns, so the next two
  are done in index order.
* **Lost retry.**  A retry, or an import, that arrives when the worker has found
  nothing pending and awaits its classification (`subtitle_queue.py:199`) finds a
  task that is not done and starts none.  The batch stays pending until another
  request arrives.
* **Stall on delete.**  The progress callback (`subtitle_queue.py:171`) needs the
  video row while `process_batch` holds the batch row; a `DELETE` holds the first
  and waits for the second.  PostgreSQL sees no cycle.
* **Failed import.**  The except block of `prepare_video_content`
  (`subtitle_service.py:181`) reads `exc`, which is not bound there, before it commits: the
  failure is not written and the video stays `processing`.
* **Repeated callback.**  `docs/agent-approval.md:59` has the state guard reject a
  repeated callback.  `approve` and `reject` look at the expiry first
  (`agent_request_service.py:159`, `:174`): a button pressed again after the expiry
  makes an approved, executing, completed or rejected request `expired`.

## 9. What is proved

### The queue

`SubtitleQueueProofs` proves, for every number of batches, every set of callers and
every bound on requests:

| Theorem | Statement |
|---|---|
| `InvariantHolds` | `Spec => []IInv` |
| `TypeCorrect`, `LinesAgree`, `CompletedIsWhole`, `RetryNotOvertaken` | `Spec => []TypeOK` and so on for `LinesFollowBatches`, `CompletedVideoHasNoFailure`, `RetryIsRedone` |
| `QueueImplementsLedger` | `Spec => Ledger!Spec` |
| `PriorityDistinct` | `Spec => []PriorityOK` |

from three assumptions, all declared in `SubtitleQueue`: there is at least one batch
(a worker that finds no line fails in `source`), `Ops` names known operations, and
retries name integers, of which the column holds at least the batches.

None of the properties is inductive alone.  `IInv` adds four parts:

* `RowsTogether`: batches exist all or none, and only under a video.
  Without it a delete, or a split, could leave half a video.
* `WorkerReads`: what the worker read still holds where it is used.  `_next_batch`
  picks from a set that was pending a step ago; those batches may be deleted since
  but cannot have been completed, since only the worker completes one.
* `TransactionIsolated`: while the worker's transaction is open its batch stays
  pending, is not in `redo`, and the others it saw completed can at most have become
  pending.  This is what makes the commit of `CompletesVideo` safe although its read is old.
* `CallsHold`: one call at most holds the video row, and the video exists as long
  as a call holds it or has an object of it in hand that was not deleted.

`IInv` is the conjunction of these with `TypeOK` and the three properties.  The proof
takes each action in turn, and for each only the conjuncts it can disturb.
`PickBatch` needs `FirstInOrderPending`: the batch picked is a pending one whatever
stale indexes the list has.  It rests on `LeastInSet`, the least element of a set
of naturals, from the library's well-foundedness of `<`.  The refinement maps each
commit to one action of the ledger and every other step to a stutter.

`PriorityOK` needs nothing but the types, in which `priority` is a sequence of any integers.
The list changes in four ways (an index is appended, put first, forgotten, or the list is
cleared at a restart), and `AppendWindowOnce`, `InsertFirstOnce` and `ForgetListedOnce`
show that none repeats an index.  What is left when indexes are forgotten is listed
by rank, not by recursion: `InOrder` puts each index where the number of those before
it says, and `RanksDiffer` is why two of them never meet.

### The streams

`EventStreamProofs` extends the proofs of the queue and proves, for every number of
batches, pages, observers, requests and faults:

| Theorem | Statement |
|---|---|
| `StreamRunsQueue` | `StreamSpec => FairSpec` |
| `StreamInvariantHolds`, `StreamTyped` | `StreamSpec => []StreamInv`, `StreamSpec => []StreamTypeOK` |
| `NothingIsLost` | `StreamSpec => []StreamLosesNothing` |
| `ClosedPagesAreWhole` | `StreamSpec => []ClosedPageIsWhole` |
| `StreamedQueueImplementsLedger` | `StreamSpec => Ledger!Spec` |

`StreamRunsQueue` says that the streams only read: every behaviour of the whole is one
of the queue, with its fairness.  All that is proved of the queue carries over, the
refinement too, and `IInv` is the first part of `StreamInv`.  The others are:

* `WorkIsCounted`: processed lines come from an attempt that was counted, and a video
  becomes completed, or is seen complete by the open transaction, only when every batch
  is completed or was taken back since.
* `InboxFollowsPage`: only a stream that has read its batches has sent anything; before
  it subscribes it has not sent the end; and if it read a completed progress, every
  batch was completed or taken back by then.
* `UpToDate` is stronger than `StreamLosesNothing` where a page has several events of
  one batch in hand: none of an older attempt comes after the latest one.  Without it a
  retry could put the older lines back.
* `EndComesLast`: in front of the end in the inbox, or already shown, is every batch
  that stayed completed; and none of those can be published again behind it.  This is what
  `ClosedPageIsWhole` comes from when the page handles the end.

### The approval workflow

`AgentRequestsProofs` proves, for every set of callers, guests, videos and words,
every limit and every number of polls, calls and restarts:

| Theorem | Statement |
|---|---|
| `InvariantHolds` | `Spec => []IInv` |
| `TypeCorrect`, `NothingUnapproved`, `CompletedIsDone`, `NothingForgotten` | `Spec => []TypeOK` and so on for `OnlyApprovedRuns`, `CompletedWasDone`, `NoneForgotten` |
| `GuestsAreLimited`, `DuplicatesAreLimited` | `Spec => []GuestWithinLimit`, `Spec => []WaitingWithinCallers` |
| `RequestsImplementLifecycle` | `Spec => ImplementsLifecycle` |

from the assumptions of `AgentRequests`: videos, words and the cookies are
different things, no guest is the missing guest, there are finitely many callers,
the limit is positive, and the bounds are natural numbers.

`IInv` adds to `TypeOK`, `CompletedWasDone` and `NoneForgotten`:

* `FreshIds`: the id a call has drawn is not in the table, and no other call has it.
  It stands for the random ids of `_new_id`.
* `Decided`: a status tells the decision, and a task or an entry tells that its
  request was approved, even when it has expired since.
* `TaskReads`: what an execution has done where it stands; before it writes
  `completed` the word is in the dictionary.
* `HelperExported`: before the helper reports a success it has exported.
* `ConflictIsHarmless`: the execution that loses the race for the key of an entry
  ends without writing anything, and then the one that won is still there to
  write `completed`.  This is why `NoneForgotten` survives `InsertConflict`.

The two limits rest on `GuestCount` and `WaitingCount`, which add to the rows the
calls that are past the check: a call passes it only when the rows are below the
limit, and all such calls together are no more than the callers.  The
refinement maps each commit to one action of `RequestLifecycle`.

### Explanations, metadata, releases

| Module | Theorem | Statement |
|---|---|---|
| `WordCacheProofs` | `CacheAgreesWithRow` | `WordSpec => []StoresAgree` |
| `WordCacheProofs` | `WordTyped` | `WordSpec => []WordTypeOK` |
| `OperationsProofs` | `MetadataIsItsOwn`, `BackfillTyped` | `BackfillSpec => []MetadataOfItsRow`, `BackfillSpec => []BackfillTypeOK` |
| `OperationsProofs` | `RecordIsRight`, `ReleaseTyped` | `ReleaseSpec => []RunningIsRecorded`, `ReleaseSpec => []ReleaseTypeOK` |

for every number of lookups, videos, imports and rows, every set of releases, and any
number of failures and starts.  Assumed are bounds that are natural numbers,
finitely many videos, a positive `BatchSize` and `Concurrency`, and that `Nothing` is no
release.

* `WordInv`: as long as nothing crossed or failed, one lookup at most has missed;
  while it is under way there is no row; what Redis alone has is what that lookup
  is about to persist; and a lookup that is to put something back has the row's.
  The row is therefore empty whenever something is persisted, and Redis has
  nothing else.
* `BackfillInv`: ids are given out in order and no two rows share one, and a refresh
  that is to commit has read the row that was selected.  So the commit finds that very
  row, or none of that id, since an id is never given out again.
* `ReleaseInv`: a script that met no other is the only one; once it has switched its
  target runs; and without a doubt it knows the release on record, which runs until
  it switches.  A failure before the switch leaves that release, one after it goes
  back to it, and the last record names the target.

### The content of an import

`ContentProofs` proves, for every number of lines and size of a request, and for every
number of imports, attempts and durations:

| Theorem | Statement |
|---|---|
| `LinesKeepTheirPlace`, `ContentTyped` | `ContentSpec => []LinesInPlace`, `ContentSpec => []ContentTypeOK` |
| `TranscriptsWhole`, `VerdictIsKept`, `AudioTyped` | `AudioSpec => []TranscriptWhole` and so on for `StatusKeepsVerdict`, `AudioTypeOK` |
| `SpansHold`, `SpansTyped` | `SpanSpec => []SpansHoldTokens`, `SpanSpec => []SpanTypeOK` |
| `PartsKeepToThemselves` | `ContentPartsSpec` implies the specification of each of the six parts |
| `PartsTyped` | `ContentPartsSpec => []TypesOK` |

from `ContentAssumption` (a request has room for a line) and `AudioAssumption` (at least
one attempt, a second and a chunk are longer than nothing, and so is every audio file)
and `SpanAssumption` (a gap is no letter).

* `LinesInv`: the lists still to be translated go on where the translations end and reach
  the last line without a gap (`InLine`), and they still do when the first is split
  or retried alone (`ReplacedInLine`).  The bound on requests is a budget (`Paid`): what
  was asked is at most three times the lines translated, plus the lists to come, plus
  the retries already spent on them.  Every list has a line of its own, so at the end that
  is three requests a line.
* `AudioInv`: the pieces a transcript has are the first chunks of its audio (`HasChunks`),
  and the duration is known whenever chunks are cut (`HasAudio`).  `ChunksCover` is the
  arithmetic: chunk after chunk meets the next, and the last one ends less than a second
  before the audio does.
* `SpansHoldTokens` is inductive together with the types.  The letters before the cursor are
  those of the tokens before (`CursorBehindLetters`), so only gaps lie between the cursor and
  the token's own letters, and the first place that is found cannot be an earlier one
  (`FindsItsOwn`).  Letters are counted as sets of positions, which needs no recursion.

### The Go API

| Module | Theorem | Statement |
|---|---|---|
| `RateLimitProofs` | `LimitsHold`, `LimiterTyped` | `LimiterSpec => []PassedWithinLimit`, `LimiterSpec => []LimiterTypeOK` |
| `GuestDataProofs` | `SavedStaysSaved`, `SavedIsReachable` | `GuestSpec => []SavedIsKept`, `GuestSpec => []SavedWordsStayReachable` |
| `GuestDataProofs` | `MeaningIsOwn`, `GuestsTyped` | `GuestSpec => []MeaningBelongsToWord`, `GuestSpec => []GuestTypeOK` |
| `GuestDataProofs` | `GuestsIsolated` | `GuestSpec => IsolatedByGuest` |

for every limit, every length of a window, every number of clients, browsers, words,
requests in hand and faults.  `RateLimit` assumes that the requests in hand are finitely many,
that addresses and cookies are different things, that a window has at least one tick and that a
request waits for less than a window between the clock and Redis (`MaxDelay < Window`);
`GuestData` that the missing token is no token and that there is a browser.

* `LimiterInv` tells the two counters apart that one window of one key can have.  The first
  dies no earlier than its window ends and lets through the limit.  One that begins
  when the window is over (`Late`) dies a full window later still, and a request waits for less
  than a window: no request of that window is left when it dies, so there is no third.  What it
  lets through had been waiting when the first one died, which is counted: passed requests
  and waiting ones together never exceed the limit plus all that can be in hand.
* `GuestInv` follows the cookie.  A request that has a guest without having made it shows
  the cookie its browser still has, or one whose session expired, or its browser has
  strayed (lost a cookie, or was made a guest twice at once).  A request that has made its
  guest is the only one of its browser to have done so, and the cookie it replaces is of no use to
  anybody: this is why the answer that sets the new cookie takes no word out of reach.
  Sessions are only ever used once they exist, so a fresh one never is somebody's already.
  A request that is about to say `saved` has its word in the table or among the removed, which
  holds across the deletion of the video between the insert and the answer.  A page with one
  lookup at a time shows the entry of the word that is selected, or none.
* `FreshIsHidden`: until its answer, the token of a new guest is known to its own request only:
  no browser has it, no other request shows it or acts for it, and nothing is saved under it
  before the request is about to answer without having raised.  So the cookie that an exception
  drops, and that no browser will ever have, takes no word with it.

### Only model-checked

Every invariant and action property of a run is stated by a theorem.  Left to TLC are:

* `EveryBatchSettles`, `WorkerEnds`, `ApprovedFinishes` and `ObserverEnds`: they need
  fairness and `ENABLED`.
* The five violations, which are counterexamples.

### Not modelled

* The frontend's import page, catalogue and presentation: the import page polls a
  snapshot every 2.5 seconds and shows it, the catalogue filters and sorts what it is
  given; neither keeps state another part depends on.
* Configuration, schemas, migrations, notebooks and data: no state that changes
  while the program runs.
* Several videos at once: their workers share nothing but the process.
* Phases, percentages and keep-alive messages of the streams; the Redis copy of the
  subtitles beyond an import that may return early.
* Lists, readiness, the learning overview and the proxy, which only read or pass on;
  the address behind trusted proxies is an identity of the limiter.
* Paths without an API key, which answer from tables; pronunciation, the
  fallback segmentation and the topic classifier (an outcome in `SubtitleQueue`).
* Disk errors of the status file of the cookies; the wording of messages.
* Schemas and backups in `Release`, and the scripts `bootstrap_vps.sh`,
  `restore_local_db.sh` and `backfill_video_metadata.py`, each a list of commands
  without a state it comes back to.

### Seen while modelling

Behaviour worth a look that no property is about: an entry that an approved
vocabulary request inserts has the type `word` and the status `completed`
(`agent_request_service.py:272`), which the lookup of the Go API never selects
(`postgres.go:191`); a word saved twice is `already_saved` in Python and an error in
Go; audio after the last whole second is never transcribed (`asr_service.py:49`); the
heuristic explanation is persisted like an answer of the model
(`dictionary_service.py:212`); a backfill whose oldest rows never get a view count
never comes to the newer ones (`video_repository.py:29`).

## 10. Running it

    tlc -workers 2 -config queue_safety.cfg MCSubtitleQueue.tla
    tlc -workers 2 -config agent_execution.cfg MCAgentRequests.tla
    tlc -workers 2 -config stream_viewers.cfg MCEventStream.tla
    tlc -workers 2 -config go_api.cfg MCGoApi.tla
    tlc -workers 2 -config content.cfg MCContent.tla
    tlapm SubtitleQueueProofs.tla

The configurations `queue_*` are of `MCSubtitleQueue`, those named `agent_*` of
`MCAgentRequests`.  `queue_safety` takes less than a minute and visits 669 283 states,
`queue_liveness` the same for 45 304, `agent_execution` a few seconds for 14 296 and
`agent_limits` for 213 158; `stream_viewers` visits 412 030 states in a minute and a
half, as long as `go_api` takes for 1 777 598, and `content` 450 377 in about one.  The eight proof
modules (`SubtitleQueueProofs`, `EventStreamProofs`, `AgentRequestsProofs`, `OperationsProofs`,
`WordCacheProofs`, `RateLimitProofs`, `GuestDataProofs`, `ContentProofs`) are checked in
twenty minutes or so.
