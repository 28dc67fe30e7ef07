--------------------------- MODULE AgentRequests ---------------------------
(***************************************************************************)
(* The approval workflow of agent_request_service.py: requests to import a *)
(* video or a word or to renew the cookies are stored as pending, decided  *)
(* by an administrator, executed by tasks of the process, and taken up     *)
(* again after a restart.  The cookies are exported by a helper outside    *)
(* the process.                                                            *)
(*                                                                         *)
(* One action is the code between two awaits.  approve, reject and         *)
(* complete_cookie_export hold the row's lock from their read to their     *)
(* commit and are one action each; a task's commits take no such lock.     *)
(***************************************************************************)
EXTENDS Naturals, FiniteSets

CONSTANTS
  Callers,      \* chats and API calls that create requests, concurrently
  Videos, Words, Guests,
  GuestLimit,   \* settings.chatbot_video_request_limit
  MaxPolls,     \* 60 * settings.agent_request_expiry_hours
  Ops,          \* which decisions and faults the environment produces
  MaxCalls,     \* bound: calls that try to create a request
  MaxRestarts   \* bound: restarts of the process

Cookies == "cookies"
NoGuest == "no guest"

ASSUME SubjectsAssumption == Videos \cap Words = {} /\ Cookies \notin Videos \cup Words
ASSUME GuestsAssumption == NoGuest \notin Guests /\ IsFiniteSet(Callers) /\ GuestLimit \in Nat \ {0}
ASSUME BoundsAssumption == MaxPolls \in Nat /\ MaxCalls \in Nat /\ MaxRestarts \in Nat

Operations == {"approve", "reject", "import", "restart", "database_error"}

ASSUME OpsAssumption == Ops \subseteq Operations

Ids == 1 .. MaxCalls

VARIABLES
  \* agent_requests; the type of a request shows in its subject
  status, subject, guest,
  decision,   \* which of approved_at and rejected_at are set
  due,        \* requests whose expires_at has passed
  \* what execution works on
  video,      \* videos.processing_status; "pending" is counted as processing
  dictionary, \* requests that have an entry "agent:<id>:<word>"
  \* the process
  task,       \* execute(id), once per origin
  resuming,   \* resume_agent_executions has not read the table yet
  call, sent, restarts,
  \* cookie_export_helper.py
  helper,
  \* auxiliary
  exported,   \* requests whose cookies were exported
  crashed     \* requests that lost a task to a database error in this process

requests == <<status, subject, guest, decision>>
work == <<video, dictionary>>
creation == <<call, sent>>
cookies == <<helper, exported>>
vars == <<requests, due, work, task, resuming, creation, restarts, cookies, crashed>>

Status == {"none", "pending", "approved", "rejected", "expired", "executing", "completed", "failed"}

(* Mutant: a request that waits for its decision is not active. *)
RunningStatuses == {"approved", "executing"}
ActiveStatuses == {"pending", "approved", "executing"}

Subjects == Videos \cup Words \cup {Cookies}

Origins == {"approval", "resume"}
TaskPc == {"none", "load", "start", "run", "poll", "insert", "succeed", "fail"}
NoTask == [pc |-> "none", polls |-> 0]
NewTask == [pc |-> "load", polls |-> 0]

CallPc == {"idle", "active", "count", "insert"}
Idle == [pc |-> "idle", id |-> 0, subject |-> Cookies, guest |-> NoGuest]
HelperIdle == [pc |-> "idle", todo |-> {}, id |-> 0, success |-> FALSE]

(* Types of the rows, the tasks, the calls and the helper. *)
TypeOK ==
  /\ status \in [Ids -> Status]
  /\ subject \in [Ids -> Subjects]
  /\ guest \in [Ids -> Guests \cup {NoGuest}]
  /\ decision \in [Ids -> SUBSET {"approved", "rejected"}]
  /\ due \in SUBSET Ids
  /\ video \in [Videos -> {"none", "processing", "completed", "failed"}]
  /\ dictionary \in SUBSET Ids
  /\ task \in [Ids \X Origins -> [pc : TaskPc, polls : 0 .. MaxPolls]]
  /\ resuming \in BOOLEAN
  /\ call \in [Callers -> [pc : CallPc, id : 0 .. MaxCalls, subject : Subjects, guest : Guests \cup {NoGuest}]]
  /\ sent \in 0 .. MaxCalls
  /\ restarts \in 0 .. MaxRestarts
  /\ helper \in [pc : {"idle", "export", "report"}, todo : SUBSET Ids, id : 0 .. MaxCalls, success : BOOLEAN]
  /\ exported \in SUBSET Ids
  /\ crashed \in SUBSET Ids

Init ==
  /\ status = [r \in Ids |-> "none"]
  /\ subject = [r \in Ids |-> Cookies]
  /\ guest = [r \in Ids |-> NoGuest]
  /\ decision = [r \in Ids |-> {}]
  /\ due = {}
  /\ video = [v \in Videos |-> "none"]
  /\ dictionary = {}
  /\ task = [t \in Ids \X Origins |-> NoTask]
  /\ resuming = TRUE
  /\ call = [c \in Callers |-> Idle]
  /\ sent = 0
  /\ restarts = 0
  /\ helper = HelperIdle
  /\ exported = {}
  /\ crashed = {}

-----------------------------------------------------------------------------
(* Creating requests *)

Active(s) == \E r \in Ids : subject[r] = s /\ status[r] \in ActiveStatuses

WordsOf(entries) == {subject[r] : r \in entries}

Begin(c, step, s, g) ==
  /\ call[c].pc = "idle"
  /\ sent < MaxCalls
  /\ sent' = sent + 1
  /\ call' = [call EXCEPT ![c] = [pc |-> step, id |-> sent + 1, subject |-> s, guest |-> g]]
  /\ UNCHANGED <<requests, due, work, task, resuming, restarts, cookies, crashed>>

Goto(c, step) == call' = [call EXCEPT ![c].pc = step] /\ UNCHANGED sent
Return(c) == call' = [call EXCEPT ![c] = Idle] /\ UNCHANGED sent

(* request_video, from a chat (with a guest), the API or a Telegram message: *)
(* there is no such video, or its import failed.                             *)
RequestVideo(c, v, g) == video[v] \in {"none", "failed"} /\ Begin(c, "active", v, g)

(* request_vocabulary: no entry has the word. *)
RequestVocabulary(c, w) == w \notin WordsOf(dictionary) /\ Begin(c, "active", w, NoGuest)

RequestCookieUpdate(c) == Begin(c, "insert", Cookies, NoGuest)

(* The active requests are read.  When there is one for this subject the   *)
(* call ends; at most it sends the notification of a pending one again.    *)
ReadActive(c) ==
  /\ call[c].pc = "active"
  /\ IF Active(call[c].subject) THEN Return(c)
     ELSE Goto(c, IF call[c].guest = NoGuest THEN "insert" ELSE "count")
  /\ UNCHANGED <<requests, due, work, task, resuming, restarts, cookies, crashed>>

RequestsOf(g) == {r \in Ids : status[r] # "none" /\ guest[r] = g}

(* Mutant: the limit itself may be exceeded. *)
PastLimit(g) == Cardinality(RequestsOf(g)) > GuestLimit
LimitReached(g) == Cardinality(RequestsOf(g)) >= GuestLimit

(* _guest_video_request_count *)
CountRequests(c) ==
  /\ call[c].pc = "count"
  /\ IF LimitReached(call[c].guest) THEN Return(c) ELSE Goto(c, "insert")
  /\ UNCHANGED <<requests, due, work, task, resuming, restarts, cookies, crashed>>

(* The row is committed; what comes after is the notification. *)
InsertRequest(c) ==
  /\ call[c].pc = "insert"
  /\ LET r == call[c].id IN
       /\ status' = [status EXCEPT ![r] = "pending"]
       /\ subject' = [subject EXCEPT ![r] = call[c].subject]
       /\ guest' = [guest EXCEPT ![r] = call[c].guest]
  /\ Return(c)
  /\ UNCHANGED <<decision, due, work, task, resuming, restarts, cookies, crashed>>

-----------------------------------------------------------------------------
(* Decisions: Telegram callbacks and API calls, at any time and repeatedly *)

(* expires_at passes. *)
Expires(r) ==
  /\ status[r] # "none"
  /\ due' = due \cup {r}
  /\ UNCHANGED <<requests, work, task, resuming, creation, restarts, cookies, crashed>>

(* approve and reject look at the expiry first, whatever the status is. *)
FindExpired(r) ==
  /\ status[r] # "none"
  /\ r \in due
  /\ status' = [status EXCEPT ![r] = "expired"]
  /\ UNCHANGED <<subject, guest, decision, due, work, task, resuming, creation, restarts, cookies, crashed>>

(* Mutants: an approval may be taken back; a rejection may be taken back. *)
PendingOrApproved(r) == status[r] \in {"pending", "approved"}
PendingOrRejected(r) == status[r] \in {"pending", "rejected"}
EnsurePending(r) == status[r] = "pending"

ApprovalTasks(r) == IF subject[r] = Cookies THEN {} ELSE {<<r, "approval">>}

CreateTasks(ts) == task' = [t \in DOMAIN task |-> IF t \in ts THEN NewTask ELSE task[t]]

Approve(r) ==
  /\ "approve" \in Ops
  /\ r \notin due
  /\ EnsurePending(r)
  /\ status' = [status EXCEPT ![r] = "approved"]
  /\ decision' = [decision EXCEPT ![r] = @ \cup {"approved"}]
  /\ CreateTasks(ApprovalTasks(r))
  /\ UNCHANGED <<subject, guest, due, work, resuming, creation, restarts, cookies, crashed>>

Reject(r) ==
  /\ "reject" \in Ops
  /\ r \notin due
  /\ EnsurePending(r)
  /\ status' = [status EXCEPT ![r] = "rejected"]
  /\ decision' = [decision EXCEPT ![r] = @ \cup {"rejected"}]
  /\ UNCHANGED <<subject, guest, due, work, task, resuming, creation, restarts, cookies, crashed>>

-----------------------------------------------------------------------------
(* Execution: t is <<request, origin>> *)

TaskStep(t, from, to) ==
  /\ task[t].pc = from
  /\ task' = [task EXCEPT ![t] = [pc |-> to, polls |-> 0]]
  /\ UNCHANGED <<subject, guest, decision, due, resuming, creation, restarts, cookies>>

(* Mutant: only an approved request may be executed. *)
ApprovedOnly == {"approved"}
Executable == {"approved", "executing"}

(* The row is loaded, without a lock. *)
LoadRequest(t) ==
  LET now == status[t[1]] IN
  /\ TaskStep(t, "load", CASE now \notin Executable -> "none" [] now = "approved" -> "start" [] OTHER -> "run")
  /\ UNCHANGED <<status, work, crashed>>

StartExecution(t) ==
  /\ TaskStep(t, "start", "run")
  /\ status' = [status EXCEPT ![t[1]] = "executing"]
  /\ UNCHANGED <<work, crashed>>

(* _execute_video: prepare_video leaves a finished video as it is, or sets *)
(* it to processing and enqueues it; it may also raise.                    *)
PrepareVideo(t) ==
  LET v == subject[t[1]] IN
  /\ v \in Videos
  /\ \/ video[v] = "completed" /\ TaskStep(t, "run", "succeed") /\ UNCHANGED video
     \/ TaskStep(t, "run", "poll") /\ video' = [video EXCEPT ![v] = "processing"]
     \/ TaskStep(t, "run", "fail") /\ UNCHANGED video
  /\ UNCHANGED <<status, dictionary, crashed>>

(* Mutant: one poll more. *)
PollsNotExceeded(t) == task[t].polls <= MaxPolls
PollsLeft(t) == task[t].polls < MaxPolls

(* One turn of the polling loop; it raises when the video is gone. *)
PollVideo(t) ==
  LET now == video[subject[t[1]]] IN
  /\ task[t].pc = "poll"
  /\ PollsLeft(t)
  /\ \/ now = "completed" /\ TaskStep(t, "poll", "succeed")
     \/ now \in {"failed", "none"} /\ TaskStep(t, "poll", "fail")
     \/ /\ now = "processing"
        /\ task' = [task EXCEPT ![t] = [pc |-> "poll", polls |-> task[t].polls + 1]]
        /\ UNCHANGED <<subject, guest, decision, due, resuming, creation, restarts, cookies>>
  /\ UNCHANGED <<status, work, crashed>>

PollTimesOut(t) ==
  /\ TaskStep(t, "poll", "fail")
  /\ ~PollsLeft(t)
  /\ UNCHANGED <<status, work, crashed>>

(* Mutant: the words of active requests count as entries. *)
RequestedWords == WordsOf(dictionary \cup {r \in Ids : status[r] \in ActiveStatuses})
ExistingWords == WordsOf(dictionary)

(* _execute_vocabulary reads the entries ... *)
ReadDictionary(t) ==
  LET w == subject[t[1]] IN
  /\ w \in Words
  /\ TaskStep(t, "run", IF w \in ExistingWords THEN "succeed" ELSE "insert")
  /\ UNCHANGED <<status, work, crashed>>

(* ... and commits its own, whose key is made of the request and the word. *)
InsertEntry(t) ==
  /\ t[1] \notin dictionary
  /\ TaskStep(t, "insert", "succeed")
  /\ dictionary' = dictionary \cup {t[1]}
  /\ UNCHANGED <<status, video, crashed>>

(* A second execution of the request has inserted the key.  The handler    *)
(* commits without a rollback, so it raises too: nothing is written.       *)
InsertConflict(t) ==
  /\ t[1] \in dictionary
  /\ TaskStep(t, "insert", "none")
  /\ UNCHANGED <<status, work, crashed>>

Succeed(t) ==
  /\ TaskStep(t, "succeed", "none")
  /\ status' = [status EXCEPT ![t[1]] = "completed"]
  /\ UNCHANGED <<work, crashed>>

Fail(t) ==
  /\ TaskStep(t, "fail", "none")
  /\ status' = [status EXCEPT ![t[1]] = "failed"]
  /\ UNCHANGED <<work, crashed>>

(* Any other database error ends the task in the same way. *)
DatabaseFails(t) ==
  /\ "database_error" \in Ops
  /\ task[t].pc # "none"
  /\ TaskStep(t, task[t].pc, "none")
  /\ crashed' = crashed \cup {t[1]}
  /\ UNCHANGED <<status, work>>

(* What the rest of the program does with a video: SubtitleQueue. *)
VideoMoves(v) ==
  /\ "import" \in Ops
  /\ \/ video[v] = "processing" /\ \E s \in {"completed", "failed"} : video' = [video EXCEPT ![v] = s]
     \/ video[v] # "processing" /\ video' = [video EXCEPT ![v] = "processing"]
     \/ video[v] # "none" /\ video' = [video EXCEPT ![v] = "none"]
  /\ UNCHANGED <<requests, due, dictionary, task, resuming, creation, restarts, cookies, crashed>>

-----------------------------------------------------------------------------
(* Restarts *)

Restart ==
  /\ "restart" \in Ops
  /\ restarts < MaxRestarts
  /\ restarts' = restarts + 1
  /\ task' = [t \in DOMAIN task |-> NoTask]
  /\ call' = [c \in Callers |-> Idle]
  /\ resuming' = TRUE
  /\ crashed' = {}
  /\ UNCHANGED <<requests, due, work, sent, cookies>>

Underway == {r \in Ids : status[r] \in {"approved", "executing"} /\ subject[r] # Cookies}

(* What resume_agent_executions selects.                     *)
(* Mutant: what was approved and not begun is not taken up. *)
Begun == {r \in Ids : status[r] = "executing" /\ subject[r] # Cookies}
Interrupted == {r \in Ids : status[r] \in {"approved", "executing"} /\ subject[r] # Cookies}

(* resume_agent_executions, while requests are being approved already *)
Resume ==
  /\ resuming
  /\ resuming' = FALSE
  /\ CreateTasks(Interrupted \X {"resume"})
  /\ UNCHANGED <<requests, due, work, creation, restarts, cookies, crashed>>

ResumeFails ==
  /\ "database_error" \in Ops
  /\ resuming
  /\ resuming' = FALSE
  /\ crashed' = crashed \cup Underway
  /\ UNCHANGED <<requests, due, work, task, creation, restarts, cookies>>

-----------------------------------------------------------------------------
(* The cookie helper *)

(* It reads the approved cookie requests ... *)
ListApproved ==
  /\ helper.pc = "idle"
  /\ LET found == {r \in Ids : subject[r] = Cookies /\ status[r] = "approved"} IN
       /\ found # {}
       /\ helper' = [helper EXCEPT !.pc = "export", !.todo = found]
  /\ UNCHANGED <<requests, due, work, task, resuming, creation, restarts, exported, crashed>>

(* ... exports for one after the other, which may fail ... *)
ExportCookies(r, success) ==
  /\ helper.pc = "export"
  /\ r \in helper.todo
  /\ helper' = [pc |-> "report", todo |-> helper.todo \ {r}, id |-> r, success |-> success]
  /\ exported' = IF success THEN exported \cup {r} ELSE exported
  /\ UNCHANGED <<requests, due, work, task, resuming, creation, restarts, crashed>>

(* After a report: on to the next request; after a success that could not  *)
(* be reported, the report of a failure; after that, the end of the round. *)
AfterReport(accepted) ==
  IF accepted THEN IF helper.todo = {} THEN HelperIdle ELSE [HelperIdle EXCEPT !.pc = "export", !.todo = helper.todo]
  ELSE IF helper.success THEN [helper EXCEPT !.success = FALSE] ELSE HelperIdle

(* ... and reports the result.  complete_cookie_export takes it only for   *)
(* an approved request; the call or its answer may be lost.                *)
ReportExport(arrives, answered) ==
  LET r == helper.id
      accepted == arrives /\ subject[r] = Cookies /\ status[r] = "approved" IN
  /\ helper.pc = "report"
  /\ status' = IF accepted THEN [status EXCEPT ![r] = IF helper.success THEN "completed" ELSE "failed"] ELSE status
  /\ helper' = AfterReport(accepted /\ answered)
  /\ UNCHANGED <<subject, guest, decision, due, work, task, resuming, creation, restarts, exported, crashed>>

-----------------------------------------------------------------------------
(* The system *)

Create(c) ==
  \/ \E v \in Videos, g \in Guests \cup {NoGuest} : RequestVideo(c, v, g)
  \/ \E w \in Words : RequestVocabulary(c, w)
  \/ RequestCookieUpdate(c)
  \/ ReadActive(c) \/ CountRequests(c) \/ InsertRequest(c)

Execute(t) ==
  \/ LoadRequest(t) \/ StartExecution(t)
  \/ PrepareVideo(t) \/ PollVideo(t) \/ PollTimesOut(t)
  \/ ReadDictionary(t) \/ InsertEntry(t) \/ InsertConflict(t)
  \/ Succeed(t) \/ Fail(t)

HelperStep ==
  \/ ListApproved
  \/ \E r \in Ids, success \in BOOLEAN : ExportCookies(r, success)
  \/ \E arrives, answered \in BOOLEAN : ReportExport(arrives, answered)

Next ==
  \/ \E c \in Callers : Create(c)
  \/ \E r \in Ids : Expires(r) \/ FindExpired(r) \/ Approve(r) \/ Reject(r)
  \/ \E t \in Ids \X Origins : Execute(t) \/ DatabaseFails(t)
  \/ \E v \in Videos : VideoMoves(v)
  \/ Restart \/ Resume \/ ResumeFails
  \/ HelperStep

Spec == Init /\ [][Next]_vars

(* asyncio runs every task that was created; nobody has to decide, restart *)
(* or export anything.                                                     *)
Fairness ==
  /\ \A t \in Ids \X Origins : WF_vars(Execute(t))
  /\ WF_vars(Resume \/ ResumeFails)

FairSpec == Spec /\ Fairness

-----------------------------------------------------------------------------
(* Properties *)

(* Only what an administrator approved, and nobody rejected, is executed   *)
(* or leaves an entry in the dictionary: not after a restart, not by a     *)
(* task that meets a callback.                                             *)
OnlyApprovedRuns ==
  \A r \in Ids :
    \/ status[r] \in {"executing", "completed", "failed"}
    \/ r \in dictionary
    \/ \E o \in Origins : task[<<r, o>>].pc # "none"
    => decision[r] = {"approved"}

(* Chats of a guest that run at the same time may pass the limit together, *)
(* by no more than one request each.                                       *)
GuestWithinLimit ==
  \A g \in Guests : Cardinality(RequestsOf(g)) < GuestLimit + Cardinality(Callers)

(* A completed request was carried out: its word is in the dictionary, its *)
(* cookies were exported.  Executions may have been interrupted, doubled   *)
(* or resumed, and reports lost.                                           *)
CompletedWasDone ==
  \A r \in Ids : status[r] = "completed" =>
    /\ subject[r] \in Words => subject[r] \in WordsOf(dictionary)
    /\ subject[r] = Cookies => r \in exported

(* A request that is approved or executing has a task, or will have one    *)
(* when the restarted process has read the table, unless the database      *)
(* failed under it.                                                        *)
NoneForgotten ==
  \A r \in Underway :
    resuming \/ r \in crashed \/ \E o \in Origins : task[<<r, o>>].pc # "none"

(* Two calls for one video or word may both find no active request; as     *)
(* many requests may be waiting for a decision, never more.                *)
Waiting(s) == {r \in Ids : status[r] = "pending" /\ subject[r] = s}

WaitingWithinCallers ==
  \A s \in Videos \cup Words : Cardinality(Waiting(s)) <= Cardinality(Callers)

(* Every change of the table is one the life cycle allows. *)
Lifecycle == INSTANCE RequestLifecycle WITH Ids <- Ids, status <- status, decision <- decision

ImplementsLifecycle == Lifecycle!Spec

(* An approved import ends, by itself or by its limit of polls, unless the *)
(* database fails under it.                                                *)
ApprovedFinishes ==
  \A r \in Ids : r \in Underway ~> r \notin Underway \/ r \in crashed

(* docs/agent-approval.md: "Repeated approval callbacks are rejected by    *)
(* the database state transition guard."  A callback for a request that is *)
(* not pending any more leaves it as it is.                                *)
RepeatedCallbackRejected ==
  [][\A r \in Ids : FindExpired(r) => status[r] \in {"pending", "expired"}]_vars
=============================================================================
