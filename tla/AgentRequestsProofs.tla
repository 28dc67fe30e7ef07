------------------------ MODULE AgentRequestsProofs ------------------------
(***************************************************************************)
(* The safety properties of AgentRequests, for every set of callers,       *)
(* guests, videos and words, every limit and every number of calls.        *)
(***************************************************************************)
EXTENDS AgentRequests, FiniteSetTheorems, TLAPS

Tasks == Ids \X Origins

-----------------------------------------------------------------------------
(* The inductive invariant *)

(* A call keeps an id of its own until its row is inserted, and the helper *)
(* reports on a request.                                                   *)
FreshIds ==
  /\ \A c \in Callers : call[c].pc # "idle" => call[c].id \in 1 .. sent /\ status[call[c].id] = "none"
  /\ \A c, d \in Callers : call[c].pc # "idle" /\ call[d].pc # "idle" /\ call[c].id = call[d].id => c = d
  /\ \A r \in Ids : status[r] # "none" => r <= sent
  /\ helper.pc = "report" => helper.id \in Ids

(* The decision of a request follows from its status, but for an expired   *)
(* one; a request with a task or an entry is approved.                     *)
Decided ==
  /\ \A r \in Ids : status[r] \in {"none", "pending"} => decision[r] = {}
  /\ \A r \in Ids : status[r] \in {"approved", "executing", "completed", "failed"} => decision[r] = {"approved"}
  /\ \A t \in Tasks : task[t].pc # "none" => decision[t[1]] = {"approved"}
  /\ \A r \in dictionary : decision[r] = {"approved"}

(* What a task has done, seen from where it is. *)
TaskReads ==
  \A t \in Tasks :
    /\ task[t].pc # "none" => subject[t[1]] # Cookies
    /\ task[t].pc = "poll" => subject[t[1]] \in Videos
    /\ task[t].pc = "insert" => subject[t[1]] \in Words
    /\ task[t].pc = "succeed" /\ subject[t[1]] \in Words => subject[t[1]] \in WordsOf(dictionary)

HelperExported == helper.pc = "report" /\ helper.success => helper.id \in exported

(* A task that is about to find its key taken leaves the request to the    *)
(* task that took it.                                                      *)
ConflictIsHarmless ==
  \A t, u \in Tasks :
    t # u /\ t[1] = u[1] /\ task[t].pc = "insert" /\ t[1] \in dictionary =>
      /\ task[u].pc # "insert"
      /\ task[u].pc # "none" \/ t[1] \in crashed \/ t[1] \notin Underway

IInv ==
  /\ TypeOK
  /\ FreshIds
  /\ Decided
  /\ TaskReads
  /\ HelperExported
  /\ ConflictIsHarmless
  /\ CompletedWasDone
  /\ NoneForgotten

(* The calls that are past the check of the guest limit, and those past    *)
(* the look for an active request.                                         *)
Inserting(g) == {c \in Callers : call[c].pc = "insert" /\ call[c].guest = g}
Creating(s) == {c \in Callers : call[c].pc \in {"count", "insert"} /\ call[c].subject = s}

GuestCount == \A g \in Guests : Cardinality(RequestsOf(g)) + Cardinality(Inserting(g)) < GuestLimit + Cardinality(Callers)

WaitingCount == \A s \in Videos \cup Words : Cardinality(Waiting(s)) + Cardinality(Creating(s)) <= Cardinality(Callers)
-----------------------------------------------------------------------------
(* What the steps do to the tasks *)

LEMMA TaskStepEffect ==
  ASSUME TypeOK, NEW t \in Tasks, NEW from, NEW to \in TaskPc, TaskStep(t, from, to)
  PROVE  /\ task[t].pc = from
         /\ task' \in [Tasks -> [pc : TaskPc, polls : 0 .. MaxPolls]]
         /\ task'[t].pc = to
         /\ \A u \in Tasks : u # t => task'[u] = task[u]
         /\ UNCHANGED <<subject, guest, decision, due, resuming, call, sent, restarts, helper, exported>>
<1> DEFINE new == [pc |-> to, polls |-> 0]
<1>1. new \in [pc : TaskPc, polls : 0 .. MaxPolls] /\ new.pc = to
  BY BoundsAssumption
<1>2. task' = [task EXCEPT ![t] = new]
  BY DEF TaskStep
<1> HIDE DEF new
<1> QED
  BY <1>1, <1>2 DEF TaskStep, TypeOK, Tasks, creation, cookies

LEMMA CreateTasksEffect ==
  ASSUME TypeOK, NEW ts, CreateTasks(ts)
  PROVE  /\ task' \in [Tasks -> [pc : TaskPc, polls : 0 .. MaxPolls]]
         /\ \A u \in Tasks : IF u \in ts THEN task'[u].pc = "load" ELSE task'[u] = task[u]
<1>1. NewTask \in [pc : TaskPc, polls : 0 .. MaxPolls] /\ NewTask.pc = "load"
  BY BoundsAssumption DEF NewTask, TaskPc
<1>2. task' = [u \in Tasks |-> IF u \in ts THEN NewTask ELSE task[u]]
  BY DEF CreateTasks, TypeOK, Tasks
<1> HIDE DEF NewTask
<1> QED
  BY <1>1, <1>2 DEF TypeOK, Tasks

(* A task belongs to a request. *)
LEMMA TaskOfRequest == \A t \in Tasks : t[1] \in Ids
BY DEF Tasks

LEMMA IdleIsCall ==
  Idle \in [pc : CallPc, id : 0 .. MaxCalls, subject : Subjects, guest : Guests \cup {NoGuest}]
BY BoundsAssumption DEF Idle, CallPc, Subjects

LEMMA InitInvariant == Init => IInv
<1> SUFFICES ASSUME Init PROVE IInv
  OBVIOUS
<1>1. TypeOK
  <2>1. NoTask \in [pc : TaskPc, polls : 0 .. MaxPolls]
    BY BoundsAssumption DEF NoTask, TaskPc
  <2>2. HelperIdle \in [pc : {"idle", "export", "report"}, todo : SUBSET Ids, id : 0 .. MaxCalls, success : BOOLEAN]
    BY BoundsAssumption DEF HelperIdle
  <2> QED
    BY <2>1, <2>2, IdleIsCall, BoundsAssumption DEF Init, TypeOK, Status, Subjects, Ids
<1>2. \A t \in Tasks : task[t].pc = "none"
  BY DEF Init, Tasks, NoTask
<1>3. \A c \in Callers : call[c].pc = "idle"
  BY DEF Init, Idle
<1> QED
  BY <1>1, <1>2, <1>3, TaskOfRequest
     DEF Init, IInv, FreshIds, Decided, TaskReads, HelperExported, ConflictIsHarmless, CompletedWasDone,
         NoneForgotten, HelperIdle, Underway

-----------------------------------------------------------------------------
(* The invariant is inductive *)

(* Every step keeps the types. *)
LEMMA TypeStep ==
  ASSUME IInv, [Next]_vars
  PROVE  TypeOK'
<1>1. TypeOK
  BY DEF IInv
<1>2. CASE UNCHANGED vars
  BY <1>1, <1>2 DEF vars, requests, work, creation, cookies, TypeOK
<1>3. ASSUME NEW c \in Callers, Create(c)
      PROVE  TypeOK'
  <2>1. ASSUME NEW step \in CallPc, NEW s \in Subjects, NEW g \in Guests \cup {NoGuest}, Begin(c, step, s, g)
        PROVE  TypeOK'
    <3> DEFINE new == [pc |-> step, id |-> sent + 1, subject |-> s, guest |-> g]
    <3>1. sent + 1 \in 0 .. MaxCalls
      BY <1>1, <2>1, BoundsAssumption DEF TypeOK, Begin
    <3>2. new \in [pc : CallPc, id : 0 .. MaxCalls, subject : Subjects, guest : Guests \cup {NoGuest}]
      BY <3>1
    <3> QED
      BY <1>1, <2>1, <3>1, <3>2 DEF Begin, TypeOK, requests, work, cookies
  <2>2. CASE \E v \in Videos, g \in Guests \cup {NoGuest} : RequestVideo(c, v, g)
    BY <2>1, <2>2 DEF RequestVideo, CallPc, Subjects
  <2>3. CASE \E w \in Words : RequestVocabulary(c, w)
    BY <2>1, <2>3 DEF RequestVocabulary, CallPc, Subjects
  <2>4. CASE RequestCookieUpdate(c)
    BY <2>1, <2>4 DEF RequestCookieUpdate, CallPc, Subjects
  <2>8. ASSUME Return(c) \/ \E step \in CallPc : Goto(c, step)
        PROVE  /\ call' \in [Callers -> [pc : CallPc, id : 0 .. MaxCalls, subject : Subjects, guest : Guests \cup {NoGuest}]]
               /\ UNCHANGED sent
    <3>1. CASE Return(c)
      BY <1>1, <3>1, IdleIsCall DEF Return, TypeOK
    <3>2. ASSUME NEW step \in CallPc, Goto(c, step)
          PROVE  call' \in [Callers -> [pc : CallPc, id : 0 .. MaxCalls, subject : Subjects, guest : Guests \cup {NoGuest}]]
      <4>3. call[c] \in [pc : CallPc, id : 0 .. MaxCalls, subject : Subjects, guest : Guests \cup {NoGuest}]
        BY <1>1 DEF TypeOK
      <4>1. [call[c] EXCEPT !.pc = step] \in [pc : CallPc, id : 0 .. MaxCalls, subject : Subjects, guest : Guests \cup {NoGuest}]
        BY <4>3
      <4>2. call' = [call EXCEPT ![c] = [call[c] EXCEPT !.pc = step]]
        BY <3>2 DEF Goto
      <4> QED
        BY <1>1, <4>1, <4>2 DEF TypeOK
    <3> QED
      BY <2>8, <3>1, <3>2 DEF Goto
  <2>5. CASE ReadActive(c)
    <3>1. Return(c) \/ Goto(c, "insert") \/ Goto(c, "count")
      BY <2>5 DEF ReadActive
    <3> QED
      BY <1>1, <2>5, <2>8, <3>1 DEF ReadActive, CallPc, TypeOK, requests, work, cookies
  <2>6. CASE CountRequests(c)
    <3>1. Return(c) \/ Goto(c, "insert")
      BY <2>6 DEF CountRequests
    <3> QED
      BY <1>1, <2>6, <2>8, <3>1 DEF CountRequests, CallPc, TypeOK, requests, work, cookies
  <2>7. CASE InsertRequest(c)
    BY <1>1, <2>7, IdleIsCall DEF InsertRequest, Return, TypeOK, Status, work, cookies
  <2> QED
    BY <1>3, <2>2, <2>3, <2>4, <2>5, <2>6, <2>7 DEF Create
<1>4. ASSUME NEW r \in Ids, Expires(r) \/ FindExpired(r) \/ Approve(r) \/ Reject(r)
      PROVE  TypeOK'
  <2>1. CASE Expires(r)
    BY <1>1, <2>1 DEF Expires, TypeOK, requests, work, creation, cookies
  <2>2. CASE FindExpired(r)
    BY <1>1, <2>2 DEF FindExpired, TypeOK, Status, work, creation, cookies
  <2>3. CASE Approve(r)
    <3>1. task' \in [Ids \X Origins -> [pc : TaskPc, polls : 0 .. MaxPolls]]
      BY <1>1, <2>3, CreateTasksEffect DEF Approve, Tasks
    <3> QED
      BY <1>1, <2>3, <3>1 DEF Approve, TypeOK, Status, work, creation, cookies
  <2>4. CASE Reject(r)
    BY <1>1, <2>4 DEF Reject, TypeOK, Status, work, creation, cookies
  <2> QED
    BY <1>4, <2>1, <2>2, <2>3, <2>4
<1>5. ASSUME NEW t \in Tasks, Execute(t) \/ DatabaseFails(t)
      PROVE  TypeOK'
  <2> USE TaskOfRequest
  <2>1. ASSUME NEW from, NEW to \in TaskPc, TaskStep(t, from, to),
               status' \in [Ids -> Status],
               video' \in [Videos -> {"none", "processing", "completed", "failed"}],
               dictionary' \in SUBSET Ids, crashed' \in SUBSET Ids
        PROVE  TypeOK'
    <3>1. /\ task' \in [Ids \X Origins -> [pc : TaskPc, polls : 0 .. MaxPolls]]
          /\ UNCHANGED <<subject, guest, decision, due, resuming, call, sent, restarts, helper, exported>>
      BY <1>1, <2>1, TaskStepEffect DEF Tasks
    <3> QED
      BY <1>1, <2>1, <3>1 DEF TypeOK
  <2>2. CASE LoadRequest(t)
    <3>1. \E to \in TaskPc : TaskStep(t, "load", to)
      BY <2>2 DEF LoadRequest, TaskPc
    <3> QED
      BY <1>1, <2>1, <2>2, <3>1 DEF LoadRequest, TypeOK, work
  <2>3. CASE StartExecution(t)
    BY <1>1, <2>1, <2>3 DEF StartExecution, TypeOK, TaskPc, Status, work
  <2>4. CASE PrepareVideo(t)
    <3>1. \E to \in TaskPc : TaskStep(t, "run", to)
      BY <2>4 DEF PrepareVideo, TaskPc
    <3>2. video' \in [Videos -> {"none", "processing", "completed", "failed"}]
      BY <1>1, <2>4 DEF PrepareVideo, TypeOK
    <3> QED
      BY <1>1, <2>1, <2>4, <3>1, <3>2 DEF PrepareVideo, TypeOK
  <2>5. CASE PollVideo(t)
    <3>1. CASE \E to \in TaskPc : TaskStep(t, "poll", to)
      BY <1>1, <2>1, <2>5, <3>1 DEF PollVideo, TypeOK, work
    <3>2. CASE task' = [task EXCEPT ![t] = [pc |-> "poll", polls |-> task[t].polls + 1]]
      <4> DEFINE new == [pc |-> "poll", polls |-> task[t].polls + 1]
      <4>1. new \in [pc : TaskPc, polls : 0 .. MaxPolls]
        BY <1>1, <2>5, BoundsAssumption DEF PollVideo, PollsLeft, TypeOK, Tasks, TaskPc
      <4>2. task' \in [Ids \X Origins -> [pc : TaskPc, polls : 0 .. MaxPolls]]
        BY <1>1, <3>2, <4>1 DEF TypeOK
      <4>3. UNCHANGED <<subject, guest, decision, due, resuming, call, sent, restarts, helper, exported, status, video, dictionary, crashed>>
        BY <2>5 DEF PollVideo, TaskStep, work, creation, cookies
      <4> QED
        BY <1>1, <4>2, <4>3 DEF TypeOK
    <3> QED
      BY <2>5, <3>1, <3>2 DEF PollVideo, TaskPc
  <2>6. CASE PollTimesOut(t)
    BY <1>1, <2>1, <2>6 DEF PollTimesOut, TypeOK, TaskPc, work
  <2>7. CASE ReadDictionary(t)
    <3>1. \E to \in TaskPc : TaskStep(t, "run", to)
      BY <2>7 DEF ReadDictionary, TaskPc
    <3> QED
      BY <1>1, <2>1, <2>7, <3>1 DEF ReadDictionary, TypeOK, work
  <2>8. CASE InsertEntry(t)
    BY <1>1, <2>1, <2>8 DEF InsertEntry, TypeOK, TaskPc
  <2>9. CASE InsertConflict(t)
    BY <1>1, <2>1, <2>9 DEF InsertConflict, TypeOK, TaskPc, work
  <2>10. CASE Succeed(t)
    BY <1>1, <2>1, <2>10 DEF Succeed, TypeOK, TaskPc, Status, work
  <2>11. CASE Fail(t)
    BY <1>1, <2>1, <2>11 DEF Fail, TypeOK, TaskPc, Status, work
  <2>12. CASE DatabaseFails(t)
    BY <1>1, <2>1, <2>12 DEF DatabaseFails, TypeOK, TaskPc, work
  <2> QED
    BY <1>5, <2>2, <2>3, <2>4, <2>5, <2>6, <2>7, <2>8, <2>9, <2>10, <2>11, <2>12 DEF Execute
<1>6. ASSUME NEW v \in Videos, VideoMoves(v)
      PROVE  TypeOK'
  <2>1. video' \in [Videos -> {"none", "processing", "completed", "failed"}]
    BY <1>1, <1>6 DEF VideoMoves, TypeOK
  <2> QED
    BY <1>1, <1>6, <2>1 DEF VideoMoves, TypeOK, requests, creation, cookies
<1>7. CASE Restart
  <2>1. NoTask \in [pc : TaskPc, polls : 0 .. MaxPolls]
    BY BoundsAssumption DEF NoTask, TaskPc
  <2> QED
    BY <1>1, <1>7, <2>1, IdleIsCall, BoundsAssumption DEF Restart, TypeOK, requests, work, cookies
<1>8. CASE Resume
  <2>1. task' \in [Ids \X Origins -> [pc : TaskPc, polls : 0 .. MaxPolls]]
    BY <1>1, <1>8, CreateTasksEffect DEF Resume, Tasks
  <2> QED
    BY <1>1, <1>8, <2>1 DEF Resume, TypeOK, requests, work, creation, cookies
<1>9. CASE ResumeFails
  BY <1>1, <1>9 DEF ResumeFails, Underway, TypeOK, requests, work, creation, cookies
<1>10. CASE HelperStep
  <2> DEFINE Helper == [pc : {"idle", "export", "report"}, todo : SUBSET Ids, id : 0 .. MaxCalls, success : BOOLEAN]
  <2>1. HelperIdle \in Helper
    BY BoundsAssumption DEF HelperIdle
  <2>2. CASE ListApproved
    BY <1>1, <2>2 DEF ListApproved, TypeOK, requests, work, creation
  <2>3. CASE \E r \in Ids, success \in BOOLEAN : ExportCookies(r, success)
    <3>1. PICK r \in Ids, success \in BOOLEAN : ExportCookies(r, success)
      BY <2>3
    <3>2. r \in 0 .. MaxCalls
      BY BoundsAssumption DEF Ids
    <3> QED
      BY <1>1, <3>1, <3>2 DEF ExportCookies, TypeOK, requests, work, creation
  <2>4. CASE \E arrives, answered \in BOOLEAN : ReportExport(arrives, answered)
    <3>1. PICK arrives \in BOOLEAN, answered \in BOOLEAN : ReportExport(arrives, answered)
      BY <2>4
    <3>2. helper' \in Helper
      <4>1. [HelperIdle EXCEPT !.pc = "export", !.todo = helper.todo] \in Helper
        BY <1>1, <2>1 DEF TypeOK
      <4>2. [helper EXCEPT !.success = FALSE] \in Helper
        BY <1>1 DEF TypeOK
      <4> QED
        BY <2>1, <3>1, <4>1, <4>2 DEF ReportExport, AfterReport
    <3>3. status' \in [Ids -> Status]
      BY <1>1, <3>1 DEF ReportExport, TypeOK, Status
    <3> QED
      BY <1>1, <3>1, <3>2, <3>3 DEF ReportExport, TypeOK, work, creation
  <2> QED
    BY <1>10, <2>2, <2>3, <2>4 DEF HelperStep
<1> QED
  BY <1>2, <1>3, <1>4, <1>5, <1>6, <1>7, <1>8, <1>9, <1>10 DEF Next, Tasks

(* The id a call keeps is one of the ids. *)
LEMMA CallIds ==
  ASSUME IInv
  PROVE  \A c \in Callers : call[c].pc # "idle" => call[c].id \in Ids
BY BoundsAssumption DEF IInv, FreshIds, TypeOK, Ids

(* A step of execution keeps the invariant if the status it leaves is one  *)
(* of an approved request and the task's next place is consistent.         *)
Rest == FreshIds /\ Decided /\ TaskReads /\ HelperExported /\ ConflictIsHarmless /\ CompletedWasDone /\ NoneForgotten

LEMMA CreateKeepsRest ==
  ASSUME IInv, NEW c \in Callers, Create(c)
  PROVE  Rest'
<1> USE DEF Rest
<1>1. TypeOK
  BY DEF IInv
<1>2. ASSUME NEW step, NEW s, NEW g, step # "idle", Begin(c, step, s, g)
      PROVE  Rest'
  <2> USE DEF Begin, requests, work, cookies
  <2>1. FreshIds'
    BY <1>1, <1>2, BoundsAssumption DEF IInv, FreshIds, TypeOK, Ids
  <2>2. UNCHANGED <<status, subject, decision, task, dictionary, helper, exported, crashed, resuming>>
    BY <1>2
  <2> QED
    BY <2>1, <2>2
       DEF IInv, Decided, TaskReads, HelperExported, ConflictIsHarmless, CompletedWasDone, NoneForgotten,
           WordsOf, Underway
<1>3. CASE \E v \in Videos, g \in Guests \cup {NoGuest} : RequestVideo(c, v, g)
  BY <1>2, <1>3 DEF RequestVideo
<1>4. CASE \E w \in Words : RequestVocabulary(c, w)
  BY <1>2, <1>4 DEF RequestVocabulary
<1>5. CASE RequestCookieUpdate(c)
  BY <1>2, <1>5 DEF RequestCookieUpdate
<1>6. CASE ReadActive(c) \/ CountRequests(c)
  <2>1. \/ Return(c)
        \/ call[c].pc # "idle" /\ \E step \in {"insert", "count"} : Goto(c, step)
    BY <1>6 DEF ReadActive, CountRequests
  <2>2. UNCHANGED <<status, subject, decision, task, dictionary, helper, exported, crashed, resuming>>
    BY <1>6 DEF ReadActive, CountRequests, requests, work, cookies
  <2>3. /\ UNCHANGED sent
        /\ \A d \in Callers : call'[d].pc # "idle" => call[d].pc # "idle" /\ call'[d].id = call[d].id
    BY <1>1, <2>1 DEF Goto, Return, Idle, TypeOK
  <2>4. FreshIds'
    BY <2>2, <2>3 DEF IInv, FreshIds
  <2> QED
    BY <2>2, <2>4
       DEF IInv, Decided, TaskReads, HelperExported, ConflictIsHarmless, CompletedWasDone, NoneForgotten,
           WordsOf, Underway
<1>7. CASE InsertRequest(c)
  <2> DEFINE r == call[c].id
  <2>1. r \in 1 .. sent /\ r \in Ids /\ status[r] = "none"
    BY <1>1, <1>7, BoundsAssumption DEF InsertRequest, IInv, FreshIds, TypeOK, Ids
  <2>2. /\ status'[r] = "pending"
        /\ \A q \in Ids : q # r => status'[q] = status[q] /\ subject'[q] = subject[q]
        /\ UNCHANGED <<decision, task, dictionary, helper, exported, crashed, resuming, sent>>
    BY <1>1, <1>7, <2>1 DEF InsertRequest, Return, TypeOK, work, cookies
  <2>3. /\ call'[c].pc = "idle"
        /\ \A d \in Callers : d # c => call'[d] = call[d]
    BY <1>1, <1>7 DEF InsertRequest, Return, Idle, TypeOK
  <2>4. decision[r] = {} /\ r \notin dictionary /\ \A t \in Tasks : t[1] = r => task[t].pc = "none"
    BY <2>1 DEF IInv, Decided
  <2>5. dictionary \subseteq Ids /\ call[c].pc # "idle"
    BY <1>1, <1>7 DEF TypeOK, InsertRequest
  <2>6. (WordsOf(dictionary))' = WordsOf(dictionary)
    BY <2>2, <2>4, <2>5 DEF WordsOf
  <2> HIDE DEF r
  <2>7. FreshIds'
    <3>1. \A d \in Callers : call[d].pc # "idle" /\ d # c => call[d].id # r
      BY <2>5 DEF IInv, FreshIds, r
    <3>2. \A d \in Callers : call[d].pc # "idle" => call[d].id \in Ids
      BY <1>1, BoundsAssumption DEF IInv, FreshIds, TypeOK, Ids
    <3> QED
      BY <2>1, <2>2, <2>3, <3>1, <3>2, BoundsAssumption DEF IInv, FreshIds, Ids
  <2>8. Decided'
    BY <2>1, <2>2, <2>4 DEF IInv, Decided
  <2>9. TaskReads'
    BY <2>2, <2>4, <2>6, TaskOfRequest DEF IInv, TaskReads
  <2>10. Underway' = Underway
    BY <2>1, <2>2 DEF Underway
  <2>11. HelperExported' /\ ConflictIsHarmless' /\ NoneForgotten'
    BY <2>2, <2>10 DEF IInv, HelperExported, ConflictIsHarmless, NoneForgotten
  <2>12. CompletedWasDone'
    BY <2>2, <2>6 DEF IInv, CompletedWasDone
  <2> QED
    BY <2>7, <2>8, <2>9, <2>11, <2>12
<1> QED
  BY <1>3, <1>4, <1>5, <1>6, <1>7 DEF Create

LEMMA DecisionKeepsRest ==
  ASSUME IInv, NEW r \in Ids, Expires(r) \/ FindExpired(r) \/ Approve(r) \/ Reject(r)
  PROVE  Rest'
<1> USE DEF Rest
<1>1. TypeOK
  BY DEF IInv
<1>2. CASE Expires(r)
  BY <1>2 DEF Expires, requests, work, creation, cookies, IInv, FreshIds, Decided, TaskReads, HelperExported,
     ConflictIsHarmless, CompletedWasDone, NoneForgotten, WordsOf, Underway
<1>3. CASE FindExpired(r) \/ Reject(r)
  <2>1. /\ status[r] # "none" /\ status'[r] \in {"expired", "rejected"}
        /\ \A q \in Ids : q # r => status'[q] = status[q] /\ decision'[q] = decision[q]
        /\ status[r] = "pending" \/ decision'[r] = decision[r]
        /\ UNCHANGED <<subject, call, sent, task, dictionary, helper, exported, crashed, resuming>>
    BY <1>1, <1>3 DEF FindExpired, Reject, EnsurePending, TypeOK, work, creation, cookies
  <2>2. FreshIds' /\ HelperExported' /\ TaskReads'
    <3>1. FreshIds'
      BY <2>1, CallIds DEF IInv, FreshIds
    <3> QED
      BY <2>1, <3>1 DEF IInv, HelperExported, TaskReads, WordsOf
  <2>3. Decided'
    <3>1. \A q \in Ids : decision[q] = {"approved"} => decision'[q] = decision[q]
      BY <2>1 DEF IInv, Decided
    <3>2. dictionary \subseteq Ids
      BY <1>1 DEF TypeOK
    <3> QED
      BY <2>1, <3>1, <3>2, TaskOfRequest DEF IInv, Decided
  <2>4. Underway' \subseteq Underway
    BY <2>1 DEF Underway
  <2>5. ConflictIsHarmless' /\ CompletedWasDone' /\ NoneForgotten'
    BY <2>1, <2>4 DEF IInv, ConflictIsHarmless, CompletedWasDone, NoneForgotten, WordsOf
  <2> QED
    BY <2>2, <2>3, <2>5
<1>4. CASE Approve(r)
  <2>1. /\ status[r] = "pending" /\ status'[r] = "approved"
        /\ \A q \in Ids : q # r => status'[q] = status[q] /\ decision'[q] = decision[q]
        /\ decision'[r] = decision[r] \cup {"approved"}
        /\ UNCHANGED <<subject, call, sent, dictionary, helper, exported, crashed, resuming>>
    BY <1>1, <1>4 DEF Approve, EnsurePending, TypeOK, work, creation, cookies
  <2>2. decision[r] = {} /\ decision'[r] = {"approved"}
    BY <2>1 DEF IInv, Decided
  <2>3. \A u \in Tasks : u[1] # r => task'[u] = task[u]
    BY <1>1, <1>4, CreateTasksEffect DEF Approve, ApprovalTasks
  <2>4. \A u \in Tasks : u[1] = r => task[u].pc = "none" /\ task'[u].pc \in {"none", "load"}
                                     /\ (subject[r] = Cookies => task'[u].pc = "none")
    <3>1. \A u \in Tasks : u[1] = r => task[u].pc = "none"
      BY <2>2 DEF IInv, Decided
    <3>2. \A u \in Tasks : IF u \in ApprovalTasks(r) THEN task'[u].pc = "load" ELSE task'[u] = task[u]
      BY <1>1, <1>4, CreateTasksEffect DEF Approve
    <3>3. subject[r] = Cookies => ApprovalTasks(r) = {}
      BY DEF ApprovalTasks
    <3> QED
      BY <3>1, <3>2, <3>3
  <2>5. subject[r] # Cookies => task'[<<r, "approval">>].pc = "load"
    BY <1>1, <1>4, CreateTasksEffect DEF Approve, ApprovalTasks, Tasks, Origins
  <2>6. FreshIds' /\ HelperExported'
    BY <2>1, CallIds DEF IInv, FreshIds, HelperExported
  <2>7. Decided'
    <3>1. dictionary \subseteq Ids
      BY <1>1 DEF TypeOK
    <3> QED
      BY <2>1, <2>2, <2>3, <3>1, TaskOfRequest DEF IInv, Decided
  <2>8. TaskReads'
    BY <2>1, <2>3, <2>4 DEF IInv, TaskReads, WordsOf
  <2>9. Underway' \subseteq Underway \cup {r}
    BY <2>1 DEF Underway
  <2>10. r \notin dictionary
    BY <2>2 DEF IInv, Decided
  <2>11. ConflictIsHarmless'
    BY <2>1, <2>3, <2>9, <2>10 DEF IInv, ConflictIsHarmless
  <2>12. CompletedWasDone'
    BY <2>1 DEF IInv, CompletedWasDone, WordsOf
  <2>13. NoneForgotten'
    <3>1. ASSUME NEW q \in Underway'
          PROVE  resuming' \/ q \in crashed' \/ \E o \in Origins : task'[<<q, o>>].pc # "none"
      <4>1. CASE q = r
        <5>1. subject[r] # Cookies
          BY <2>1, <3>1, <4>1 DEF Underway
        <5> QED
          BY <2>5, <4>1, <5>1 DEF Origins
      <4>2. CASE q # r
        BY <2>1, <2>3, <2>9, <3>1, <4>2 DEF IInv, NoneForgotten, Tasks, Underway
      <4> QED
        BY <4>1, <4>2
    <3> QED
      BY <3>1 DEF NoneForgotten
  <2> QED
    BY <2>6, <2>7, <2>8, <2>11, <2>12, <2>13
<1> QED
  BY <1>2, <1>3, <1>4

(* A task runs an approved request, which may have expired by now.  A step *)
(* of the task that leaves the other rows alone keeps the invariant if     *)
(* what the task claims at its next place is true.                         *)
LEMMA TaskKeepsRest ==
  ASSUME IInv, NEW t \in Tasks, NEW from, NEW to \in TaskPc, from # "none", TaskStep(t, from, to),
         \A q \in Ids : q # t[1] => status'[q] = status[q],
         \/ status'[t[1]] = status[t[1]]
         \/ status'[t[1]] = "executing" /\ to # "none"
         \/ status'[t[1]] = "failed"
         \/ status'[t[1]] = "completed" /\ from = "succeed",
         \/ dictionary' = dictionary /\ (to = "insert" => from = "run" /\ t[1] \notin dictionary)
         \/ dictionary' = dictionary \cup {t[1]} /\ from = "insert" /\ to = "succeed" /\ t[1] \notin dictionary,
         crashed \subseteq crashed',
         to = "none" => \/ t[1] \notin Underway' \/ t[1] \in crashed'
                        \/ from = "insert" /\ t[1] \in dictionary /\ status' = status,
         to = "poll" => subject[t[1]] \in Videos,
         to = "insert" => subject[t[1]] \in Words,
         to = "succeed" /\ subject[t[1]] \in Words => t[1] \in dictionary' \/ subject[t[1]] \in WordsOf(dictionary)
  PROVE  Rest'
<1> DEFINE r == t[1]
<1>1. TypeOK
  BY DEF IInv
<1>2. /\ task[t].pc = from
      /\ task'[t].pc = to
      /\ \A u \in Tasks : u # t => task'[u] = task[u]
      /\ UNCHANGED <<subject, guest, decision, resuming, call, sent, helper, exported>>
  BY <1>1, TaskStepEffect
<1>3. r \in Ids /\ decision[r] = {"approved"} /\ subject[r] # Cookies
  BY <1>2, TaskOfRequest DEF IInv, Decided, TaskReads
<1>4. status[r] \notin {"none", "pending"}
  BY <1>3 DEF IInv, Decided
<1>5. status'[r] \notin {"none", "pending"}
  BY <1>4
<1>6. dictionary \subseteq Ids /\ dictionary' \subseteq Ids /\ dictionary \subseteq dictionary'
  BY <1>1, <1>3 DEF TypeOK
<1>7. WordsOf(dictionary) \subseteq (WordsOf(dictionary))' /\ \A q \in dictionary' : subject[q] \in (WordsOf(dictionary))'
  BY <1>2, <1>6 DEF WordsOf
<1>8. FreshIds' /\ HelperExported'
  <2>1. \A q \in Ids : status'[q] = "none" <=> status[q] = "none"
    BY <1>4, <1>5
  <2> QED
    BY <1>2, <2>1, CallIds DEF IInv, FreshIds, HelperExported
<1>9. Decided'
  <2>1. \A q \in Ids : status'[q] \in {"none", "pending"} => decision'[q] = {}
    BY <1>2, <1>5 DEF IInv, Decided
  <2>2. \A q \in Ids : status'[q] \in {"approved", "executing", "completed", "failed"} => decision'[q] = {"approved"}
    BY <1>2, <1>3 DEF IInv, Decided
  <2>3. \A u \in Tasks : task'[u].pc # "none" => decision'[u[1]] = {"approved"}
    BY <1>2, <1>3 DEF IInv, Decided
  <2>4. \A q \in dictionary' : decision'[q] = {"approved"}
    BY <1>2, <1>3 DEF IInv, Decided
  <2> QED
    BY <2>1, <2>2, <2>3, <2>4 DEF Decided
<1>10. TaskReads'
  <2>1. ASSUME NEW u \in Tasks, u # t
        PROVE  /\ task'[u].pc # "none" => subject'[u[1]] # Cookies
               /\ task'[u].pc = "poll" => subject'[u[1]] \in Videos
               /\ task'[u].pc = "insert" => subject'[u[1]] \in Words
               /\ task'[u].pc = "succeed" /\ subject'[u[1]] \in Words => subject'[u[1]] \in (WordsOf(dictionary))'
    BY <1>2, <1>7, <2>1 DEF IInv, TaskReads
  <2>2. /\ task'[t].pc # "none" => subject'[r] # Cookies
        /\ task'[t].pc = "poll" => subject'[r] \in Videos
        /\ task'[t].pc = "insert" => subject'[r] \in Words
        /\ task'[t].pc = "succeed" /\ subject'[r] \in Words => subject'[r] \in (WordsOf(dictionary))'
    BY <1>2, <1>3, <1>7
  <2> QED
    BY <2>1, <2>2 DEF TaskReads
<1>11. CompletedWasDone'
  <2>1. ASSUME NEW q \in Ids, status'[q] = "completed", q # r \/ status'[r] = status[r]
        PROVE  /\ subject'[q] \in Words => subject'[q] \in (WordsOf(dictionary))'
               /\ subject'[q] = Cookies => q \in exported'
    <3>1. status[q] = "completed"
      BY <2>1
    <3> QED
      BY <1>2, <1>7, <3>1 DEF IInv, CompletedWasDone
  <2>2. ASSUME status'[r] = "completed", from = "succeed"
        PROVE  /\ subject'[r] \in Words => subject'[r] \in (WordsOf(dictionary))'
               /\ subject'[r] = Cookies => r \in exported'
    BY <1>2, <1>3, <1>7, <2>2 DEF IInv, TaskReads
  <2> QED
    BY <2>1, <2>2 DEF CompletedWasDone
<1>12. \A q \in Ids : q # r => (q \in Underway' <=> q \in Underway)
  BY <1>2 DEF Underway
<1>13. NoneForgotten'
  <2>1. ASSUME NEW q \in Underway', q # r
        PROVE  resuming' \/ q \in crashed' \/ \E o \in Origins : task'[<<q, o>>].pc # "none"
    <3>1. q \in Ids /\ q \in Underway
      BY <1>12, <2>1 DEF Underway
    <3>2. \A o \in Origins : <<q, o>> \in Tasks /\ <<q, o>> # t
      BY <2>1, <3>1 DEF Tasks
    <3> QED
      BY <1>2, <3>1, <3>2 DEF IInv, NoneForgotten
  <2>2. ASSUME r \in Underway'
        PROVE  resuming' \/ r \in crashed' \/ \E o \in Origins : task'[<<r, o>>].pc # "none"
    <3>1. t[2] \in Origins /\ t = <<r, t[2]>>
      BY DEF Tasks
    <3>2. CASE to # "none"
      BY <1>2, <3>1, <3>2
    <3>3. CASE to = "none" /\ from = "insert" /\ r \in dictionary /\ status' = status
      <4>1. r \in Underway
        BY <1>2, <2>2, <3>3 DEF Underway
      <4>2. PICK o \in Origins : o # t[2]
        BY <3>1 DEF Origins
      <4>3. <<r, o>> \in Tasks /\ <<r, o>> # t /\ <<r, o>>[1] = r
        BY <1>3, <3>1, <4>2 DEF Tasks
      <4>4. task[<<r, o>>].pc # "none" \/ r \in crashed
        BY <1>2, <3>3, <4>1, <4>3 DEF IInv, ConflictIsHarmless
      <4> QED
        BY <1>2, <4>2, <4>3, <4>4
    <3> QED
      BY <2>2, <3>2, <3>3
  <2> QED
    BY <2>1, <2>2 DEF NoneForgotten
<1>14. ConflictIsHarmless'
  <2> SUFFICES ASSUME NEW u \in Tasks, NEW w \in Tasks,
                      u # w, u[1] = w[1], task'[u].pc = "insert", u[1] \in dictionary'
               PROVE  /\ task'[w].pc # "insert"
                      /\ task'[w].pc # "none" \/ u[1] \in crashed' \/ u[1] \notin Underway'
    BY DEF ConflictIsHarmless
  <2>1. CASE u[1] # r
    BY <1>2, <1>6, <1>12, <2>1, TaskOfRequest DEF IInv, ConflictIsHarmless
  <2>2. CASE u = t
    <3>1. from = "run" /\ r \notin dictionary /\ dictionary' = dictionary
      BY <1>2, <2>2
    <3> QED
      BY <2>2, <3>1
  <2>3. CASE u[1] = r /\ u # t
    <3>1. w = t /\ task[u].pc = "insert"
      <4>1. \A x \in Tasks : x = <<x[1], x[2]>> /\ x[2] \in Origins
        BY DEF Tasks
      <4>2. u = <<r, u[2]>> /\ w = <<r, w[2]>> /\ t = <<r, t[2]>>
        BY <2>3, <4>1
      <4>3. u[2] # w[2] /\ u[2] # t[2]
        BY <2>3, <4>2
      <4>4. w[2] = t[2]
        BY <4>1, <4>3 DEF Origins
      <4> QED
        BY <1>2, <2>3, <4>2, <4>4
    <3>2. CASE dictionary' = dictionary
      <4>1. task[t].pc # "insert" /\ r \in dictionary
        BY <2>3, <3>1, <3>2 DEF IInv, ConflictIsHarmless
      <4>2. to # "insert" /\ from # "insert"
        BY <1>2, <4>1, <3>2
      <4> QED
        BY <1>2, <2>3, <3>1, <4>2
    <3>3. CASE to = "succeed"
      BY <1>2, <3>1, <3>3
    <3> QED
      BY <3>2, <3>3
  <2> QED
    BY <2>1, <2>2, <2>3
<1> QED
  BY <1>8, <1>9, <1>10, <1>11, <1>13, <1>14 DEF Rest

LEMMA ExecutionKeepsRest ==
  ASSUME IInv, NEW t \in Tasks, Execute(t) \/ DatabaseFails(t)
  PROVE  Rest'
<1> DEFINE r == t[1]
<1>1. TypeOK /\ r \in Ids
  BY TaskOfRequest DEF IInv
<1>2. crashed \subseteq Ids
  BY <1>1 DEF TypeOK
<1>3. ASSUME NEW new \in Status, status' = [status EXCEPT ![r] = new]
      PROVE  status'[r] = new /\ \A q \in Ids : q # r => status'[q] = status[q]
  BY <1>1, <1>3 DEF TypeOK
<1>4. CASE LoadRequest(t)
  <2>1. PICK to \in TaskPc : TaskStep(t, "load", to) /\ to \in {"none", "start", "run"}
                             /\ (to = "none" => status[r] \notin Executable)
    BY <1>4 DEF LoadRequest, TaskPc
  <2>2. status' = status /\ dictionary' = dictionary /\ crashed' = crashed
    BY <1>4 DEF LoadRequest, work
  <2>3. to = "none" => r \notin Underway'
    BY <2>1, <2>2 DEF Executable, Underway
  <2> QED
    BY <2>1, <2>2, <2>3, TaskKeepsRest
<1>5. CASE StartExecution(t)
  <2>1. TaskStep(t, "start", "run") /\ dictionary' = dictionary /\ crashed' = crashed
    BY <1>5 DEF StartExecution, work
  <2>2. status'[r] = "executing" /\ \A q \in Ids : q # r => status'[q] = status[q]
    BY <1>3, <1>5 DEF StartExecution, Status
  <2> QED
    BY <2>1, <2>2, TaskKeepsRest DEF TaskPc
<1>6. CASE PrepareVideo(t)
  <2>1. PICK to \in {"succeed", "poll", "fail"} : TaskStep(t, "run", to)
    BY <1>6 DEF PrepareVideo
  <2>2. status' = status /\ dictionary' = dictionary /\ crashed' = crashed /\ subject[r] \in Videos /\ subject[r] \notin Words
    BY <1>6, SubjectsAssumption DEF PrepareVideo
  <2> QED
    BY <2>1, <2>2, TaskKeepsRest DEF TaskPc
<1>7. CASE PollVideo(t)
  <2>1. status' = status /\ dictionary' = dictionary /\ crashed' = crashed
    BY <1>7 DEF PollVideo, work
  <2>2. subject[r] \in Videos /\ subject[r] \notin Words
    BY <1>7, SubjectsAssumption DEF PollVideo, IInv, TaskReads
  <2>3. CASE \E to \in {"succeed", "fail"} : TaskStep(t, "poll", to)
    BY <2>1, <2>2, <2>3, TaskKeepsRest DEF TaskPc
  <2>4. CASE task' = [task EXCEPT ![t] = [pc |-> "poll", polls |-> task[t].polls + 1]]
    <3>1. \A u \in Tasks : task'[u].pc = task[u].pc
      BY <1>1, <1>7, <2>4 DEF PollVideo, TypeOK, Tasks
    <3>2. UNCHANGED <<subject, decision, resuming, call, sent, helper, exported>>
      BY <1>7 DEF PollVideo, TaskStep, creation, cookies
    <3>3. FreshIds' /\ HelperExported'
      BY <2>1, <3>2 DEF IInv, FreshIds, HelperExported
    <3>4. Decided' /\ TaskReads' /\ CompletedWasDone'
      BY <2>1, <3>1, <3>2 DEF IInv, Decided, TaskReads, CompletedWasDone, WordsOf
    <3>5. Underway' = Underway
      BY <2>1, <3>2 DEF Underway
    <3>6. ConflictIsHarmless'
      BY <2>1, <3>1, <3>5 DEF IInv, ConflictIsHarmless
    <3>7. NoneForgotten'
      <4>1. \A q \in Underway, o \in Origins : <<q, o>> \in Tasks
        BY DEF Underway, Tasks
      <4> QED
        BY <2>1, <3>1, <3>2, <3>5, <4>1 DEF IInv, NoneForgotten
    <3> QED
      BY <3>3, <3>4, <3>6, <3>7 DEF Rest
  <2> QED
    BY <1>7, <2>3, <2>4 DEF PollVideo
<1>8. CASE PollTimesOut(t)
  <2>1. TaskStep(t, "poll", "fail") /\ status' = status /\ dictionary' = dictionary /\ crashed' = crashed
    BY <1>8 DEF PollTimesOut, work
  <2> QED
    BY <2>1, TaskKeepsRest DEF TaskPc
<1>9. CASE ReadDictionary(t)
  <2>1. PICK to \in {"succeed", "insert"} : TaskStep(t, "run", to)
                                            /\ (to = "succeed" <=> subject[r] \in WordsOf(dictionary))
    BY <1>9 DEF ReadDictionary, ExistingWords
  <2>2. status' = status /\ dictionary' = dictionary /\ crashed' = crashed /\ subject[r] \in Words
    BY <1>9 DEF ReadDictionary, work
  <2>3. to = "insert" => r \notin dictionary
    BY <2>1 DEF WordsOf
  <2> QED
    BY <2>1, <2>2, <2>3, TaskKeepsRest DEF TaskPc
<1>10. CASE InsertEntry(t)
  <2>1. /\ TaskStep(t, "insert", "succeed") /\ status' = status /\ crashed' = crashed
        /\ r \notin dictionary /\ dictionary' = dictionary \cup {r}
    BY <1>10 DEF InsertEntry
  <2> QED
    BY <2>1, TaskKeepsRest DEF TaskPc
<1>11. CASE InsertConflict(t)
  <2>1. /\ TaskStep(t, "insert", "none") /\ status' = status /\ dictionary' = dictionary /\ crashed' = crashed
        /\ r \in dictionary
    BY <1>11 DEF InsertConflict, work
  <2> QED
    BY <2>1, TaskKeepsRest DEF TaskPc
<1>12. CASE Succeed(t)
  <2>1. TaskStep(t, "succeed", "none") /\ dictionary' = dictionary /\ crashed' = crashed
    BY <1>12 DEF Succeed, work
  <2>2. status'[r] = "completed" /\ \A q \in Ids : q # r => status'[q] = status[q]
    BY <1>3, <1>12 DEF Succeed, Status
  <2>3. r \notin Underway'
    BY <2>2 DEF Underway
  <2> QED
    BY <2>1, <2>2, <2>3, TaskKeepsRest DEF TaskPc
<1>13. CASE Fail(t)
  <2>1. TaskStep(t, "fail", "none") /\ dictionary' = dictionary /\ crashed' = crashed
    BY <1>13 DEF Fail, work
  <2>2. status'[r] = "failed" /\ \A q \in Ids : q # r => status'[q] = status[q]
    BY <1>3, <1>13 DEF Fail, Status
  <2>3. r \notin Underway'
    BY <2>2 DEF Underway
  <2> QED
    BY <2>1, <2>2, <2>3, TaskKeepsRest DEF TaskPc
<1>14. CASE DatabaseFails(t)
  <2>1. /\ TaskStep(t, task[t].pc, "none") /\ task[t].pc # "none"
        /\ status' = status /\ dictionary' = dictionary /\ crashed' = crashed \cup {r}
    BY <1>14 DEF DatabaseFails, work
  <2> QED
    BY <2>1, TaskKeepsRest DEF TaskPc
<1> QED
  BY <1>4, <1>5, <1>6, <1>7, <1>8, <1>9, <1>10, <1>11, <1>12, <1>13, <1>14 DEF Execute

LEMMA RestartKeepsRest ==
  ASSUME IInv, Restart \/ Resume \/ ResumeFails
  PROVE  Rest'
<1>1. TypeOK
  BY DEF IInv
<1>2. UNCHANGED <<status, subject, decision, dictionary, sent, helper, exported>>
  BY DEF Restart, Resume, ResumeFails, requests, work, creation, cookies
<1>3. /\ Underway' = Underway
      /\ HelperExported' /\ CompletedWasDone'
  BY <1>2 DEF Underway, IInv, HelperExported, CompletedWasDone, WordsOf
<1>4. CASE Restart
  <2>1. \A u \in Tasks : task'[u].pc = "none"
    BY <1>1, <1>4 DEF Restart, NoTask, TypeOK, Tasks
  <2>2. \A c \in Callers : call'[c].pc = "idle"
    BY <1>4 DEF Restart, Idle
  <2>3. FreshIds' /\ Decided' /\ TaskReads' /\ ConflictIsHarmless'
    BY <1>2, <2>1, <2>2 DEF IInv, FreshIds, Decided, TaskReads, ConflictIsHarmless
  <2>4. NoneForgotten'
    BY <1>4 DEF Restart, NoneForgotten
  <2> QED
    BY <1>3, <2>3, <2>4 DEF Rest
<1>5. CASE Resume
  <2>1. \A u \in Tasks : IF u \in Interrupted \X {"resume"} THEN task'[u].pc = "load" ELSE task'[u] = task[u]
    BY <1>1, <1>5, CreateTasksEffect DEF Resume
  <2>2. call' = call /\ crashed' = crashed
    BY <1>5 DEF Resume, creation
  <2>3. \A u \in Tasks : task'[u].pc # task[u].pc =>
          task'[u].pc = "load" /\ decision[u[1]] = {"approved"} /\ subject[u[1]] # Cookies
    BY <2>1 DEF Interrupted, IInv, Decided
  <2>4. FreshIds'
    BY <1>2, <2>2 DEF IInv, FreshIds
  <2>5. Decided' /\ TaskReads'
    BY <1>2, <2>3 DEF IInv, Decided, TaskReads, WordsOf
  <2>6. ConflictIsHarmless'
    BY <1>2, <1>3, <2>2, <2>3 DEF IInv, ConflictIsHarmless
  <2>7. NoneForgotten'
    <3>1. ASSUME NEW q \in Underway
          PROVE  task'[<<q, "resume">>].pc = "load"
      BY <2>1, <3>1 DEF Underway, Interrupted, Tasks, Origins
    <3> QED
      BY <1>3, <3>1 DEF NoneForgotten, Origins
  <2> QED
    BY <1>3, <2>4, <2>5, <2>6, <2>7 DEF Rest
<1>6. CASE ResumeFails
  <2>1. call' = call /\ task' = task /\ crashed' = crashed \cup Underway
    BY <1>6 DEF ResumeFails, creation
  <2>2. FreshIds' /\ Decided' /\ TaskReads'
    BY <1>2, <2>1 DEF IInv, FreshIds, Decided, TaskReads, WordsOf
  <2>3. ConflictIsHarmless' /\ NoneForgotten'
    BY <1>2, <1>3, <2>1 DEF IInv, ConflictIsHarmless, NoneForgotten
  <2> QED
    BY <1>3, <2>2, <2>3 DEF Rest
<1> QED
  BY <1>4, <1>5, <1>6

LEMMA HelperKeepsRest ==
  ASSUME IInv, HelperStep
  PROVE  Rest'
<1>1. TypeOK
  BY DEF IInv
<1>2. UNCHANGED <<subject, decision, dictionary, call, sent, task, resuming, crashed>>
  BY DEF HelperStep, ListApproved, ExportCookies, ReportExport, requests, work, creation
<1>3. CASE ListApproved \/ \E r \in Ids, success \in BOOLEAN : ExportCookies(r, success)
  <2>1. status' = status /\ exported \subseteq exported'
    BY <1>3 DEF ListApproved, ExportCookies, requests
  <2>2. HelperExported' /\ (helper'.pc = "report" => helper'.id \in Ids)
    <3>1. CASE ListApproved
      <4>1. helper'.pc = "export"
        BY <1>1, <3>1 DEF ListApproved, TypeOK
      <4> QED
        BY <4>1 DEF HelperExported
    <3>2. CASE \E r \in Ids, success \in BOOLEAN : ExportCookies(r, success)
      BY <1>1, <3>2 DEF ExportCookies, HelperExported, TypeOK
    <3> QED
      BY <1>3, <3>1, <3>2
  <2>3. FreshIds'
    BY <1>2, <2>1, <2>2 DEF IInv, FreshIds
  <2>4. Decided' /\ TaskReads' /\ CompletedWasDone'
    BY <1>2, <2>1 DEF IInv, Decided, TaskReads, CompletedWasDone, WordsOf
  <2>5. Underway' = Underway
    BY <1>2, <2>1 DEF Underway
  <2>6. ConflictIsHarmless' /\ NoneForgotten'
    BY <1>2, <2>5 DEF IInv, ConflictIsHarmless, NoneForgotten
  <2> QED
    BY <2>2, <2>3, <2>4, <2>6 DEF Rest
<1>4. ASSUME NEW arrives \in BOOLEAN, NEW answered \in BOOLEAN, ReportExport(arrives, answered)
      PROVE  Rest'
  <2> DEFINE r == helper.id
  <2>1. helper.pc = "report" /\ r \in Ids /\ exported' = exported
    BY <1>4 DEF ReportExport, IInv, FreshIds
  <2>2. /\ \A q \in Ids : q # r => status'[q] = status[q]
        /\ \/ status'[r] = status[r]
           \/ /\ status[r] = "approved" /\ subject[r] = Cookies
              /\ status'[r] \in {"completed", "failed"}
              /\ status'[r] = "completed" => helper.success
    BY <1>1, <1>4, <2>1 DEF ReportExport, TypeOK
  <2>3. helper'.pc = "report" => helper'.id = r /\ ~helper'.success
    <3>1. helper' \in {HelperIdle, [HelperIdle EXCEPT !.pc = "export", !.todo = helper.todo], [helper EXCEPT !.success = FALSE]}
      BY <1>4 DEF ReportExport, AfterReport
    <3>2. HelperIdle.pc = "idle" /\ [HelperIdle EXCEPT !.pc = "export", !.todo = helper.todo].pc = "export"
      BY DEF HelperIdle
    <3>3. [helper EXCEPT !.success = FALSE].id = r /\ [helper EXCEPT !.success = FALSE].success = FALSE
      BY <1>1 DEF TypeOK
    <3> QED
      BY <3>1, <3>2, <3>3
  <2>4. \A q \in Ids : status'[q] = "none" <=> status[q] = "none"
    BY <2>2
  <2>5. FreshIds' /\ HelperExported'
    BY <1>2, <2>1, <2>3, <2>4, CallIds DEF IInv, FreshIds, HelperExported
  <2>6. Decided' /\ TaskReads'
    BY <1>2, <2>2 DEF IInv, Decided, TaskReads, WordsOf
  <2>7. CompletedWasDone'
    BY <1>2, <2>1, <2>2, SubjectsAssumption DEF IInv, HelperExported, CompletedWasDone, WordsOf
  <2>8. Underway' \subseteq Underway
    BY <1>2, <2>2 DEF Underway
  <2>9. ConflictIsHarmless' /\ NoneForgotten'
    BY <1>2, <2>8 DEF IInv, ConflictIsHarmless, NoneForgotten
  <2> QED
    BY <2>5, <2>6, <2>7, <2>9 DEF Rest
<1> QED
  BY <1>3, <1>4 DEF HelperStep

LEMMA InvariantStep == IInv /\ [Next]_vars => IInv'
<1> SUFFICES ASSUME IInv, [Next]_vars PROVE IInv'
  OBVIOUS
<1>1. TypeOK'
  BY TypeStep
<1>2. CASE UNCHANGED vars \/ \E v \in Videos : VideoMoves(v)
  <2>1. UNCHANGED <<status, subject, decision, dictionary, call, sent, task, resuming, helper, exported, crashed>>
    BY <1>2 DEF vars, VideoMoves, requests, work, creation, cookies
  <2>2. FreshIds' /\ Decided' /\ TaskReads'
    BY <2>1 DEF IInv, FreshIds, Decided, TaskReads, WordsOf
  <2>3. HelperExported' /\ CompletedWasDone'
    BY <2>1 DEF IInv, HelperExported, CompletedWasDone, WordsOf
  <2>4. ConflictIsHarmless' /\ NoneForgotten'
    BY <2>1 DEF IInv, ConflictIsHarmless, NoneForgotten, Underway
  <2> QED
    BY <1>1, <2>2, <2>3, <2>4 DEF IInv
<1>3. CASE \E c \in Callers : Create(c)
  BY <1>1, <1>3, CreateKeepsRest DEF IInv, Rest
<1>4. CASE \E r \in Ids : Expires(r) \/ FindExpired(r) \/ Approve(r) \/ Reject(r)
  BY <1>1, <1>4, DecisionKeepsRest DEF IInv, Rest
<1>5. CASE \E t \in Ids \X Origins : Execute(t) \/ DatabaseFails(t)
  BY <1>1, <1>5, ExecutionKeepsRest DEF IInv, Rest, Tasks
<1>6. CASE Restart \/ Resume \/ ResumeFails
  BY <1>1, <1>6, RestartKeepsRest DEF IInv, Rest
<1>7. CASE HelperStep
  BY <1>1, <1>7, HelperKeepsRest DEF IInv, Rest
<1> QED
  BY <1>2, <1>3, <1>4, <1>5, <1>6, <1>7 DEF Next

-----------------------------------------------------------------------------
(* Counting requests *)

(* What the steps outside the creating calls leave of the rows and calls.  *)
RowsKept ==
  /\ UNCHANGED <<guest, subject>>
  /\ \A r \in Ids : status'[r] = "none" <=> status[r] = "none"
  /\ \A r \in Ids : status'[r] = "pending" => status[r] = "pending"

CallsKept == call' = call \/ \A c \in Callers : call'[c].pc = "idle"

LEMMA OthersKeepRows ==
  ASSUME IInv, [Next]_vars, ~\E c \in Callers : Create(c)
  PROVE  RowsKept /\ CallsKept
<1> USE DEF RowsKept, CallsKept
<1>1. TypeOK
  BY DEF IInv
<1>2. CASE UNCHANGED vars \/ \E v \in Videos : VideoMoves(v)
  BY <1>2 DEF vars, VideoMoves, requests, creation
<1>3. CASE \E r \in Ids : Expires(r) \/ FindExpired(r) \/ Approve(r) \/ Reject(r)
  BY <1>1, <1>3 DEF Expires, FindExpired, Approve, Reject, EnsurePending, TypeOK, requests, creation
<1>4. ASSUME NEW t \in Tasks, Execute(t) \/ DatabaseFails(t)
      PROVE  RowsKept /\ CallsKept
  <2>1. t[1] \in Ids
    BY TaskOfRequest
  <2>2. UNCHANGED <<guest, subject, call>>
    BY <1>4 DEF Execute, LoadRequest, StartExecution, PrepareVideo, PollVideo, PollTimesOut, ReadDictionary,
       InsertEntry, InsertConflict, Succeed, Fail, DatabaseFails, TaskStep, creation
  <2>3. CASE status' = status
    BY <2>2, <2>3
  <2>4. CASE StartExecution(t) \/ Succeed(t) \/ Fail(t)
    <3>1. task[t].pc # "none"
      BY <2>4 DEF StartExecution, Succeed, Fail, TaskStep
    <3>2. status[t[1]] # "none"
      BY <2>1, <3>1 DEF IInv, Decided
    <3>3. /\ \A q \in Ids : q # t[1] => status'[q] = status[q]
          /\ status'[t[1]] \in {"executing", "completed", "failed"}
      BY <1>1, <2>1, <2>4 DEF StartExecution, Succeed, Fail, TypeOK
    <3> QED
      BY <2>2, <3>2, <3>3
  <2> QED
    BY <1>4, <2>3, <2>4 DEF Execute, LoadRequest, PrepareVideo, PollVideo, PollTimesOut, ReadDictionary,
       InsertEntry, InsertConflict, DatabaseFails, work
<1>5. CASE Restart \/ Resume \/ ResumeFails
  BY <1>5 DEF Restart, Resume, ResumeFails, requests, creation, Idle
<1>6. CASE HelperStep
  <2>1. UNCHANGED <<guest, subject, call>>
    BY <1>6 DEF HelperStep, ListApproved, ExportCookies, ReportExport, requests, creation
  <2>2. CASE status' = status
    BY <2>1, <2>2
  <2>3. ASSUME NEW arrives \in BOOLEAN, NEW answered \in BOOLEAN, ReportExport(arrives, answered)
        PROVE  RowsKept
    <3>1. helper.id \in Ids
      BY <2>3 DEF ReportExport, IInv, FreshIds
    <3> QED
      BY <1>1, <2>1, <2>3, <3>1 DEF ReportExport, TypeOK
  <2> QED
    BY <1>6, <2>1, <2>2, <2>3 DEF HelperStep, ListApproved, ExportCookies, requests
<1> QED
  BY <1>2, <1>3, <1>4, <1>5, <1>6 DEF Next, Tasks

LEMMA CountsAreNumbers ==
  /\ IsFiniteSet(Ids) /\ IsFiniteSet(Callers) /\ Cardinality(Callers) \in Nat
  /\ \A g : IsFiniteSet(RequestsOf(g)) /\ Cardinality(RequestsOf(g)) \in Nat
  /\ \A g : IsFiniteSet(Inserting(g)) /\ Cardinality(Inserting(g)) \in Nat
  /\ \A s : IsFiniteSet(Waiting(s)) /\ Cardinality(Waiting(s)) \in Nat
  /\ \A s : IsFiniteSet(Creating(s)) /\ Cardinality(Creating(s)) \in Nat
<1>1. IsFiniteSet(Ids) /\ IsFiniteSet(Callers)
  BY FS_Interval, BoundsAssumption, GuestsAssumption DEF Ids
<1>2. \A S : S \subseteq Ids \/ S \subseteq Callers => IsFiniteSet(S) /\ Cardinality(S) \in Nat
  BY <1>1, FS_Subset, FS_CardinalityType
<1>3. \A g : RequestsOf(g) \subseteq Ids /\ Inserting(g) \subseteq Callers
  BY DEF RequestsOf, Inserting
<1>4. \A s : Waiting(s) \subseteq Ids /\ Creating(s) \subseteq Callers
  BY DEF Waiting, Creating
<1> QED
  BY <1>1, <1>2, <1>3, <1>4

(* What InsertRequest does to the rows and to its call. *)
LEMMA InsertEffect ==
  ASSUME IInv, NEW c \in Callers, InsertRequest(c)
  PROVE  /\ call[c].id \in Ids /\ status[call[c].id] = "none"
         /\ status'[call[c].id] = "pending" /\ subject'[call[c].id] = call[c].subject
         /\ guest'[call[c].id] = call[c].guest
         /\ \A q \in Ids : q # call[c].id =>
               status'[q] = status[q] /\ subject'[q] = subject[q] /\ guest'[q] = guest[q]
         /\ call'[c].pc = "idle" /\ \A d \in Callers : d # c => call'[d] = call[d]
<1>1. call[c].id \in Ids /\ status[call[c].id] = "none"
  BY CallIds DEF InsertRequest, IInv, FreshIds
<1> QED
  BY <1>1 DEF InsertRequest, Return, Idle, IInv, TypeOK

LEMMA GuestCountStep == IInv /\ GuestCount /\ [Next]_vars => GuestCount'
<1> SUFFICES ASSUME IInv, GuestCount, [Next]_vars, NEW g \in Guests
             PROVE  Cardinality((RequestsOf(g))') + Cardinality((Inserting(g))') < GuestLimit + Cardinality(Callers)
  BY DEF GuestCount
<1> USE CountsAreNumbers
<1>1. TypeOK /\ GuestLimit \in Nat
  BY GuestsAssumption DEF IInv
<1>2. Cardinality(RequestsOf(g)) + Cardinality(Inserting(g)) < GuestLimit + Cardinality(Callers)
  BY DEF GuestCount
<1>3. CASE (RequestsOf(g))' = RequestsOf(g) /\ (Inserting(g))' \subseteq Inserting(g)
  <2>1. Cardinality((Inserting(g))') <= Cardinality(Inserting(g)) /\ Cardinality((Inserting(g))') \in Nat
    BY <1>3, FS_Subset, FS_CardinalityType
  <2> QED
    BY <1>1, <1>2, <1>3, <2>1
<1>4. CASE ~\E c \in Callers : Create(c)
  <2>1. RowsKept /\ CallsKept
    BY <1>4, OthersKeepRows
  <2>2. (RequestsOf(g))' = RequestsOf(g)
    BY <2>1 DEF RowsKept, RequestsOf
  <2>3. (Inserting(g))' \subseteq Inserting(g)
    BY <2>1 DEF CallsKept, Inserting
  <2> QED
    BY <1>3, <2>2, <2>3
<1>5. ASSUME NEW c \in Callers, Create(c)
      PROVE  Cardinality((RequestsOf(g))') + Cardinality((Inserting(g))') < GuestLimit + Cardinality(Callers)
  <2>1. ASSUME NEW step, NEW s, NEW h, Begin(c, step, s, h), step # "insert" \/ h \notin Guests
        PROVE  (RequestsOf(g))' = RequestsOf(g) /\ (Inserting(g))' \subseteq Inserting(g)
    BY <1>1, <2>1 DEF Begin, RequestsOf, Inserting, TypeOK, requests
  <2>2. CASE \E v \in Videos, h \in Guests \cup {NoGuest} : RequestVideo(c, v, h)
    BY <1>3, <2>1, <2>2 DEF RequestVideo
  <2>3. CASE \E w \in Words : RequestVocabulary(c, w)
    BY <1>3, <2>1, <2>3 DEF RequestVocabulary
  <2>4. CASE RequestCookieUpdate(c)
    BY <1>3, <2>1, <2>4, GuestsAssumption DEF RequestCookieUpdate
  <2>5. CASE ReadActive(c) \/ CountRequests(c)
    <3>1. (RequestsOf(g))' = RequestsOf(g)
      BY <2>5 DEF ReadActive, CountRequests, RequestsOf, requests
    <3>2. \A d \in Callers : d # c => call'[d] = call[d]
      BY <1>1, <2>5 DEF ReadActive, CountRequests, Goto, Return, TypeOK
    <3>3. CASE call'[c].pc = "insert" /\ call'[c].guest = g
      <4>1. ~LimitReached(g)
        <5>1. CASE ReadActive(c)
          BY <1>1, <3>3, <5>1, GuestsAssumption DEF ReadActive, Goto, Return, Idle, TypeOK
        <5>2. CASE CountRequests(c)
          <6>1. call[c] \in [pc : CallPc, id : 0 .. MaxCalls, subject : Subjects, guest : Guests \cup {NoGuest}]
            BY <1>1 DEF TypeOK
          <6>2. ~Return(c)
            BY <1>1, <3>3 DEF Return, Idle, TypeOK
          <6>3. ~LimitReached(call[c].guest) /\ Goto(c, "insert")
            BY <5>2, <6>2 DEF CountRequests
          <6>4. call'[c].guest = call[c].guest
            BY <1>1, <6>1, <6>3 DEF Goto, TypeOK
          <6> QED
            BY <3>3, <6>3, <6>4
        <5> QED
          BY <2>5, <5>1, <5>2
      <4>2. Cardinality(RequestsOf(g)) < GuestLimit
        BY <1>1, <4>1 DEF LimitReached
      <4>3. (Inserting(g))' \subseteq Callers
        BY DEF Inserting
      <4>4. Cardinality((Inserting(g))') <= Cardinality(Callers) /\ Cardinality((Inserting(g))') \in Nat
        BY <4>3, FS_Subset, FS_CardinalityType
      <4> QED
        BY <1>1, <3>1, <4>2, <4>4
    <3>4. CASE ~(call'[c].pc = "insert" /\ call'[c].guest = g)
      BY <1>3, <3>1, <3>2, <3>4 DEF Inserting
    <3> QED
      BY <3>3, <3>4
  <2>6. CASE InsertRequest(c)
    <3> DEFINE r == call[c].id
    <3>1. CASE call[c].guest = g
      <4>1. (RequestsOf(g))' = RequestsOf(g) \cup {r} /\ r \notin RequestsOf(g)
        BY <2>6, <3>1, InsertEffect DEF RequestsOf
      <4>2. (Inserting(g))' = Inserting(g) \ {c} /\ c \in Inserting(g)
        <5>1. call[c].pc = "insert" /\ call'[c].pc = "idle" /\ \A d \in Callers : d # c => call'[d] = call[d]
          BY <2>6, InsertEffect DEF InsertRequest
        <5>2. ASSUME NEW d PROVE d \in (Inserting(g))' <=> d \in Inserting(g) \ {c}
          BY <5>1 DEF Inserting
        <5>3. c \in Inserting(g)
          BY <3>1, <5>1 DEF Inserting
        <5> QED
          BY <5>2, <5>3
      <4>3. Cardinality(RequestsOf(g) \cup {r}) = Cardinality(RequestsOf(g)) + 1
        BY <4>1, FS_AddElement
      <4>4. Cardinality(Inserting(g) \ {c}) = Cardinality(Inserting(g)) - 1
        BY <4>2, FS_RemoveElement
      <4> QED
        BY <1>1, <1>2, <4>1, <4>2, <4>3, <4>4
    <3>2. CASE call[c].guest # g
      <4>1. (RequestsOf(g))' = RequestsOf(g)
        BY <2>6, <3>2, InsertEffect DEF RequestsOf
      <4>2. (Inserting(g))' \subseteq Inserting(g)
        BY <2>6, InsertEffect DEF Inserting
      <4> QED
        BY <1>3, <4>1, <4>2
    <3> QED
      BY <3>1, <3>2
  <2> QED
    BY <1>5, <2>2, <2>3, <2>4, <2>5, <2>6 DEF Create
<1> QED
  BY <1>4, <1>5

LEMMA WaitingCountStep == IInv /\ WaitingCount /\ [Next]_vars => WaitingCount'
<1> SUFFICES ASSUME IInv, WaitingCount, [Next]_vars, NEW s \in Videos \cup Words
             PROVE  Cardinality((Waiting(s))') + Cardinality((Creating(s))') <= Cardinality(Callers)
  BY DEF WaitingCount
<1> USE CountsAreNumbers
<1>1. TypeOK /\ s # Cookies
  BY SubjectsAssumption DEF IInv
<1>2. Cardinality(Waiting(s)) + Cardinality(Creating(s)) <= Cardinality(Callers)
  BY DEF WaitingCount
<1>3. CASE (Waiting(s))' \subseteq Waiting(s) /\ (Creating(s))' \subseteq Creating(s)
  <2>1. Cardinality((Creating(s))') <= Cardinality(Creating(s)) /\ Cardinality((Creating(s))') \in Nat
    BY <1>3, FS_Subset, FS_CardinalityType
  <2>2. Cardinality((Waiting(s))') <= Cardinality(Waiting(s)) /\ Cardinality((Waiting(s))') \in Nat
    BY <1>3, FS_Subset, FS_CardinalityType
  <2> QED
    BY <1>2, <2>1, <2>2
<1>4. CASE ~\E c \in Callers : Create(c)
  <2>1. RowsKept /\ CallsKept
    BY <1>4, OthersKeepRows
  <2>2. (Waiting(s))' \subseteq Waiting(s)
    BY <2>1 DEF RowsKept, Waiting
  <2>3. (Creating(s))' \subseteq Creating(s)
    BY <2>1 DEF CallsKept, Creating
  <2> QED
    BY <1>3, <2>2, <2>3
<1>5. ASSUME NEW c \in Callers, Create(c)
      PROVE  Cardinality((Waiting(s))') + Cardinality((Creating(s))') <= Cardinality(Callers)
  <2>1. ASSUME NEW step, NEW x, NEW h, Begin(c, step, x, h), step \notin {"count", "insert"} \/ x = Cookies
        PROVE  (Waiting(s))' = Waiting(s) /\ (Creating(s))' \subseteq Creating(s)
    BY <1>1, <2>1 DEF Begin, Waiting, Creating, TypeOK, requests
  <2>2. CASE \E v \in Videos, h \in Guests \cup {NoGuest} : RequestVideo(c, v, h)
    BY <1>3, <2>1, <2>2 DEF RequestVideo
  <2>3. CASE \E w \in Words : RequestVocabulary(c, w)
    BY <1>3, <2>1, <2>3 DEF RequestVocabulary
  <2>4. CASE RequestCookieUpdate(c)
    BY <1>3, <2>1, <2>4 DEF RequestCookieUpdate
  <2>5. CASE ReadActive(c)
    <3>1. (Waiting(s))' = Waiting(s)
      BY <2>5 DEF ReadActive, Waiting, requests
    <3>2. \A d \in Callers : d # c => call'[d] = call[d]
      BY <1>1, <2>5 DEF ReadActive, Goto, Return, TypeOK
    <3>3. CASE call'[c].pc \in {"count", "insert"} /\ call'[c].subject = s
      <4>1. ~Active(s)
        BY <1>1, <2>5, <3>3 DEF ReadActive, Goto, Return, Idle, TypeOK
      <4>2. Waiting(s) = {}
        BY <4>1 DEF Active, ActiveStatuses, Waiting
      <4>3. (Creating(s))' \subseteq Callers
        BY DEF Creating
      <4>4. Cardinality((Creating(s))') <= Cardinality(Callers) /\ Cardinality((Creating(s))') \in Nat
        BY <4>3, FS_Subset, FS_CardinalityType
      <4>5. Cardinality((Waiting(s))') = 0
        BY <3>1, <4>2, FS_EmptySet
      <4> QED
        BY <4>4, <4>5
    <3>4. CASE ~(call'[c].pc \in {"count", "insert"} /\ call'[c].subject = s)
      BY <1>3, <3>1, <3>2, <3>4 DEF Creating
    <3> QED
      BY <3>3, <3>4
  <2>6. CASE CountRequests(c)
    <3>1. (Waiting(s))' = Waiting(s)
      BY <2>6 DEF CountRequests, Waiting, requests
    <3>2. \A d \in Callers : d # c => call'[d] = call[d]
      BY <1>1, <2>6 DEF CountRequests, Goto, Return, TypeOK
    <3>3. call[c].pc = "count" /\ (call'[c].pc = "idle" \/ call'[c].subject = call[c].subject)
      BY <1>1, <2>6 DEF CountRequests, Goto, Return, Idle, TypeOK
    <3> QED
      BY <1>3, <3>1, <3>2, <3>3 DEF Creating
  <2>7. CASE InsertRequest(c)
    <3> DEFINE r == call[c].id
    <3>1. CASE call[c].subject = s
      <4>1. (Waiting(s))' = Waiting(s) \cup {r} /\ r \notin Waiting(s)
        BY <2>7, <3>1, InsertEffect DEF Waiting
      <4>2. (Creating(s))' = Creating(s) \ {c} /\ c \in Creating(s)
        <5>1. call[c].pc = "insert" /\ call'[c].pc = "idle" /\ \A d \in Callers : d # c => call'[d] = call[d]
          BY <2>7, InsertEffect DEF InsertRequest
        <5>2. ASSUME NEW d PROVE d \in (Creating(s))' <=> d \in Creating(s) \ {c}
          BY <5>1 DEF Creating
        <5>3. c \in Creating(s)
          BY <3>1, <5>1 DEF Creating
        <5> QED
          BY <5>2, <5>3
      <4>3. Cardinality(Waiting(s) \cup {r}) = Cardinality(Waiting(s)) + 1
        BY <4>1, FS_AddElement
      <4>4. Cardinality(Creating(s) \ {c}) = Cardinality(Creating(s)) - 1
        BY <4>2, FS_RemoveElement
      <4> QED
        BY <1>2, <4>1, <4>2, <4>3, <4>4
    <3>2. CASE call[c].subject # s
      <4>1. (Waiting(s))' \subseteq Waiting(s)
        BY <2>7, <3>2, InsertEffect DEF Waiting
      <4>2. (Creating(s))' \subseteq Creating(s)
        BY <2>7, InsertEffect DEF Creating
      <4> QED
        BY <1>3, <4>1, <4>2
    <3> QED
      BY <3>1, <3>2
  <2> QED
    BY <1>5, <2>2, <2>3, <2>4, <2>5, <2>6, <2>7 DEF Create
<1> QED
  BY <1>4, <1>5

LEMMA InitCounts == Init => GuestCount /\ WaitingCount
<1> SUFFICES ASSUME Init PROVE GuestCount /\ WaitingCount
  OBVIOUS
<1>1. \A g : RequestsOf(g) = {} /\ Inserting(g) = {}
  BY DEF Init, RequestsOf, Inserting, Idle
<1>2. \A s : Waiting(s) = {} /\ Creating(s) = {}
  BY DEF Init, Waiting, Creating, Idle
<1>3. Cardinality({}) = 0
  BY FS_EmptySet
<1>4. 0 + 0 < GuestLimit + Cardinality(Callers) /\ 0 + 0 <= Cardinality(Callers)
  BY CountsAreNumbers, GuestsAssumption
<1>5. GuestCount
  BY <1>1, <1>3, <1>4 DEF GuestCount
<1>6. WaitingCount
  BY <1>2, <1>3, <1>4 DEF WaitingCount
<1> QED
  BY <1>5, <1>6

-----------------------------------------------------------------------------
(* The life cycle *)

LEMMA InitImplements == Init => Lifecycle!Init
BY DEF Init, Lifecycle!Init

LEMMA StepImplements == IInv /\ [Next]_vars => [Lifecycle!Next]_<<status, decision>>
<1> SUFFICES ASSUME IInv, [Next]_vars
             PROVE  Lifecycle!Next \/ UNCHANGED <<status, decision>>
  OBVIOUS
<1> USE DEF Lifecycle!Next, Lifecycle!Becomes
<1>1. TypeOK
  BY DEF IInv
<1>2. CASE UNCHANGED vars \/ (\E v \in Videos : VideoMoves(v)) \/ Restart \/ Resume \/ ResumeFails
  BY <1>2 DEF vars, VideoMoves, Restart, Resume, ResumeFails, requests
<1>3. ASSUME NEW c \in Callers, Create(c)
      PROVE  Lifecycle!Next \/ UNCHANGED <<status, decision>>
  <2>1. CASE InsertRequest(c)
    <3>1. Lifecycle!Create(call[c].id)
      BY <2>1, InsertEffect DEF InsertRequest, Lifecycle!Create
    <3> QED
      BY <2>1, <3>1, InsertEffect
  <2>2. CASE ~InsertRequest(c)
    BY <1>3, <2>2 DEF Create, RequestVideo, RequestVocabulary, RequestCookieUpdate, Begin, ReadActive,
       CountRequests, requests
  <2> QED
    BY <2>1, <2>2
<1>4. ASSUME NEW r \in Ids, Expires(r) \/ FindExpired(r) \/ Approve(r) \/ Reject(r)
      PROVE  Lifecycle!Next \/ UNCHANGED <<status, decision>>
  <2>1. CASE Expires(r)
    BY <2>1 DEF Expires, requests
  <2>2. CASE FindExpired(r)
    BY <2>2 DEF FindExpired, Lifecycle!Expire
  <2>3. CASE Approve(r)
    <3>1. decision[r] = {}
      BY <2>3 DEF Approve, EnsurePending, IInv, Decided
    <3>2. decision' = [decision EXCEPT ![r] = {"approved"}]
      BY <1>1, <2>3, <3>1 DEF Approve, TypeOK
    <3> QED
      BY <2>3, <3>2 DEF Approve, EnsurePending, Lifecycle!Approve
  <2>4. CASE Reject(r)
    <3>1. decision[r] = {}
      BY <2>4 DEF Reject, EnsurePending, IInv, Decided
    <3>2. decision' = [decision EXCEPT ![r] = {"rejected"}]
      BY <1>1, <2>4, <3>1 DEF Reject, TypeOK
    <3> QED
      BY <2>4, <3>2 DEF Reject, EnsurePending, Lifecycle!Reject
  <2> QED
    BY <1>4, <2>1, <2>2, <2>3, <2>4
<1>5. ASSUME NEW t \in Tasks, Execute(t) \/ DatabaseFails(t)
      PROVE  Lifecycle!Next \/ UNCHANGED <<status, decision>>
  <2>1. decision' = decision
    BY <1>5 DEF Execute, LoadRequest, StartExecution, PrepareVideo, PollVideo, PollTimesOut, ReadDictionary,
       InsertEntry, InsertConflict, Succeed, Fail, DatabaseFails, TaskStep
  <2>2. CASE status' = status
    BY <2>1, <2>2
  <2>3. CASE StartExecution(t) \/ Succeed(t) \/ Fail(t)
    <3>1. t[1] \in Ids /\ decision[t[1]] = {"approved"}
      BY <2>3, TaskOfRequest DEF StartExecution, Succeed, Fail, TaskStep, IInv, Decided
    <3>2. Lifecycle!Run(t[1])
      BY <2>1, <2>3, <3>1 DEF StartExecution, Succeed, Fail, Lifecycle!Run
    <3> QED
      BY <3>1, <3>2
  <2> QED
    BY <1>5, <2>2, <2>3 DEF Execute, LoadRequest, PrepareVideo, PollVideo, PollTimesOut, ReadDictionary,
       InsertEntry, InsertConflict, DatabaseFails, work
<1>6. CASE HelperStep
  <2>1. CASE status' = status
    BY <1>6, <2>1 DEF HelperStep, ListApproved, ExportCookies, ReportExport, requests
  <2>2. ASSUME NEW arrives \in BOOLEAN, NEW answered \in BOOLEAN, ReportExport(arrives, answered), status' # status
        PROVE  Lifecycle!Next
    <3> DEFINE r == helper.id
    <3>1. r \in Ids /\ status[r] = "approved" /\ decision' = decision
      BY <2>2 DEF ReportExport, IInv, FreshIds
    <3>2. decision[r] = {"approved"}
      BY <3>1 DEF IInv, Decided
    <3>3. \E new \in {"completed", "failed"} : status' = [status EXCEPT ![r] = new]
      BY <2>2 DEF ReportExport
    <3>4. Lifecycle!Run(r)
      BY <3>1, <3>2, <3>3 DEF Lifecycle!Run
    <3> QED
      BY <3>1, <3>4
  <2> QED
    BY <1>6, <2>1, <2>2 DEF HelperStep, ListApproved, ExportCookies, requests
<1> QED
  BY <1>2, <1>3, <1>4, <1>5, <1>6 DEF Next, Tasks

-----------------------------------------------------------------------------
(* The theorems *)

(* The invariant holds in every reachable state. *)
THEOREM InvariantHolds == Spec => []IInv
BY InitInvariant, InvariantStep, PTL DEF Spec

(* Every variable keeps its type. *)
THEOREM TypeCorrect == Spec => []TypeOK
<1>1. IInv => TypeOK
  BY DEF IInv
<1> QED
  BY <1>1, InvariantHolds, PTL

(* execute runs nothing that approve did not approve. *)
THEOREM NothingUnapproved == Spec => []OnlyApprovedRuns
<1>1. IInv => OnlyApprovedRuns
  <2>1. \A r \in Ids, o \in Origins : <<r, o>> \in Tasks /\ <<r, o>>[1] = r
    BY DEF Tasks
  <2>2. IInv => \A r \in Ids, o \in Origins : task[<<r, o>>].pc # "none" => decision[r] = {"approved"}
    BY <2>1 DEF IInv, Decided
  <2> QED
    BY <2>2 DEF IInv, Decided, OnlyApprovedRuns
<1> QED
  BY <1>1, InvariantHolds, PTL

(* execute and complete_cookie_export set "completed" after the work. *)
THEOREM CompletedIsDone == Spec => []CompletedWasDone
<1>1. IInv => CompletedWasDone
  BY DEF IInv
<1> QED
  BY <1>1, InvariantHolds, PTL

(* approve and resume_agent_executions leave no request without a task. *)
THEOREM NothingForgotten == Spec => []NoneForgotten
<1>1. IInv => NoneForgotten
  BY DEF IInv
<1> QED
  BY <1>1, InvariantHolds, PTL

(* request_video lets a guest pass the limit only by calls that counted at *)
(* the same time.                                                          *)
THEOREM GuestsAreLimited == Spec => []GuestWithinLimit
<1>1. IInv /\ GuestCount /\ [Next]_vars => GuestCount'
  BY GuestCountStep
<1>2. GuestCount => GuestWithinLimit
  BY CountsAreNumbers, GuestsAssumption DEF GuestCount, GuestWithinLimit
<1> QED
  BY <1>1, <1>2, InitCounts, InvariantHolds, PTL DEF Spec

(* _active_request and _active_vocabulary_words let duplicates through only *)
(* from calls that looked at the same time.                                *)
THEOREM DuplicatesAreLimited == Spec => []WaitingWithinCallers
<1>1. IInv /\ WaitingCount /\ [Next]_vars => WaitingCount'
  BY WaitingCountStep
<1>2. WaitingCount => WaitingWithinCallers
  BY CountsAreNumbers DEF WaitingCount, WaitingWithinCallers
<1> QED
  BY <1>1, <1>2, InitCounts, InvariantHolds, PTL DEF Spec

(* Every commit of the service is one the life cycle of a request allows. *)
THEOREM RequestsImplementLifecycle == Spec => ImplementsLifecycle
<1>1. Spec => Lifecycle!Init /\ [][Lifecycle!Next]_<<status, decision>>
  BY InitImplements, StepImplements, InvariantHolds, PTL DEF Spec
<1> QED
  BY <1>1 DEF ImplementsLifecycle, Lifecycle!Spec
=============================================================================
