----------------------------- MODULE GuestData -----------------------------
(***************************************************************************)
(* What guests keep: sessions, saved words and playback positions of one   *)
(* video, written by the routes of the Go API (native.go, postgres.go), by *)
(* the Python routes it proxies to or replaces, and asked for by watch     *)
(* pages.  A request the rate limiter refuses never gets here.             *)
(***************************************************************************)
EXTENDS Naturals

CONSTANTS
  Handlers,     \* requests the servers have in hand at the same time
  Browsers,     \* each with a cookie and a watch page
  Tokens,       \* bound: the guest sessions that can be created
  Words,        \* words on the page
  Backends,     \* who serves /api/vocabulary: Go, or Python when Go has no database
  MaxRequests,  \* bound: requests sent
  MaxClicks,    \* bound: tokens clicked
  MaxFaults     \* bound: answers lost, sessions expired and deletions of the video

NoToken == "no token"
NoWord == "no word"

ASSUME GuestAssumption ==
  /\ Backends \subseteq {"go", "python"}
  /\ NoToken \notin Tokens /\ Browsers # {}
  /\ MaxRequests \in Nat /\ MaxClicks \in Nat /\ MaxFaults \in Nat

Token == Tokens \cup {NoToken}
Word == Words \cup {NoWord}
(* A saved word, with the browser that asked for it as history. *)
Row == [guest : Tokens, word : Words, meaning : Words, by : Browsers]

VARIABLES
  \* rows
  session,    \* per token: guest_sessions row
  vocabulary, \* saved_vocabulary
  progress,   \* guests with a row in guest_video_progress
  import,     \* which import of the video there is, 0 for none
  \* requests and where their handlers are
  handler,
  \* browsers
  jar,        \* the guest cookie
  selected,   \* the token the learner clicked
  entry,      \* the word whose dictionary entry is shown
  lookups,    \* words whose lookup has not been answered
  \* auxiliary
  clicks, sent, faults, imports,
  overlap,    \* browsers that had two lookups under way at once
  strayed,    \* browsers that lost a cookie or were made a guest twice at once
  told,       \* words a guest was told are saved
  removed     \* words of a guest that were deleted, by it or with the video

rows == <<session, vocabulary, progress, import>>
dictionary == <<selected, entry, lookups, clicks, overlap>>
history == <<sent, faults, imports, strayed, told, removed>>
guestVars == <<rows, handler, jar, dictionary, history>>

Ops == {"save", "remove", "position"}
HandlerPc == {"idle", "guest", "save", "find", "check", "insert", "remove", "video", "upsert", "answer"}
(* raised: the handler has raised, and its answer is a new one. *)
Request == [pc : HandlerPc, op : Ops, browser : Browsers, cookie : Token, guest : Token,
            fresh : BOOLEAN, word : Word, meaning : Word, owner : Token,
            import : 0 .. MaxFaults + 1, saved : BOOLEAN, raised : BOOLEAN]

NoRequest == [pc |-> "idle", op |-> "save", browser |-> CHOOSE b \in Browsers : TRUE,
              cookie |-> NoToken, guest |-> NoToken, fresh |-> FALSE, word |-> NoWord,
              meaning |-> NoWord, owner |-> NoToken, import |-> 0, saved |-> FALSE, raised |-> FALSE]

(* Types of the rows, the requests and the pages. *)
GuestTypeOK ==
  /\ session \in [Tokens -> {"none", "live", "expired"}]
  /\ vocabulary \subseteq Row
  /\ progress \subseteq Tokens
  /\ handler \in [Handlers -> Request]
  /\ jar \in [Browsers -> Token]
  /\ selected \in [Browsers -> Word] /\ entry \in [Browsers -> Word]
  /\ lookups \in [Browsers -> SUBSET Words]
  /\ told \cup removed \subseteq Tokens \X Words

GuestInit ==
  /\ session = [t \in Tokens |-> "none"]
  /\ vocabulary = {}
  /\ progress = {}
  /\ import = 1
  /\ handler = [s \in Handlers |-> NoRequest]
  /\ jar = [b \in Browsers |-> NoToken]
  /\ selected = [b \in Browsers |-> NoWord]
  /\ entry = [b \in Browsers |-> NoWord]
  /\ lookups = [b \in Browsers |-> {}]
  /\ clicks = 0 /\ sent = 0 /\ faults = 0 /\ imports = 1
  /\ overlap = {} /\ strayed = {}
  /\ told = {} /\ removed = {}

-----------------------------------------------------------------------------
(* The watch page *)

(* Mutant: the entry of the word before stays until the answer is there. *)
EntryKept(b) == entry
EntryCleared(b) == [entry EXCEPT ![b] = NoWord]

(* handleTokenClick: nothing cancels the lookup before. *)
ClickToken(b, w) ==
  /\ clicks < MaxClicks
  /\ w \notin lookups[b]
  /\ clicks' = clicks + 1
  /\ selected' = [selected EXCEPT ![b] = w]
  /\ entry' = EntryCleared(b)
  /\ lookups' = [lookups EXCEPT ![b] = @ \cup {w}]
  /\ overlap' = IF lookups[b] = {} THEN overlap ELSE overlap \cup {b}
  /\ UNCHANGED <<rows, handler, jar, history>>

(* The entry of the word, found or missing, or an error. *)
LookupAnswered(b, w) ==
  /\ w \in lookups[b]
  /\ lookups' = [lookups EXCEPT ![b] = @ \ {w}]
  /\ entry' \in {[entry EXCEPT ![b] = w], entry}
  /\ UNCHANGED <<rows, handler, jar, selected, clicks, overlap, history>>

(* handleSave: the word of the token, the meaning of the entry shown or,   *)
(* without one, the word.  Mutant: no meaning without an entry.            *)
MeaningOrNone(b) == entry[b]
MeaningOf(b) == IF entry[b] = NoWord THEN selected[b] ELSE entry[b]

(* A request leaves with the cookie the browser has. *)
Send(b, s, request) ==
  /\ handler[s].pc = "idle"
  /\ sent < MaxRequests
  /\ handler' = [handler EXCEPT ![s] = [request EXCEPT !.pc = "guest", !.browser = b, !.cookie = jar[b]]]
  /\ sent' = sent + 1
  /\ UNCHANGED <<rows, jar, dictionary, faults, imports, strayed, told, removed>>

AskSave(b, s) ==
  /\ selected[b] # NoWord
  /\ Send(b, s, [NoRequest EXCEPT !.op = "save", !.word = selected[b],
                                           !.meaning = MeaningOf(b), !.import = import])

(* The page lists the words it has saved, maybe as an earlier guest. *)
AskRemove(b, s) ==
  \E r \in vocabulary :
    /\ r.by = b
    /\ Send(b, s, [NoRequest EXCEPT !.op = "remove", !.word = r.word, !.owner = r.guest])

AskPosition(b, s) == Send(b, s, [NoRequest EXCEPT !.op = "position"])

-----------------------------------------------------------------------------
(* The routes *)

At(s, pc) == handler[s].pc = pc
Goto(s, pc) == handler' = [handler EXCEPT ![s].pc = pc]
Answered(s, saved) == handler' = [handler EXCEPT ![s].pc = "answer", ![s].saved = saved]
Raises(s) == handler' = [handler EXCEPT ![s].pc = "answer", ![s].raised = TRUE]

(* Everything of a handler's step but the rows it may write. *)
Handling == UNCHANGED <<import, jar, dictionary, sent, faults, imports>>

(* The session of the cookie, if it has not expired.  Mutant: any session. *)
FindAnyGuest(t) == {u \in Tokens : session[u] = "live"}
FindGuest(t) == {u \in Tokens : u = t /\ session[u] = "live"}

FirstStep(op) ==
  IF op = "save" THEN (IF "go" \in Backends THEN {"save"} ELSE {}) \cup (IF "python" \in Backends THEN {"find"} ELSE {})
  ELSE IF op = "remove" THEN {"remove"} ELSE {"video"}

IdentifyGuest(s) ==
  /\ At(s, "guest")
  /\ \E u \in FindGuest(handler[s].cookie), pc \in FirstStep(handler[s].op) :
       handler' = [handler EXCEPT ![s].pc = pc, ![s].guest = u]
  /\ Handling
  /\ UNCHANGED <<session, vocabulary, progress, strayed, told, removed>>

(* Somebody without a session becomes a new guest.  Another request of the *)
(* browser may have become one meanwhile.                                  *)
Twice(s) ==
  LET b == handler[s].browser
  IN  jar[b] # handler[s].cookie \/ \E r \in Handlers \ {s} : handler[r].fresh /\ handler[r].browser = b
CreateGuest(s) ==
  /\ At(s, "guest")
  /\ FindGuest(handler[s].cookie) = {}
  /\ \E u \in Tokens, pc \in FirstStep(handler[s].op) :
       /\ session[u] = "none"
       /\ session' = [session EXCEPT ![u] = "live"]
       /\ handler' = [handler EXCEPT ![s].pc = pc, ![s].guest = u, ![s].fresh = TRUE]
  /\ strayed' = IF Twice(s) THEN strayed \cup {handler[s].browser} ELSE strayed
  /\ Handling
  /\ UNCHANGED <<vocabulary, progress, told, removed>>

RowOf(s) == [guest |-> handler[s].guest, word |-> handler[s].word,
             meaning |-> handler[s].meaning, by |-> handler[s].browser]

(* uq_saved_vocabulary_guest_word *)
Duplicate(s) == \E r \in vocabulary : r.guest = handler[s].guest /\ r.word = handler[s].word

(* The video and the line the request names are still there. *)
LineExists(s) == import # 0 /\ import = handler[s].import

(* Mutant: the session is closed without a commit. *)
Uncommitted(s) == vocabulary
Inserted(s) == vocabulary \cup {RowOf(s)}

StoreRow(s, refused) ==
  /\ IF LineExists(s) /\ ~Duplicate(s)
       THEN vocabulary' = Inserted(s) /\ Answered(s, TRUE)
       ELSE UNCHANGED vocabulary /\ refused
  /\ Handling
  /\ UNCHANGED <<session, progress, strayed, told, removed>>

(* Go: one INSERT ... SELECT; a word that is saved already is an error, and *)
(* the response it is written to has the cookie already.                   *)
SaveVocabulary(s) == At(s, "save") /\ StoreRow(s, Answered(s, FALSE))

(* Python: the word is looked for ... *)
FindWord(s) ==
  /\ At(s, "find")
  /\ IF Duplicate(s) THEN Answered(s, TRUE) ELSE Goto(s, "check")
  /\ Handling
  /\ UNCHANGED <<session, vocabulary, progress, strayed, told, removed>>

(* ... then the video and the line: an AppError without them ... *)
FindLine(s) ==
  /\ At(s, "check")
  /\ IF LineExists(s) THEN Goto(s, "insert") ELSE Raises(s)
  /\ Handling
  /\ UNCHANGED <<session, vocabulary, progress, strayed, told, removed>>

(* ... and the row is inserted, unless a constraint refuses it. *)
InsertWord(s) == At(s, "insert") /\ StoreRow(s, Raises(s))

(* Mutant: the id alone decides. *)
RowsWithId(s) == {r \in vocabulary : r.guest = handler[s].owner /\ r.word = handler[s].word}
OwnRows(s) == {r \in RowsWithId(s) : r.guest = handler[s].guest}

Saved(R) == {<<r.guest, r.word>> : r \in R}

DeleteVocabulary(s) ==
  /\ At(s, "remove")
  /\ vocabulary' = vocabulary \ OwnRows(s)
  /\ removed' = removed \cup Saved(OwnRows(s))
  /\ Answered(s, FALSE)
  /\ Handling
  /\ UNCHANGED <<session, progress, strayed, told>>

(* POST /playback-position, in Python: the video, then an upsert, which *)
(* raises when the video has gone in between.                           *)
FindVideo(s) ==
  /\ At(s, "video")
  /\ IF import = 0 THEN Answered(s, FALSE)
     ELSE handler' = [handler EXCEPT ![s].pc = "upsert", ![s].import = import]
  /\ Handling
  /\ UNCHANGED <<session, vocabulary, progress, strayed, told, removed>>

UpdateProgress(s) ==
  /\ At(s, "upsert")
  /\ IF LineExists(s)
       THEN progress' = progress \cup {handler[s].guest} /\ Answered(s, FALSE)
       ELSE UNCHANGED progress /\ Raises(s)
  /\ Handling
  /\ UNCHANGED <<session, vocabulary, strayed, told, removed>>

(* The cookie of a new guest is set on the response that the handler is     *)
(* given; what Python answers to an exception is another response.         *)
(* Mutant: a browser that sent a cookie is not sent another.               *)
OnlyFirstCookie(s) == handler[s].fresh /\ ~handler[s].raised /\ handler[s].cookie = NoToken
SetsCookie(s) == handler[s].fresh /\ ~handler[s].raised

Finish(s) ==
  /\ handler' = [handler EXCEPT ![s] = NoRequest]
  /\ UNCHANGED <<rows, dictionary, sent, imports, removed>>

Answer(s) ==
  /\ At(s, "answer")
  /\ jar' = IF SetsCookie(s) THEN [jar EXCEPT ![handler[s].browser] = handler[s].guest] ELSE jar
  /\ told' = IF handler[s].saved THEN told \cup {<<handler[s].guest, handler[s].word>>} ELSE told
  /\ Finish(s)
  /\ UNCHANGED <<strayed, faults>>

Fault == faults < MaxFaults /\ faults' = faults + 1

(* The connection is gone when the answer is ready. *)
AnswerLost(s) ==
  /\ At(s, "answer")
  /\ Fault
  /\ strayed' = IF SetsCookie(s) THEN strayed \cup {handler[s].browser} ELSE strayed
  /\ Finish(s)
  /\ UNCHANGED <<jar, told>>

-----------------------------------------------------------------------------
(* Sessions expire; a developer deletes the video or imports it again. *)
Expire(t) ==
  /\ session[t] = "live"
  /\ Fault
  /\ session' = [session EXCEPT ![t] = "expired"]
  /\ UNCHANGED <<vocabulary, progress, import, handler, jar, dictionary, sent, imports, strayed, told, removed>>

DeleteVideo ==
  /\ import # 0
  /\ Fault
  /\ import' = 0
  /\ vocabulary' = {}
  /\ progress' = {}
  /\ removed' = removed \cup Saved(vocabulary)
  /\ UNCHANGED <<session, handler, jar, dictionary, sent, imports, strayed, told>>

ImportVideo ==
  /\ import = 0
  /\ imports' = imports + 1
  /\ import' = imports'
  /\ UNCHANGED <<session, vocabulary, progress, handler, jar, dictionary, sent, faults, strayed, told, removed>>

GuestNext ==
  \/ \E b \in Browsers : \E w \in Words : ClickToken(b, w) \/ LookupAnswered(b, w)
  \/ \E b \in Browsers, s \in Handlers :
       AskSave(b, s) \/ AskRemove(b, s) \/ AskPosition(b, s)
  \/ \E s \in Handlers :
       \/ IdentifyGuest(s) \/ CreateGuest(s)
       \/ SaveVocabulary(s) \/ FindWord(s) \/ FindLine(s) \/ InsertWord(s)
       \/ DeleteVocabulary(s) \/ FindVideo(s) \/ UpdateProgress(s)
       \/ Answer(s) \/ AnswerLost(s)
  \/ \E t \in Tokens : Expire(t)
  \/ DeleteVideo \/ ImportVideo

GuestSpec == GuestInit /\ [][GuestNext]_guestVars

-----------------------------------------------------------------------------
(* Properties *)

(* A guest that was told a word is saved has it, until the guest or the    *)
(* video's deletion takes it away.                                         *)
SavedIsKept == told \subseteq Saved(vocabulary) \cup removed

(* A word a browser saved belongs to the guest of its cookie: it is lost   *)
(* to the browser only with an expired session, with an answer that never  *)
(* came, or when the browser was made a guest twice at once.               *)
AnswerPending(r) ==
  \E s \in Handlers : /\ handler[s].fresh /\ ~handler[s].raised
                      /\ handler[s].guest = r.guest /\ handler[s].browser = r.by
SavedWordsStayReachable ==
  \A r \in vocabulary :
    jar[r.by] = r.guest \/ session[r.guest] = "expired" \/ r.by \in strayed \/ AnswerPending(r)

(* A word is saved with its own meaning, unless the learner clicked the    *)
(* next token before the entry of the last one had come.                   *)
MeaningBelongsToWord == \A r \in vocabulary : r.meaning = r.word \/ r.by \in overlap

(* README, "vocabulary and playback progress are isolated by guest": what  *)
(* a guest keeps changes only in a request that showed its cookie, or that *)
(* made it a guest, or with the video.                                     *)
RowsOf(g) == <<{r \in vocabulary : r.guest = g}, g \in progress>>
ActsFor(s, g) == handler[s].guest = g /\ (handler[s].cookie = g \/ handler[s].fresh)
IsolatedByGuest ==
  [][\A g \in Tokens : RowsOf(g)' # RowsOf(g) =>
       import' # import \/ \E s \in Handlers : handler'[s] # handler[s] /\ ActsFor(s, g)]_guestVars
=============================================================================
