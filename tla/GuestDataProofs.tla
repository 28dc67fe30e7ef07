-------------------------- MODULE GuestDataProofs --------------------------
(***************************************************************************)
(* Proofs about GuestData, for every number of browsers, words, requests   *)
(* and faults.                                                             *)
(***************************************************************************)
EXTENDS GuestData, TLAPS

(* A video is imported again only after a deletion. *)
ImportsCounted ==
  /\ imports \in Nat /\ faults \in 0 .. MaxFaults /\ import \in 0 .. imports
  /\ imports <= faults + 1 /\ (import = 0 => imports <= faults)

(* The guest is known. *)
Identified(s) == handler[s].pc \notin {"idle", "guest"}
Fresh(s) == handler[s].fresh
Saves(s) == handler[s].op = "save"

(* Nobody uses a session that was never created. *)
Exists(t) == session[t] # "none"
SessionsExist ==
  /\ \A b \in Browsers : jar[b] \in Tokens => Exists(jar[b])
  /\ \A r \in vocabulary : Exists(r.guest)
  /\ \A s \in Handlers :
       /\ handler[s].cookie \in Tokens => Exists(handler[s].cookie)
       /\ Identified(s) => handler[s].guest \in Tokens /\ Exists(handler[s].guest)

(* What a request is about, and for whom it acts. *)
SavesWord(s) ==
  /\ handler[s].pc \in {"save", "find", "check", "insert"} => Saves(s)
  /\ handler[s].pc # "idle" /\ Saves(s) =>
       /\ handler[s].word \in Words /\ handler[s].meaning \in Words
       /\ handler[s].meaning = handler[s].word \/ handler[s].browser \in overlap
SaysSaved(s) ==
  handler[s].saved =>
    handler[s].pc = "answer" /\ Saves(s) /\ <<handler[s].guest, handler[s].word>> \in Saved(vocabulary) \cup removed
OwnGuest(s) == Identified(s) => handler[s].cookie = handler[s].guest \/ Fresh(s)
RequestsHold == \A s \in Handlers : SavesWord(s) /\ SaysSaved(s) /\ OwnGuest(s)

(* A page that never had two lookups at once shows the entry of its word. *)
EntryIsSelected ==
  \A b \in Browsers : b \in overlap \/ (entry[b] \in {NoWord, selected[b]} /\ lookups[b] \subseteq {selected[b]})

(* The cookie of a browser is changed only by the answer that makes it a   *)
(* guest, and then its cookie was of no use.                               *)
Dead(t) == t \in Tokens => session[t] = "expired"
Strays(s) == handler[s].browser \in strayed
JarOf(s) == jar[handler[s].browser]
CookieIsCurrent(s) ==
  handler[s].pc = "guest" => handler[s].cookie = JarOf(s) \/ Dead(handler[s].cookie) \/ Strays(s)
GuestIsCurrent(s) ==
  Identified(s) /\ ~Fresh(s) => JarOf(s) = handler[s].guest \/ Dead(handler[s].guest) \/ Strays(s)
FreshIsAlone(s) ==
  Fresh(s) => /\ Identified(s)
              /\ \/ Strays(s)
                 \/ /\ Dead(JarOf(s))
                    /\ \A t \in Handlers \ {s} : Fresh(t) => handler[t].browser # handler[s].browser
CookiesHold == \A s \in Handlers : CookieIsCurrent(s) /\ GuestIsCurrent(s) /\ FreshIsAlone(s)

(* A guest that a request has just made is known to that request only, and *)
(* has no row before the request succeeds: an answer that raises and loses *)
(* its cookie loses no word.                                               *)
Hides(s) ==
  /\ \A b \in Browsers : jar[b] # handler[s].guest
  /\ \A t \in Handlers \ {s} :
       handler[t].cookie # handler[s].guest /\ (Identified(t) => handler[t].guest # handler[s].guest)
  /\ handler[s].pc # "answer" \/ handler[s].raised => \A r \in vocabulary : r.guest # handler[s].guest
FreshIsHidden ==
  \A s \in Handlers : (handler[s].raised => handler[s].pc = "answer") /\ (Fresh(s) => Hides(s))

GuestInv ==
  /\ GuestTypeOK /\ ImportsCounted /\ SessionsExist /\ RequestsHold /\ EntryIsSelected /\ CookiesHold
  /\ SavedIsKept /\ SavedWordsStayReachable /\ MeaningBelongsToWord

USE GuestAssumption

-----------------------------------------------------------------------------
(* The initial states *)

LEMMA NoRequestTyped == NoRequest \in Request
<1>1. (CHOOSE b \in Browsers : TRUE) \in Browsers  OBVIOUS
<1>2. 0 \in 0 .. MaxFaults + 1  OBVIOUS
<1> QED  BY <1>1, <1>2 DEF NoRequest, Request, HandlerPc, Ops, Token, Word

LEMMA InitEstablishes == GuestInit => GuestInv
<1> SUFFICES ASSUME GuestInit PROVE GuestInv  OBVIOUS
<1> USE DEF GuestInit
<1>1. \A s \in Handlers : handler[s] = NoRequest  OBVIOUS
<1>2. \A s \in Handlers : /\ handler[s].pc = "idle" /\ handler[s].cookie = NoToken
                          /\ handler[s].saved = FALSE /\ handler[s].fresh = FALSE
  BY <1>1 DEF NoRequest
<1>3. GuestTypeOK  BY NoRequestTyped DEF GuestTypeOK, Token, Word
<1>4. ImportsCounted  BY DEF ImportsCounted
<1>5. SessionsExist  BY <1>2 DEF SessionsExist, Identified
<1>6. RequestsHold  BY <1>2 DEF RequestsHold, SavesWord, SaysSaved, OwnGuest, Identified
<1>7. EntryIsSelected  BY DEF EntryIsSelected
<1>8. CookiesHold  BY <1>2 DEF CookiesHold, CookieIsCurrent, GuestIsCurrent, FreshIsAlone, Identified, Fresh
<1>9. SavedIsKept /\ SavedWordsStayReachable /\ MeaningBelongsToWord
  BY DEF SavedIsKept, SavedWordsStayReachable, MeaningBelongsToWord
<1> QED  BY <1>3, <1>4, <1>5, <1>6, <1>7, <1>8, <1>9 DEF GuestInv

-----------------------------------------------------------------------------
(* Steps of a handler that knows its guest *)

(* What such a step leaves of the request. *)
SameRequest(s) ==
  /\ handler' \in [Handlers -> Request]
  /\ \A t \in Handlers \ {s} : handler'[t] = handler[t]
  /\ handler'[s].pc \notin {"idle", "guest"}
  /\ handler'[s].op = handler[s].op /\ handler'[s].browser = handler[s].browser
  /\ handler'[s].cookie = handler[s].cookie /\ handler'[s].guest = handler[s].guest
  /\ handler'[s].fresh = handler[s].fresh
  /\ handler'[s].word = handler[s].word /\ handler'[s].meaning = handler[s].meaning

(* A handler writes rows of its own guest only, and what disappears is     *)
(* noted.                                                                  *)
LEMMA HandlerKeeps ==
  ASSUME GuestInv, NEW s \in Handlers, Identified(s), SameRequest(s), Handling,
         UNCHANGED <<session, strayed, told>>,
         handler'[s].pc \in {"save", "find", "check", "insert"} => Saves(s),
         handler'[s].saved =>
           handler'[s].pc = "answer" /\ Saves(s) /\ <<handler[s].guest, handler[s].word>> \in Saved(vocabulary)' \cup removed',
         \A r \in vocabulary' : r \in vocabulary \/ (r = RowOf(s) /\ Saves(s)),
         Saved(vocabulary) \cup removed \subseteq Saved(vocabulary)' \cup removed',
         Fresh(s) /\ handler'[s].raised => \A r \in vocabulary' : r.guest # handler[s].guest,
         removed' \subseteq Tokens \X Words, progress' \subseteq Tokens
  PROVE  GuestInv'
<1>1. UNCHANGED <<import, jar, selected, entry, lookups, clicks, overlap, sent, faults, imports>>
  BY DEF Handling, dictionary
<1>2. \A t \in Handlers :
        /\ Identified(t)' <=> Identified(t)
        /\ handler'[t].pc = "idle" <=> handler[t].pc = "idle"
        /\ handler'[t].pc = "guest" <=> handler[t].pc = "guest"
        /\ handler'[t].op = handler[t].op /\ handler'[t].browser = handler[t].browser
        /\ handler'[t].cookie = handler[t].cookie /\ handler'[t].guest = handler[t].guest
        /\ handler'[t].fresh = handler[t].fresh
        /\ handler'[t].word = handler[t].word /\ handler'[t].meaning = handler[t].meaning
  BY DEF SameRequest, Identified
<1>3. ASSUME NEW r \in vocabulary', r \notin vocabulary
      PROVE  /\ r \in Row /\ r.guest = handler[s].guest /\ r.by = handler[s].browser
             /\ r.word = handler[s].word /\ r.meaning = handler[s].meaning /\ Saves(s)
  <2>1. r = RowOf(s) /\ Saves(s)  BY <1>3
  <2>2. /\ handler[s].guest \in Tokens /\ handler[s].word \in Words /\ handler[s].meaning \in Words
        /\ handler[s].browser \in Browsers
    BY <2>1 DEF GuestInv, SessionsExist, RequestsHold, SavesWord, Identified, GuestTypeOK, Request
  <2> QED  BY <2>1, <2>2 DEF RowOf, Row
<1>4. GuestTypeOK'
  <2>1. vocabulary' \subseteq Row  BY <1>3 DEF GuestInv, GuestTypeOK
  <2>2. (told \cup removed)' \subseteq Tokens \X Words  BY DEF GuestInv, GuestTypeOK
  <2> QED  BY <1>1, <2>1, <2>2 DEF GuestInv, GuestTypeOK, SameRequest
<1>5. ImportsCounted'  BY <1>1 DEF GuestInv, ImportsCounted
<1>6. SessionsExist'
  <2>1. \A t \in Tokens : Exists(t)' <=> Exists(t)  BY DEF Exists
  <2>2. handler[s].guest \in Tokens /\ Exists(handler[s].guest)  BY DEF GuestInv, SessionsExist
  <2>3. \A r \in vocabulary' : session'[r.guest] # "none"  BY <1>3, <2>2 DEF GuestInv, SessionsExist, Exists
  <2>4. \A t \in Handlers :
          /\ handler'[t].cookie \in Tokens => session'[handler'[t].cookie] # "none"
          /\ Identified(t)' => handler'[t].guest \in Tokens /\ session'[handler'[t].guest] # "none"
    BY <1>2 DEF GuestInv, SessionsExist, Exists
  <2>5. \A b \in Browsers : jar'[b] \in Tokens => session'[jar'[b]] # "none"
    BY <1>1 DEF GuestInv, SessionsExist, Exists
  <2> QED  BY <2>3, <2>4, <2>5 DEF SessionsExist, Exists, Identified
<1>7. RequestsHold'
  <2>1. ASSUME NEW t \in Handlers PROVE SavesWord(t)'
    <3>1. SavesWord(t)  BY DEF GuestInv, RequestsHold
    <3>2. handler'[t].pc \in {"save", "find", "check", "insert"} => Saves(t)
      BY <3>1 DEF SavesWord, SameRequest
    <3> QED  BY <1>1, <1>2, <3>1, <3>2 DEF SavesWord, Saves
  <2>2. ASSUME NEW t \in Handlers PROVE SaysSaved(t)'
    <3>1. CASE t = s  BY <1>2, <3>1 DEF SaysSaved, Saves
    <3>2. CASE t # s
      <4>1. SaysSaved(t) /\ handler'[t] = handler[t]  BY <3>2 DEF GuestInv, RequestsHold, SameRequest
      <4>2. <<handler[t].guest, handler[t].word>> \in Saved(vocabulary) \cup removed =>
              <<handler[t].guest, handler[t].word>> \in Saved(vocabulary)' \cup removed'
        OBVIOUS
      <4> QED  BY <4>1, <4>2 DEF SaysSaved, Saves
    <3> QED  BY <3>1, <3>2
  <2>3. \A t \in Handlers : OwnGuest(t)'  BY <1>2 DEF GuestInv, RequestsHold, OwnGuest, Fresh
  <2> QED  BY <2>1, <2>2, <2>3 DEF RequestsHold
<1>8. EntryIsSelected'  BY <1>1 DEF GuestInv, EntryIsSelected
<1>9. CookiesHold'
  <2>1. \A t \in Handlers : (Fresh(t)' <=> Fresh(t)) /\ (Strays(t)' <=> Strays(t)) /\ JarOf(t)' = JarOf(t)
    BY <1>1, <1>2 DEF Fresh, Strays, JarOf
  <2>2. ASSUME NEW t \in Handlers PROVE CookieIsCurrent(t)' /\ GuestIsCurrent(t)'
    BY <1>2, <2>1 DEF GuestInv, CookiesHold, CookieIsCurrent, GuestIsCurrent, Dead
  <2>3. ASSUME NEW t \in Handlers PROVE FreshIsAlone(t)'
    BY <1>2, <2>1 DEF GuestInv, CookiesHold, FreshIsAlone, Dead
  <2> QED  BY <2>2, <2>3 DEF CookiesHold
<1>10. SavedIsKept'  BY DEF GuestInv, SavedIsKept
<1>11. SavedWordsStayReachable'
  <2>1. ASSUME NEW r \in vocabulary'
        PROVE  jar[r.by] = r.guest \/ session[r.guest] = "expired" \/ r.by \in strayed \/ AnswerPending(r)'
    <3>1. CASE r \in vocabulary /\ AnswerPending(r)
      <4>1. PICK t \in Handlers : /\ handler[t].fresh /\ ~handler[t].raised
                                 /\ handler[t].guest = r.guest /\ handler[t].browser = r.by
        BY <3>1 DEF AnswerPending
      <4>2. ~handler'[t].raised
        <5>1. CASE t = s  BY <2>1, <4>1, <5>1 DEF Fresh
        <5>2. CASE t # s  BY <4>1, <5>2 DEF SameRequest
        <5> QED  BY <5>1, <5>2
      <4> QED  BY <1>2, <4>1, <4>2 DEF AnswerPending
    <3>2. CASE r \in vocabulary /\ ~AnswerPending(r)  BY <3>2 DEF GuestInv, SavedWordsStayReachable
    <3>3. CASE r \notin vocabulary
      <4>1. r.guest = handler[s].guest /\ r.by = handler[s].browser  BY <1>3, <3>3
      <4>2. CASE Fresh(s)
        <5>1. ~handler'[s].raised  BY <2>1, <4>1, <4>2
        <5> QED  BY <1>2, <4>1, <4>2, <5>1 DEF AnswerPending, Fresh
      <4>3. CASE ~Fresh(s)
        <5>1. handler[s].guest \in Tokens  BY DEF GuestInv, SessionsExist
        <5> QED  BY <4>1, <4>3, <5>1 DEF GuestInv, CookiesHold, GuestIsCurrent, JarOf, Strays, Dead
      <4> QED  BY <4>2, <4>3
    <3> QED  BY <3>1, <3>2, <3>3
  <2> QED  BY <1>1, <2>1 DEF SavedWordsStayReachable
<1>12. MeaningBelongsToWord'
  <2>1. ASSUME NEW r \in vocabulary' PROVE r.meaning = r.word \/ r.by \in overlap
    <3>1. CASE r \in vocabulary  BY <3>1 DEF GuestInv, MeaningBelongsToWord
    <3>2. CASE r \notin vocabulary
      BY <1>3, <3>2 DEF GuestInv, RequestsHold, SavesWord, Identified
    <3> QED  BY <3>1, <3>2
  <2> QED  BY <1>1, <2>1 DEF MeaningBelongsToWord
<1> QED  BY <1>4, <1>5, <1>6, <1>7, <1>8, <1>9, <1>10, <1>11, <1>12 DEF GuestInv

(* Its answer, or its next step. *)
LEMMA AnsweredMoves ==
  ASSUME GuestInv, NEW s \in Handlers, NEW saved \in BOOLEAN, Answered(s, saved)
  PROVE  /\ SameRequest(s) /\ handler'[s].pc = "answer" /\ handler'[s].saved = saved
         /\ handler'[s].raised = handler[s].raised
<1>1. handler \in [Handlers -> Request]  BY DEF GuestInv, GuestTypeOK
<1>2. handler' = [handler EXCEPT ![s].pc = "answer", ![s].saved = saved]  BY DEF Answered
<1>3. /\ handler' \in [Handlers -> Request]
      /\ \A t \in Handlers \ {s} : handler'[t] = handler[t]
      /\ handler'[s] = [handler[s] EXCEPT !.pc = "answer", !.saved = saved]
  <2>1. DOMAIN handler = Handlers /\ handler[s] \in Request  BY <1>1
  <2>2. [handler[s] EXCEPT !.pc = "answer", !.saved = saved] \in Request  BY <2>1 DEF Request, HandlerPc
  <2>3. handler' = [handler EXCEPT ![s] = [handler[s] EXCEPT !.pc = "answer", !.saved = saved]]
    BY <1>1, <1>2
  <2> QED  BY <1>1, <2>2, <2>3
<1> QED  BY <1>1, <1>3 DEF SameRequest, Request

LEMMA RaisesMoves ==
  ASSUME GuestInv, NEW s \in Handlers, Raises(s), ~At(s, "answer")
  PROVE  SameRequest(s) /\ handler'[s].pc = "answer" /\ ~handler'[s].saved
<1>1. handler \in [Handlers -> Request] /\ ~handler[s].saved
  BY DEF GuestInv, GuestTypeOK, RequestsHold, SaysSaved, At
<1>2. handler' = [handler EXCEPT ![s].pc = "answer", ![s].raised = TRUE]  BY DEF Raises
<1>3. /\ handler' \in [Handlers -> Request]
      /\ \A t \in Handlers \ {s} : handler'[t] = handler[t]
      /\ handler'[s] = [handler[s] EXCEPT !.pc = "answer", !.raised = TRUE]
  <2>1. DOMAIN handler = Handlers /\ handler[s] \in Request  BY <1>1
  <2>2. [handler[s] EXCEPT !.pc = "answer", !.raised = TRUE] \in Request  BY <2>1 DEF Request, HandlerPc
  <2>3. handler' = [handler EXCEPT ![s] = [handler[s] EXCEPT !.pc = "answer", !.raised = TRUE]]
    BY <1>1, <1>2
  <2> QED  BY <1>1, <2>2, <2>3
<1> QED  BY <1>1, <1>3 DEF SameRequest, Request

LEMMA GotoMoves ==
  ASSUME GuestInv, NEW s \in Handlers, NEW pc \in HandlerPc \ {"idle", "guest", "answer"}, Goto(s, pc), ~At(s, "answer")
  PROVE  SameRequest(s) /\ handler'[s].pc = pc /\ ~handler'[s].saved /\ handler'[s].raised = handler[s].raised
<1>1. handler \in [Handlers -> Request] /\ ~handler[s].saved
  BY DEF GuestInv, GuestTypeOK, RequestsHold, SaysSaved, At
<1>2. handler' = [handler EXCEPT ![s].pc = pc]  BY DEF Goto
<1>3. /\ handler' \in [Handlers -> Request]
      /\ \A t \in Handlers \ {s} : handler'[t] = handler[t]
      /\ handler'[s] = [handler[s] EXCEPT !.pc = pc]
  BY <1>1, <1>2 DEF Request, HandlerPc
<1> QED  BY <1>1, <1>3 DEF SameRequest, Request

(* The words and guests of rows. *)
LEMMA RowsTyped ==
  ASSUME GuestInv
  PROVE  /\ vocabulary \subseteq Row /\ Saved(vocabulary) \subseteq Tokens \X Words
         /\ removed \subseteq Tokens \X Words /\ progress \subseteq Tokens
<1>1. vocabulary \subseteq Row  BY DEF GuestInv, GuestTypeOK
<1>2. \A r \in vocabulary : r.guest \in Tokens /\ r.word \in Words  BY <1>1 DEF Row
<1> QED  BY <1>1, <1>2 DEF GuestInv, GuestTypeOK, Saved

(* A request that goes on to insert its word is not an answer yet, and the *)
(* guest it may have made has no row.                                      *)
LEMMA NotAnsweredYet ==
  ASSUME GuestInv, FreshIsHidden, NEW s \in Handlers, Identified(s), ~At(s, "answer")
  PROVE  /\ ~handler[s].raised
         /\ Fresh(s) => \A r \in vocabulary : r.guest # handler[s].guest
BY DEF FreshIsHidden, Hides, At

Stores(s) == SaveVocabulary(s) \/ InsertWord(s)

LEMMA StoreMoves ==
  ASSUME GuestInv, FreshIsHidden, NEW s \in Handlers, Stores(s)
  PROVE  /\ Identified(s) /\ Saves(s) /\ ~At(s, "answer") /\ SameRequest(s) /\ handler'[s].pc = "answer"
         /\ Handling /\ UNCHANGED <<session, progress, strayed, told, removed>>
         /\ \/ vocabulary' = vocabulary \cup {RowOf(s)} /\ ~handler'[s].raised
            \/ vocabulary' = vocabulary /\ ~handler'[s].saved
<1>1. Identified(s) /\ Saves(s) /\ ~At(s, "answer")
  BY DEF Stores, SaveVocabulary, InsertWord, At, Identified, GuestInv, RequestsHold, SavesWord
<1>2. Handling /\ UNCHANGED <<session, progress, strayed, told, removed>>
  BY DEF Stores, SaveVocabulary, InsertWord, StoreRow
<1>3. \/ vocabulary' = vocabulary \cup {RowOf(s)} /\ Answered(s, TRUE)
      \/ vocabulary' = vocabulary /\ (Answered(s, FALSE) \/ Raises(s))
  BY DEF Stores, SaveVocabulary, InsertWord, StoreRow, Inserted
<1>4. CASE vocabulary' = vocabulary \cup {RowOf(s)} /\ Answered(s, TRUE)
  <2>1. SameRequest(s) /\ handler'[s].pc = "answer" /\ ~handler'[s].raised
    BY <1>1, <1>4, AnsweredMoves, NotAnsweredYet
  <2> QED  BY <1>1, <1>2, <1>4, <2>1
<1>5. CASE vocabulary' = vocabulary /\ (Answered(s, FALSE) \/ Raises(s))
  <2>1. SameRequest(s) /\ handler'[s].pc = "answer" /\ ~handler'[s].saved
    BY <1>1, <1>5, AnsweredMoves, RaisesMoves
  <2> QED  BY <1>1, <1>2, <1>5, <2>1
<1> QED  BY <1>3, <1>4, <1>5

LEMMA StoreKeeps ==
  ASSUME GuestInv, FreshIsHidden, NEW s \in Handlers, Stores(s)
  PROVE  GuestInv'
<1>1. /\ Identified(s) /\ Saves(s) /\ ~At(s, "answer") /\ SameRequest(s) /\ handler'[s].pc = "answer"
      /\ Handling /\ UNCHANGED <<session, progress, strayed, told, removed>>
  BY StoreMoves
<1>2. removed' \subseteq Tokens \X Words /\ progress' \subseteq Tokens  BY <1>1, RowsTyped
<1>3. CASE vocabulary' = vocabulary \cup {RowOf(s)} /\ ~handler'[s].raised
  <2>1. \A r \in vocabulary' : r \in vocabulary \/ (r = RowOf(s) /\ Saves(s))  BY <1>1, <1>3
  <2>2. Saved(vocabulary) \cup removed \subseteq Saved(vocabulary)' \cup removed'  BY <1>1, <1>3 DEF Saved
  <2>3. <<handler[s].guest, handler[s].word>> \in Saved(vocabulary)'
    <3>1. RowOf(s) \in vocabulary'  BY <1>3
    <3>2. RowOf(s).guest = handler[s].guest /\ RowOf(s).word = handler[s].word  BY DEF RowOf
    <3> QED  BY <3>1, <3>2 DEF Saved
  <2> QED  BY <1>1, <1>2, <1>3, <2>1, <2>2, <2>3, HandlerKeeps
<1>4. CASE vocabulary' = vocabulary /\ ~handler'[s].saved
  <2>1. Saved(vocabulary) \cup removed \subseteq Saved(vocabulary)' \cup removed'  BY <1>1, <1>4 DEF Saved
  <2>2. Fresh(s) => \A r \in vocabulary' : r.guest # handler[s].guest  BY <1>1, <1>4, NotAnsweredYet
  <2> QED  BY <1>1, <1>2, <1>4, <2>1, <2>2, HandlerKeeps
<1> QED  BY <1>3, <1>4, StoreMoves

(* A step that writes no row of a word. *)
LEMMA QuietKeeps ==
  ASSUME GuestInv, FreshIsHidden, NEW s \in Handlers, Identified(s), ~At(s, "answer"), SameRequest(s), Handling,
         UNCHANGED <<session, vocabulary, strayed, told, removed>>, progress' \subseteq Tokens,
         handler'[s].pc \in {"save", "find", "check", "insert"} => Saves(s),
         handler'[s].saved =>
           handler'[s].pc = "answer" /\ Saves(s) /\ <<handler[s].guest, handler[s].word>> \in Saved(vocabulary)
  PROVE  GuestInv'
<1>1. Saved(vocabulary)' = Saved(vocabulary)  BY DEF Saved
<1>2. Fresh(s) => \A r \in vocabulary' : r.guest # handler[s].guest  BY NotAnsweredYet
<1> QED  BY <1>1, <1>2, RowsTyped, HandlerKeeps

LEMMA FindWordKeeps == ASSUME GuestInv, FreshIsHidden, NEW s \in Handlers, FindWord(s) PROVE GuestInv'
<1>1. Identified(s) /\ Saves(s) /\ ~At(s, "answer")
  BY DEF FindWord, At, Identified, GuestInv, RequestsHold, SavesWord
<1>2. Handling /\ UNCHANGED <<session, vocabulary, progress, strayed, told, removed>>  BY DEF FindWord
<1>3. progress' \subseteq Tokens  BY <1>2, RowsTyped
<1>4. CASE Duplicate(s)
  <2>1. SameRequest(s) /\ handler'[s].pc = "answer"  BY <1>4, AnsweredMoves DEF FindWord
  <2>2. <<handler[s].guest, handler[s].word>> \in Saved(vocabulary)  BY <1>4 DEF Duplicate, Saved
  <2> QED  BY <1>1, <1>2, <1>3, <2>1, <2>2, QuietKeeps
<1>5. CASE ~Duplicate(s)
  <2>1. SameRequest(s) /\ handler'[s].pc = "check" /\ ~handler'[s].saved
    BY <1>1, <1>5, GotoMoves DEF FindWord, HandlerPc
  <2> QED  BY <1>1, <1>2, <1>3, <2>1, QuietKeeps
<1> QED  BY <1>4, <1>5

LEMMA FindLineKeeps == ASSUME GuestInv, FreshIsHidden, NEW s \in Handlers, FindLine(s) PROVE GuestInv'
<1>1. Identified(s) /\ Saves(s) /\ ~At(s, "answer")
  BY DEF FindLine, At, Identified, GuestInv, RequestsHold, SavesWord
<1>2. Handling /\ UNCHANGED <<session, vocabulary, progress, strayed, told, removed>>  BY DEF FindLine
<1>3. progress' \subseteq Tokens  BY <1>2, RowsTyped
<1>4. SameRequest(s) /\ ~handler'[s].saved
  <2>1. CASE LineExists(s)  BY <1>1, <2>1, GotoMoves DEF FindLine, HandlerPc
  <2>2. CASE ~LineExists(s)  BY <1>1, <2>2, RaisesMoves DEF FindLine
  <2> QED  BY <2>1, <2>2
<1> QED  BY <1>1, <1>2, <1>3, <1>4, QuietKeeps

LEMMA DeleteVocabularyKeeps == ASSUME GuestInv, FreshIsHidden, NEW s \in Handlers, DeleteVocabulary(s) PROVE GuestInv'
<1>1. Identified(s) /\ ~At(s, "answer")  BY DEF DeleteVocabulary, At, Identified
<1>2. /\ Handling /\ UNCHANGED <<session, progress, strayed, told>>
      /\ vocabulary' = vocabulary \ OwnRows(s) /\ removed' = removed \cup Saved(OwnRows(s))
  BY DEF DeleteVocabulary
<1>3. SameRequest(s) /\ handler'[s].pc = "answer" /\ ~handler'[s].saved
  BY AnsweredMoves DEF DeleteVocabulary
<1>4. OwnRows(s) \subseteq vocabulary  BY DEF OwnRows, RowsWithId
<1>5. Saved(vocabulary) \cup removed \subseteq Saved(vocabulary)' \cup removed'  BY <1>2 DEF Saved
<1>6. removed' \subseteq Tokens \X Words /\ progress' \subseteq Tokens
  <2>1. Saved(OwnRows(s)) \subseteq Saved(vocabulary)  BY <1>4 DEF Saved
  <2> QED  BY <1>2, <2>1, RowsTyped
<1>7. \A r \in vocabulary' : r \in vocabulary  BY <1>2
<1>8. Fresh(s) => \A r \in vocabulary' : r.guest # handler[s].guest  BY <1>1, <1>7, NotAnsweredYet
<1> QED  BY <1>1, <1>2, <1>3, <1>5, <1>6, <1>7, <1>8, HandlerKeeps

LEMMA FindVideoKeeps == ASSUME GuestInv, FreshIsHidden, NEW s \in Handlers, FindVideo(s) PROVE GuestInv'
<1>1. Identified(s) /\ ~At(s, "answer")  BY DEF FindVideo, At, Identified
<1>2. Handling /\ UNCHANGED <<session, vocabulary, progress, strayed, told, removed>>  BY DEF FindVideo
<1>3. progress' \subseteq Tokens  BY <1>2, RowsTyped
<1>4. SameRequest(s) /\ ~handler'[s].saved /\ handler'[s].pc \in {"answer", "upsert"}
  <2>1. CASE import = 0  BY <2>1, AnsweredMoves DEF FindVideo
  <2>2. CASE import # 0
    <3>1. handler' = [handler EXCEPT ![s].pc = "upsert", ![s].import = import]  BY <2>2 DEF FindVideo
    <3>2. handler \in [Handlers -> Request] /\ ~handler[s].saved
      BY <1>1 DEF GuestInv, GuestTypeOK, RequestsHold, SaysSaved, At
    <3>3. import \in 0 .. MaxFaults + 1  BY DEF GuestInv, ImportsCounted
    <3>4. /\ handler' \in [Handlers -> Request]
          /\ \A t \in Handlers \ {s} : handler'[t] = handler[t]
          /\ handler'[s] = [handler[s] EXCEPT !.pc = "upsert", !.import = import]
      <4>1. [handler[s] EXCEPT !.pc = "upsert", !.import = import] \in Request  BY <3>2, <3>3 DEF Request, HandlerPc
      <4>2. handler' = [handler EXCEPT ![s] = [handler[s] EXCEPT !.pc = "upsert", !.import = import]]
        BY <3>1, <3>2
      <4> QED  BY <3>2, <4>1, <4>2
    <3> QED  BY <3>2, <3>4 DEF SameRequest, Request
  <2> QED  BY <2>1, <2>2
<1> QED  BY <1>1, <1>2, <1>3, <1>4, QuietKeeps

LEMMA UpdateProgressKeeps == ASSUME GuestInv, FreshIsHidden, NEW s \in Handlers, UpdateProgress(s) PROVE GuestInv'
<1>1. Identified(s) /\ ~At(s, "answer")  BY DEF UpdateProgress, At, Identified
<1>2. Handling /\ UNCHANGED <<session, vocabulary, strayed, told, removed>>  BY DEF UpdateProgress
<1>3. SameRequest(s) /\ handler'[s].pc = "answer" /\ ~handler'[s].saved
  BY <1>1, AnsweredMoves, RaisesMoves DEF UpdateProgress
<1>4. handler[s].guest \in Tokens  BY <1>1 DEF GuestInv, SessionsExist
<1>5. progress' \subseteq Tokens  BY <1>4, RowsTyped DEF UpdateProgress
<1> QED  BY <1>1, <1>2, <1>3, <1>5, QuietKeeps

-----------------------------------------------------------------------------
(* The guest of a request *)

LEMMA FirstSteps ==
  ASSUME NEW op \in Ops, NEW pc \in FirstStep(op)
  PROVE  /\ pc \in HandlerPc \ {"idle", "guest", "answer"}
         /\ pc \in {"save", "find", "check", "insert"} => op = "save"
BY DEF FirstStep, Ops, HandlerPc

(* The guest a request is given, found or new. *)
GuestGiven(s, u, pc, fresh) ==
  /\ handler' \in [Handlers -> Request]
  /\ \A t \in Handlers \ {s} : handler'[t] = handler[t]
  /\ handler'[s] = [handler[s] EXCEPT !.pc = pc, !.guest = u, !.fresh = fresh]

LEMMA GivenHolds ==
  ASSUME GuestInv, NEW s \in Handlers, At(s, "guest"), NEW u \in Tokens, NEW pc \in FirstStep(handler[s].op),
         NEW fresh \in BOOLEAN, GuestGiven(s, u, pc, fresh), Handling,
         UNCHANGED <<vocabulary, progress, told, removed>>,
         session' \in [Tokens -> {"none", "live", "expired"}], \A t \in Tokens : Exists(t) => session'[t] = session[t],
         session'[u] # "none", fresh \/ handler[s].cookie = u,
         strayed \subseteq strayed'
  PROVE  /\ GuestTypeOK' /\ ImportsCounted' /\ SessionsExist' /\ RequestsHold' /\ EntryIsSelected'
         /\ SavedIsKept' /\ MeaningBelongsToWord'
<1>1. UNCHANGED <<import, jar, selected, entry, lookups, clicks, overlap, sent, faults, imports>>
  BY DEF Handling, dictionary
<1>2. handler[s] \in Request /\ handler[s].op \in Ops  BY DEF GuestInv, GuestTypeOK, Request
<1>3. /\ pc \in HandlerPc \ {"idle", "guest", "answer"}
      /\ pc \in {"save", "find", "check", "insert"} => Saves(s)
  BY <1>2, FirstSteps DEF Saves
<1>4. /\ handler'[s].pc = pc /\ handler'[s].guest = u /\ handler'[s].fresh = fresh
      /\ handler'[s].op = handler[s].op /\ handler'[s].browser = handler[s].browser
      /\ handler'[s].cookie = handler[s].cookie /\ handler'[s].saved = handler[s].saved
      /\ handler'[s].word = handler[s].word /\ handler'[s].meaning = handler[s].meaning
  BY <1>2 DEF GuestGiven, Request
<1>5. \A t \in Handlers \ {s} : handler'[t] = handler[t]  BY DEF GuestGiven
<1>6. GuestTypeOK'  BY <1>1 DEF GuestInv, GuestTypeOK, GuestGiven
<1>7. ImportsCounted'  BY <1>1 DEF GuestInv, ImportsCounted
<1>8. SessionsExist'
  <2>1. \A t \in Tokens : Exists(t) => session'[t] # "none"  BY DEF Exists
  <2>2. \A r \in vocabulary' : session'[r.guest] # "none"
    <3>1. \A r \in vocabulary : r.guest \in Tokens  BY RowsTyped DEF Row
    <3> QED  BY <2>1, <3>1 DEF GuestInv, SessionsExist
  <2>3. \A b \in Browsers : jar'[b] \in Tokens => session'[jar'[b]] # "none"
    BY <1>1, <2>1 DEF GuestInv, SessionsExist
  <2>4. ASSUME NEW t \in Handlers
        PROVE  /\ handler'[t].cookie \in Tokens => session'[handler'[t].cookie] # "none"
               /\ Identified(t)' => handler'[t].guest \in Tokens /\ session'[handler'[t].guest] # "none"
    <3>1. CASE t = s  BY <1>4, <2>1, <3>1 DEF GuestInv, SessionsExist
    <3>2. CASE t # s  BY <1>5, <2>1, <3>2 DEF GuestInv, SessionsExist, Identified
    <3> QED  BY <3>1, <3>2
  <2> QED  BY <2>2, <2>3, <2>4 DEF SessionsExist, Exists, Identified
<1>9. RequestsHold'
  <2>1. ~handler[s].saved  BY DEF At, GuestInv, RequestsHold, SaysSaved
  <2>2. Saved(vocabulary)' = Saved(vocabulary)  BY DEF Saved
  <2>3. ASSUME NEW t \in Handlers PROVE SavesWord(t)' /\ OwnGuest(t)'
    <3>1. CASE t = s
      <4>1. SavesWord(s)' BY <1>1, <1>3, <1>4 DEF At, GuestInv, RequestsHold, SavesWord, Saves
      <4>2. OwnGuest(s)'  BY <1>4 DEF OwnGuest, Fresh
      <4> QED  BY <3>1, <4>1, <4>2
    <3>2. CASE t # s
      BY <1>1, <1>5, <3>2 DEF GuestInv, RequestsHold, SavesWord, Saves, OwnGuest, Fresh, Identified
    <3> QED  BY <3>1, <3>2
  <2>4. ASSUME NEW t \in Handlers PROVE SaysSaved(t)'
    <3>1. CASE t = s  BY <1>4, <2>1, <3>1 DEF SaysSaved
    <3>2. CASE t # s  BY <1>5, <2>2, <3>2 DEF GuestInv, RequestsHold, SaysSaved, Saves
    <3> QED  BY <3>1, <3>2
  <2> QED  BY <2>3, <2>4 DEF RequestsHold
<1>10. EntryIsSelected'  BY <1>1 DEF GuestInv, EntryIsSelected
<1>11. SavedIsKept'  BY DEF GuestInv, SavedIsKept, Saved
<1>12. MeaningBelongsToWord'  BY <1>1 DEF GuestInv, MeaningBelongsToWord
<1> QED  BY <1>6, <1>7, <1>8, <1>9, <1>10, <1>11, <1>12

(* The cookie of the request is alive, so it is the browser's or the       *)
(* browser strays.                                                         *)
LEMMA IdentifyKeeps == ASSUME GuestInv, NEW s \in Handlers, IdentifyGuest(s) PROVE GuestInv'
<1>1. PICK u \in FindGuest(handler[s].cookie), pc \in FirstStep(handler[s].op) :
        handler' = [handler EXCEPT ![s].pc = pc, ![s].guest = u]
  BY DEF IdentifyGuest
<1>2. u = handler[s].cookie /\ u \in Tokens /\ session[u] = "live"  BY DEF FindGuest
<1>3. /\ At(s, "guest") /\ Handling
      /\ UNCHANGED <<session, vocabulary, progress, strayed, told, removed, jar>>
  BY DEF IdentifyGuest, Handling
<1>4. handler \in [Handlers -> Request] /\ handler[s] \in Request  BY DEF GuestInv, GuestTypeOK
<1>5. ~Fresh(s) /\ ~handler[s].fresh  BY <1>3 DEF GuestInv, CookiesHold, FreshIsAlone, Identified, At, Fresh
<1>6. pc \in HandlerPc \ {"idle", "guest", "answer"}  BY <1>4, FirstSteps DEF Request
<1>7. GuestGiven(s, u, pc, FALSE)
  <2>1. handler' = [handler EXCEPT ![s] = [handler[s] EXCEPT !.pc = pc, !.guest = u]]  BY <1>1, <1>4
  <2>2. [handler[s] EXCEPT !.pc = pc, !.guest = u] \in Request  BY <1>2, <1>4, <1>6 DEF Request, Token
  <2>3. [handler[s] EXCEPT !.pc = pc, !.guest = u] = [handler[s] EXCEPT !.pc = pc, !.guest = u, !.fresh = FALSE]
    BY <1>4, <1>5 DEF Request
  <2> QED  BY <1>4, <2>1, <2>2, <2>3 DEF GuestGiven
<1>8. /\ GuestTypeOK' /\ ImportsCounted' /\ SessionsExist' /\ RequestsHold' /\ EntryIsSelected'
      /\ SavedIsKept' /\ MeaningBelongsToWord'
  <2>1. session' \in [Tokens -> {"none", "live", "expired"}] /\ session'[u] # "none"
    BY <1>2, <1>3 DEF GuestInv, GuestTypeOK
  <2> QED  BY <1>1, <1>2, <1>3, <1>7, <2>1, GivenHolds
<1>9. /\ handler'[s].pc = pc /\ handler'[s].guest = u /\ handler'[s].browser = handler[s].browser
      /\ handler'[s].fresh = FALSE
      /\ \A t \in Handlers \ {s} : handler'[t] = handler[t]
  BY <1>4, <1>7 DEF GuestGiven, Request
<1>10. \A t \in Handlers : (Fresh(t)' <=> Fresh(t)) /\ (Strays(t)' <=> Strays(t)) /\ JarOf(t)' = JarOf(t)
  BY <1>3, <1>5, <1>9 DEF Fresh, Strays, JarOf
<1>11. CookiesHold'
  <2>1. ASSUME NEW t \in Handlers PROVE CookieIsCurrent(t)' /\ GuestIsCurrent(t)'
    <3>1. CASE t = s
      <4>1. JarOf(s) = u \/ Strays(s)
        BY <1>2, <1>3 DEF GuestInv, CookiesHold, CookieIsCurrent, Dead, At
      <4> QED  BY <1>6, <1>9, <1>10, <3>1, <4>1 DEF CookieIsCurrent, GuestIsCurrent
    <3>2. CASE t # s
      BY <1>3, <1>9, <1>10, <3>2 DEF GuestInv, CookiesHold, CookieIsCurrent, GuestIsCurrent, Dead, Identified
    <3> QED  BY <3>1, <3>2
  <2>2. ASSUME NEW t \in Handlers PROVE FreshIsAlone(t)'
    <3>1. CASE t = s  BY <1>5, <1>10, <3>1 DEF FreshIsAlone
    <3>2. CASE t # s
      <4>1. handler'[t] = handler[t] /\ FreshIsAlone(t)  BY <1>9, <3>2 DEF GuestInv, CookiesHold
      <4>2. \A r \in Handlers : handler'[r].browser = handler[r].browser  BY <1>9
      <4> QED  BY <1>3, <1>10, <4>1, <4>2 DEF FreshIsAlone, Dead, Identified
    <3> QED  BY <3>1, <3>2
  <2> QED  BY <2>1, <2>2 DEF CookiesHold
<1>12. SavedWordsStayReachable'
  <2>1. \A r : AnswerPending(r) => AnswerPending(r)'  BY <1>5, <1>9 DEF AnswerPending, Fresh
  <2> QED  BY <1>3, <2>1 DEF GuestInv, SavedWordsStayReachable
<1> QED  BY <1>8, <1>11, <1>12 DEF GuestInv

(* A new guest: either the browser strays, or its cookie is of no use and  *)
(* nobody else makes it a guest.                                           *)
LEMMA CreateKeeps == ASSUME GuestInv, NEW s \in Handlers, CreateGuest(s) PROVE GuestInv'
<1> DEFINE b == handler[s].browser
<1>1. PICK u \in Tokens, pc \in FirstStep(handler[s].op) :
        /\ session[u] = "none" /\ session' = [session EXCEPT ![u] = "live"]
        /\ handler' = [handler EXCEPT ![s].pc = pc, ![s].guest = u, ![s].fresh = TRUE]
  BY DEF CreateGuest
<1>2. /\ At(s, "guest") /\ Handling /\ FindGuest(handler[s].cookie) = {}
      /\ UNCHANGED <<vocabulary, progress, told, removed, jar>>
      /\ strayed' = (IF Twice(s) THEN strayed \cup {b} ELSE strayed)
  BY DEF CreateGuest, Handling
<1>3. /\ handler \in [Handlers -> Request] /\ handler[s] \in Request /\ b \in Browsers
      /\ session \in [Tokens -> {"none", "live", "expired"}]
  BY DEF GuestInv, GuestTypeOK, Request
<1>4. pc \in HandlerPc \ {"idle", "guest", "answer"}  BY <1>3, FirstSteps DEF Request
<1>5. GuestGiven(s, u, pc, TRUE)
  <2>1. handler' = [handler EXCEPT ![s] = [handler[s] EXCEPT !.pc = pc, !.guest = u, !.fresh = TRUE]]  BY <1>1, <1>3
  <2>2. [handler[s] EXCEPT !.pc = pc, !.guest = u, !.fresh = TRUE] \in Request  BY <1>3, <1>4 DEF Request, Token
  <2> QED  BY <1>3, <2>1, <2>2 DEF GuestGiven
<1>6. /\ session' \in [Tokens -> {"none", "live", "expired"}] /\ session'[u] # "none"
      /\ \A t \in Tokens : Exists(t) => session'[t] = session[t]
  BY <1>1, <1>3 DEF Exists
<1>7. /\ GuestTypeOK' /\ ImportsCounted' /\ SessionsExist' /\ RequestsHold' /\ EntryIsSelected'
      /\ SavedIsKept' /\ MeaningBelongsToWord'
  BY <1>1, <1>2, <1>5, <1>6, GivenHolds
<1>8. /\ handler'[s].pc = pc /\ handler'[s].guest = u /\ handler'[s].browser = b
      /\ handler'[s].fresh = TRUE
      /\ \A t \in Handlers \ {s} : handler'[t] = handler[t]
  BY <1>3, <1>5 DEF GuestGiven, Request
<1>9. /\ Fresh(s)' /\ Identified(s)' /\ \A t \in Handlers \ {s} : Fresh(t)' <=> Fresh(t)
      /\ \A t \in Handlers : JarOf(t)' = JarOf(t) /\ (Strays(t) => Strays(t)')
      /\ \A t \in Handlers : handler'[t].browser = handler[t].browser
  BY <1>2, <1>4, <1>8 DEF Fresh, Identified, JarOf, Strays
<1>10. \A t \in Token : Dead(t) /\ (t \in Tokens => Exists(t)) => Dead(t)'  BY <1>6 DEF Dead
<1>11. \A t \in Handlers : /\ handler[t].cookie \in Token /\ (handler[t].cookie \in Tokens => Exists(handler[t].cookie))
                           /\ JarOf(t) \in Token /\ (JarOf(t) \in Tokens => Exists(JarOf(t)))
                           /\ Identified(t) => handler[t].guest \in Token /\ Exists(handler[t].guest)
  BY DEF GuestInv, GuestTypeOK, SessionsExist, Request, JarOf, Token
<1>12. CASE Twice(s)
  <2>1. b \in strayed'  BY <1>2, <1>12
  <2>2. \A t \in Handlers : handler[t].browser = b => Strays(t)'  BY <1>9, <2>1 DEF Strays
  <2>3. ASSUME NEW t \in Handlers PROVE CookieIsCurrent(t)' /\ GuestIsCurrent(t)' /\ FreshIsAlone(t)'
    <3>1. CASE handler[t].browser = b
      <4>1. Strays(t)'  BY <2>2, <3>1
      <4>2. Fresh(t)' => Identified(t)'
        <5>1. CASE t = s  BY <1>9, <5>1
        <5>2. CASE t # s  BY <1>8, <1>9, <5>2 DEF GuestInv, CookiesHold, FreshIsAlone, Identified
        <5> QED  BY <5>1, <5>2
      <4> QED  BY <4>1, <4>2 DEF CookieIsCurrent, GuestIsCurrent, FreshIsAlone
    <3>2. CASE handler[t].browser # b
      <4>1. t # s /\ handler'[t] = handler[t] /\ CookieIsCurrent(t) /\ GuestIsCurrent(t) /\ FreshIsAlone(t)
        BY <1>8, <3>2 DEF GuestInv, CookiesHold
      <4>2. CookieIsCurrent(t)'  BY <1>9, <1>10, <1>11, <4>1 DEF CookieIsCurrent
      <4>3. GuestIsCurrent(t)'  BY <1>9, <1>10, <1>11, <4>1 DEF GuestIsCurrent, Identified
      <4>4. FreshIsAlone(t)'
        <5>1. CASE ~Fresh(t)  BY <1>9, <4>1, <5>1 DEF FreshIsAlone
        <5>2. CASE Fresh(t) /\ Strays(t)  BY <1>9, <4>1, <5>2 DEF FreshIsAlone, Identified
        <5>3. CASE Fresh(t) /\ ~Strays(t)
          <6>1. /\ Identified(t) /\ Dead(JarOf(t))
                /\ \A r \in Handlers \ {t} : Fresh(r) => handler[r].browser # handler[t].browser
            BY <4>1, <5>3 DEF FreshIsAlone
          <6>2. Dead(JarOf(t))'  BY <1>9, <1>10, <1>11, <6>1 DEF Dead
          <6>3. \A r \in Handlers \ {t} : Fresh(r)' => handler'[r].browser # handler'[t].browser
            BY <1>9, <3>2, <6>1
          <6> QED  BY <4>1, <6>1, <6>2, <6>3 DEF FreshIsAlone, Identified
        <5> QED  BY <5>1, <5>2, <5>3
      <4> QED  BY <4>2, <4>3, <4>4
    <3> QED  BY <3>1, <3>2
  <2>4. CookiesHold'  BY <2>3 DEF CookiesHold
  <2>5. SavedWordsStayReachable'
    <3>1. \A r \in vocabulary : r.by # b /\ AnswerPending(r) => AnswerPending(r)'
      BY <1>8 DEF AnswerPending
    <3>2. \A r \in vocabulary : session[r.guest] = "expired" => session'[r.guest] = "expired"
      BY <1>6, RowsTyped DEF Row, Exists
    <3> QED  BY <1>2, <2>1, <3>1, <3>2 DEF GuestInv, SavedWordsStayReachable
  <2> QED  BY <1>7, <2>4, <2>5 DEF GuestInv
<1>13. CASE ~Twice(s)
  <2>1. jar[b] = handler[s].cookie /\ \A t \in Handlers \ {s} : Fresh(t) => handler[t].browser # b
    BY <1>13 DEF Twice, Fresh
  <2>2. Dead(jar[b])  
    <3>1. jar[b] \in Tokens => session[jar[b]] # "live"  BY <1>2, <2>1 DEF FindGuest
    <3>2. jar[b] \in Tokens => session[jar[b]] # "none"  BY <1>3 DEF GuestInv, SessionsExist, Exists
    <3> QED  BY <1>3, <3>1, <3>2 DEF Dead
  <2>3. UNCHANGED strayed  BY <1>2, <1>13
  <2>4. ASSUME NEW t \in Handlers PROVE CookieIsCurrent(t)' /\ GuestIsCurrent(t)' /\ FreshIsAlone(t)'
    <3>1. CASE t = s
      <4>1. Dead(JarOf(s))'  BY <1>9, <1>10, <1>11, <2>2 DEF JarOf, Dead
      <4>2. \A r \in Handlers \ {s} : Fresh(r)' => handler'[r].browser # handler'[s].browser
        BY <1>9, <2>1
      <4>3. FreshIsAlone(s)'  BY <1>9, <4>1, <4>2 DEF FreshIsAlone
      <4> QED  BY <1>4, <1>8, <1>9, <3>1, <4>3 DEF CookieIsCurrent, GuestIsCurrent
    <3>2. CASE t # s
      <4>1. handler'[t] = handler[t] /\ CookieIsCurrent(t) /\ GuestIsCurrent(t) /\ FreshIsAlone(t)
        BY <1>8, <3>2 DEF GuestInv, CookiesHold
      <4>2. CookieIsCurrent(t)'  BY <1>9, <1>10, <1>11, <4>1 DEF CookieIsCurrent
      <4>3. GuestIsCurrent(t)'  BY <1>9, <1>10, <1>11, <3>2, <4>1 DEF GuestIsCurrent, Identified
      <4>4. FreshIsAlone(t)'
        <5>1. CASE ~Fresh(t)  BY <1>9, <3>2, <5>1 DEF FreshIsAlone
        <5>2. CASE Fresh(t) /\ Strays(t)  BY <1>9, <4>1, <5>2 DEF FreshIsAlone, Identified
        <5>3. CASE Fresh(t) /\ ~Strays(t)
          <6>1. /\ Identified(t) /\ Dead(JarOf(t))
                /\ \A r \in Handlers \ {t} : Fresh(r) => handler[r].browser # handler[t].browser
            BY <4>1, <5>3 DEF FreshIsAlone
          <6>2. Dead(JarOf(t))'  BY <1>9, <1>10, <1>11, <6>1 DEF Dead
          <6>3. \A r \in Handlers \ {t} : Fresh(r)' => handler'[r].browser # handler'[t].browser
            BY <1>9, <2>1, <3>2, <5>3, <6>1
          <6> QED  BY <4>1, <6>1, <6>2, <6>3 DEF FreshIsAlone, Identified
        <5> QED  BY <5>1, <5>2, <5>3
      <4> QED  BY <4>2, <4>3, <4>4
    <3> QED  BY <3>1, <3>2
  <2>5. CookiesHold'  BY <2>4 DEF CookiesHold
  <2>6. SavedWordsStayReachable'
    <3>1. \A r \in vocabulary : AnswerPending(r) => AnswerPending(r)'
      <4>1. ~Fresh(s)  BY <1>2 DEF GuestInv, CookiesHold, FreshIsAlone, Identified, At
      <4> QED  BY <1>8, <4>1 DEF AnswerPending, Fresh
    <3>2. \A r \in vocabulary : session[r.guest] = "expired" => session'[r.guest] = "expired"
      BY <1>6, RowsTyped DEF Row, Exists
    <3> QED  BY <1>2, <2>3, <3>1, <3>2 DEF GuestInv, SavedWordsStayReachable
  <2> QED  BY <1>7, <2>5, <2>6 DEF GuestInv
<1> QED  BY <1>12, <1>13

-----------------------------------------------------------------------------
(* A request leaves *)

LEMMA SendKeeps ==
  ASSUME GuestInv, NEW b \in Browsers, NEW s \in Handlers, NEW request \in Request, Send(b, s, request),
         ~request.saved, ~request.fresh,
         request.op = "save" =>
           request.word \in Words /\ request.meaning \in Words /\ (request.meaning = request.word \/ b \in overlap)
  PROVE  GuestInv'
<1>1. /\ handler[s].pc = "idle"
      /\ handler' = [handler EXCEPT ![s] = [request EXCEPT !.pc = "guest", !.browser = b, !.cookie = jar[b]]]
      /\ UNCHANGED <<session, vocabulary, progress, import, jar, selected, entry, lookups, clicks, overlap,
                     faults, imports, strayed, told, removed>>
  BY DEF Send, rows, dictionary
<1>2. handler \in [Handlers -> Request] /\ jar[b] \in Token  BY DEF GuestInv, GuestTypeOK
<1>3. [request EXCEPT !.pc = "guest", !.browser = b, !.cookie = jar[b]] \in Request
  BY <1>2 DEF Request, HandlerPc
<1>4. handler' \in [Handlers -> Request] /\ \A t \in Handlers \ {s} : handler'[t] = handler[t]
  BY <1>1, <1>2, <1>3
<1>5. /\ handler'[s].pc = "guest" /\ handler'[s].browser = b /\ handler'[s].cookie = jar[b]
      /\ handler'[s].op = request.op /\ handler'[s].word = request.word
      /\ handler'[s].meaning = request.meaning /\ ~handler'[s].saved /\ ~handler'[s].fresh
  BY <1>1, <1>2 DEF Request
<1>6. ~Fresh(s)  BY <1>1 DEF GuestInv, CookiesHold, FreshIsAlone, Identified
<1>7. GuestTypeOK'  BY <1>1, <1>4 DEF GuestInv, GuestTypeOK
<1>8. ImportsCounted'  BY <1>1 DEF GuestInv, ImportsCounted
<1>9. SessionsExist'
  <2>1. \A c \in Browsers : jar'[c] \in Tokens => session'[jar'[c]] # "none"
    BY <1>1 DEF GuestInv, SessionsExist, Exists
  <2>2. \A r \in vocabulary' : session'[r.guest] # "none"  BY <1>1 DEF GuestInv, SessionsExist, Exists
  <2>3. ASSUME NEW t \in Handlers
        PROVE  /\ handler'[t].cookie \in Tokens => session'[handler'[t].cookie] # "none"
               /\ Identified(t)' => handler'[t].guest \in Tokens /\ session'[handler'[t].guest] # "none"
    <3>1. CASE t = s  BY <1>1, <1>5, <3>1 DEF GuestInv, SessionsExist, Exists, Identified
    <3>2. CASE t # s  BY <1>1, <1>4, <3>2 DEF GuestInv, SessionsExist, Exists, Identified
    <3> QED  BY <3>1, <3>2
  <2> QED  BY <2>1, <2>2, <2>3 DEF SessionsExist, Exists, Identified
<1>10. RequestsHold'
  <2>1. Saved(vocabulary)' = Saved(vocabulary)  BY <1>1 DEF Saved
  <2>2. ASSUME NEW t \in Handlers PROVE SavesWord(t)' /\ SaysSaved(t)' /\ OwnGuest(t)'
    <3>1. CASE t = s  BY <1>1, <1>5, <3>1 DEF SavesWord, SaysSaved, OwnGuest, Saves, Identified
    <3>2. CASE t # s
      BY <1>1, <1>4, <2>1, <3>2 DEF GuestInv, RequestsHold, SavesWord, SaysSaved, OwnGuest, Saves, Identified, Fresh
    <3> QED  BY <3>1, <3>2
  <2> QED  BY <2>2 DEF RequestsHold
<1>11. EntryIsSelected'  BY <1>1 DEF GuestInv, EntryIsSelected
<1>12. CookiesHold'
  <2>1. ASSUME NEW t \in Handlers PROVE CookieIsCurrent(t)' /\ GuestIsCurrent(t)' /\ FreshIsAlone(t)'
    <3>1. CASE t = s
      BY <1>1, <1>5, <3>1 DEF CookieIsCurrent, GuestIsCurrent, FreshIsAlone, Identified, Fresh, JarOf
    <3>2. CASE t # s
      <4>1. handler'[t] = handler[t] /\ CookieIsCurrent(t) /\ GuestIsCurrent(t) /\ FreshIsAlone(t)
        BY <1>4, <3>2 DEF GuestInv, CookiesHold
      <4>2. CookieIsCurrent(t)' /\ GuestIsCurrent(t)'
        BY <1>1, <4>1 DEF CookieIsCurrent, GuestIsCurrent, Identified, Fresh, JarOf, Strays, Dead
      <4>3. \A r \in Handlers : Fresh(r)' => Fresh(r) /\ handler'[r] = handler[r]
        BY <1>4, <1>5 DEF Fresh
      <4>4. FreshIsAlone(t)'
        <5>1. (Identified(t)' <=> Identified(t)) /\ (Strays(t)' <=> Strays(t)) /\ (Dead(JarOf(t))' <=> Dead(JarOf(t)))
          <6>1. JarOf(t)' = JarOf(t) /\ (Strays(t)' <=> Strays(t)) /\ (Identified(t)' <=> Identified(t))
            <7>1. handler'[t] = handler[t] /\ jar' = jar /\ strayed' = strayed  BY <1>1, <4>1
            <7>2. JarOf(t)' = JarOf(t)  BY <7>1 DEF JarOf
            <7>3. Strays(t)' <=> Strays(t)  BY <7>1 DEF Strays
            <7>4. Identified(t)' <=> Identified(t)  BY <7>1 DEF Identified
            <7> QED  BY <7>2, <7>3, <7>4
          <6> QED  BY <1>1, <6>1 DEF Dead
        <5>2. \A r \in Handlers : Fresh(r)' => Fresh(r) /\ handler'[r].browser = handler[r].browser
          BY <4>3
        <5> QED  BY <4>1, <5>1, <5>2 DEF FreshIsAlone
      <4> QED  BY <4>2, <4>4
    <3> QED  BY <3>1, <3>2
  <2> QED  BY <2>1 DEF CookiesHold
<1>13. SavedIsKept'  BY <1>1 DEF GuestInv, SavedIsKept, Saved
<1>14. SavedWordsStayReachable'
  <2>1. \A r : AnswerPending(r) => AnswerPending(r)'  BY <1>4, <1>6 DEF AnswerPending, Fresh
  <2> QED  BY <1>1, <2>1 DEF GuestInv, SavedWordsStayReachable
<1>15. MeaningBelongsToWord'  BY <1>1 DEF GuestInv, MeaningBelongsToWord
<1> QED  BY <1>7, <1>8, <1>9, <1>10, <1>11, <1>12, <1>13, <1>14, <1>15 DEF GuestInv

LEMMA AskSaveTyped ==
  ASSUME GuestInv, NEW b \in Browsers, NEW s \in Handlers, AskSave(b, s)
  PROVE  LET request == [NoRequest EXCEPT !.op = "save", !.word = selected[b], !.meaning = MeaningOf(b), !.import = import]
         IN  /\ request \in Request /\ ~request.saved /\ ~request.fresh /\ ~request.raised
             /\ request.word = selected[b] /\ request.meaning = MeaningOf(b)
             /\ selected[b] \in Words /\ MeaningOf(b) \in Words /\ (MeaningOf(b) = selected[b] \/ b \in overlap)
<1> DEFINE request == [NoRequest EXCEPT !.op = "save", !.word = selected[b], !.meaning = MeaningOf(b), !.import = import]
<1>1. selected[b] \in Words /\ entry[b] \in Word  BY DEF AskSave, GuestInv, GuestTypeOK, Word
<1>2. MeaningOf(b) \in Words /\ (MeaningOf(b) = selected[b] \/ b \in overlap)
  BY <1>1 DEF MeaningOf, Word, GuestInv, EntryIsSelected
<1>3. import \in 0 .. MaxFaults + 1  BY DEF GuestInv, ImportsCounted
<1>4. request \in Request  BY <1>1, <1>2, <1>3, NoRequestTyped DEF Request, Ops, Word
<1>5. ~request.saved /\ ~request.fresh /\ ~request.raised /\ request.word = selected[b] /\ request.meaning = MeaningOf(b)
  BY <1>4 DEF NoRequest
<1> HIDE DEF request
<1> QED  BY <1>1, <1>2, <1>4, <1>5 DEF request

LEMMA AskSaveKeeps ==
  ASSUME GuestInv, NEW b \in Browsers, NEW s \in Handlers, AskSave(b, s) PROVE GuestInv'
<1> DEFINE request == [NoRequest EXCEPT !.op = "save", !.word = selected[b], !.meaning = MeaningOf(b), !.import = import]
<1>1. selected[b] # NoWord /\ Send(b, s, request)  BY DEF AskSave
<1>2. /\ request \in Request /\ ~request.saved /\ ~request.fresh
      /\ request.word = selected[b] /\ request.meaning = MeaningOf(b)
      /\ selected[b] \in Words /\ MeaningOf(b) \in Words /\ (MeaningOf(b) = selected[b] \/ b \in overlap)
  BY AskSaveTyped
<1> HIDE DEF request
<1> QED  BY <1>1, <1>2, SendKeeps

LEMMA AskRemoveKeeps ==
  ASSUME GuestInv, NEW b \in Browsers, NEW s \in Handlers, AskRemove(b, s) PROVE GuestInv'
<1>1. PICK r \in vocabulary : Send(b, s, [NoRequest EXCEPT !.op = "remove", !.word = r.word, !.owner = r.guest])
  BY DEF AskRemove
<1> DEFINE request == [NoRequest EXCEPT !.op = "remove", !.word = r.word, !.owner = r.guest]
<1>2. r.word \in Word /\ r.guest \in Token  BY RowsTyped DEF Row, Word, Token
<1>3. request \in Request /\ ~request.saved /\ ~request.fresh /\ request.op = "remove"
  <2>1. request \in Request  BY <1>2, NoRequestTyped DEF Request, Ops
  <2> QED  BY <2>1 DEF NoRequest
<1>4. Send(b, s, request)  BY <1>1
<1> HIDE DEF request
<1> QED  BY <1>3, <1>4, SendKeeps

LEMMA AskPositionKeeps ==
  ASSUME GuestInv, NEW b \in Browsers, NEW s \in Handlers, AskPosition(b, s) PROVE GuestInv'
<1> DEFINE request == [NoRequest EXCEPT !.op = "position"]
<1>1. Send(b, s, request)  BY DEF AskPosition
<1>2. request \in Request /\ ~request.saved /\ ~request.fresh /\ request.op = "position"
  <2>1. request \in Request  BY NoRequestTyped DEF Request, Ops
  <2> QED  BY <2>1 DEF NoRequest
<1> HIDE DEF request
<1> QED  BY <1>1, <1>2, SendKeeps

-----------------------------------------------------------------------------
(* An answer *)

(* All of the invariant an answer cannot disturb but by the words it tells *)
(* of and the guest it makes of the browser.                               *)
LEMMA FinishHolds ==
  ASSUME GuestInv, NEW s \in Handlers, At(s, "answer"), Finish(s), jar' \in [Browsers -> Token],
         \A b \in Browsers : jar'[b] = jar[b] \/ jar'[b] = handler[s].guest,
         told' = told \/ (handler[s].saved /\ told' = told \cup {<<handler[s].guest, handler[s].word>>}),
         faults' \in 0 .. MaxFaults, faults <= faults'
  PROVE  /\ GuestTypeOK' /\ ImportsCounted' /\ SessionsExist' /\ RequestsHold' /\ EntryIsSelected'
         /\ SavedIsKept' /\ MeaningBelongsToWord'
         /\ handler'[s].pc = "idle" /\ ~handler'[s].fresh /\ \A t \in Handlers \ {s} : handler'[t] = handler[t]
<1>1. /\ handler' = [handler EXCEPT ![s] = NoRequest]
      /\ UNCHANGED <<session, vocabulary, progress, import, selected, entry, lookups, clicks, overlap,
                     imports, removed>>
  BY DEF Finish, rows, dictionary
<1>2. handler \in [Handlers -> Request]  BY DEF GuestInv, GuestTypeOK
<1>3. handler' \in [Handlers -> Request] /\ \A t \in Handlers \ {s} : handler'[t] = handler[t]
  BY <1>1, <1>2, NoRequestTyped
<1>4. handler'[s].pc = "idle" /\ ~handler'[s].fresh /\ ~handler'[s].saved /\ handler'[s].cookie = NoToken
  BY <1>1, <1>2 DEF NoRequest
<1>5. handler[s].saved => <<handler[s].guest, handler[s].word>> \in Saved(vocabulary) \cup removed
  BY DEF GuestInv, RequestsHold, SaysSaved
<1>6. Saved(vocabulary)' = Saved(vocabulary)  BY <1>1 DEF Saved
<1>7. SavedIsKept'  BY <1>1, <1>5, <1>6 DEF GuestInv, SavedIsKept
<1>8. GuestTypeOK'
  <2>1. (told \cup removed)' \subseteq Tokens \X Words  BY <1>1, <1>6, <1>7, RowsTyped DEF SavedIsKept
  <2> QED  BY <1>1, <1>3, <2>1 DEF GuestInv, GuestTypeOK
<1>9. ImportsCounted'
  <2>1. ImportsCounted /\ imports' = imports /\ import' = import  BY <1>1 DEF GuestInv
  <2>2. faults \in Nat /\ faults' \in Nat /\ imports \in Nat  BY <2>1 DEF ImportsCounted
  <2>3. import \in 0 .. imports /\ imports <= faults + 1 /\ (import = 0 => imports <= faults)
    BY <2>1 DEF ImportsCounted
  <2>4. imports <= faults' + 1 /\ (import = 0 => imports <= faults')  BY <2>2, <2>3
  <2> QED  BY <2>1, <2>2, <2>3, <2>4 DEF ImportsCounted
<1>10. SessionsExist'
  <2>1. Identified(s)  BY DEF At, Identified
  <2>2. \A b \in Browsers : jar'[b] \in Tokens => session'[jar'[b]] # "none"
    BY <1>1, <2>1 DEF GuestInv, SessionsExist, Exists
  <2>3. \A r \in vocabulary' : session'[r.guest] # "none"  BY <1>1 DEF GuestInv, SessionsExist, Exists
  <2>4. ASSUME NEW t \in Handlers
        PROVE  /\ handler'[t].cookie \in Tokens => session'[handler'[t].cookie] # "none"
               /\ Identified(t)' => handler'[t].guest \in Tokens /\ session'[handler'[t].guest] # "none"
    <3>1. CASE t = s  BY <1>4, <3>1 DEF Identified
    <3>2. CASE t # s  BY <1>1, <1>3, <3>2 DEF GuestInv, SessionsExist, Exists, Identified
    <3> QED  BY <3>1, <3>2
  <2> QED  BY <2>2, <2>3, <2>4 DEF SessionsExist, Exists, Identified
<1>11. RequestsHold'
  <2>1. ASSUME NEW t \in Handlers PROVE SavesWord(t)' /\ SaysSaved(t)' /\ OwnGuest(t)'
    <3>1. CASE t = s  BY <1>4, <3>1 DEF SavesWord, SaysSaved, OwnGuest, Identified
    <3>2. CASE t # s
      BY <1>1, <1>3, <1>6, <3>2 DEF GuestInv, RequestsHold, SavesWord, SaysSaved, OwnGuest, Saves, Identified, Fresh
    <3> QED  BY <3>1, <3>2
  <2> QED  BY <2>1 DEF RequestsHold
<1>12. EntryIsSelected'  BY <1>1 DEF GuestInv, EntryIsSelected
<1>13. MeaningBelongsToWord'  BY <1>1 DEF GuestInv, MeaningBelongsToWord
<1> QED  BY <1>3, <1>4, <1>7, <1>8, <1>9, <1>10, <1>11, <1>12, <1>13

(* The guest the answer makes of the browser is the one its new words are  *)
(* saved for, and the cookie it replaces was of no use to anybody.         *)
LEMMA AnswerKeeps == ASSUME GuestInv, NEW s \in Handlers, Answer(s) PROVE GuestInv'
<1> DEFINE b == handler[s].browser
           g == handler[s].guest
<1>1. /\ At(s, "answer") /\ Finish(s) /\ UNCHANGED <<strayed, faults>>
      /\ jar' = (IF Fresh(s) /\ ~handler[s].raised THEN [jar EXCEPT ![b] = g] ELSE jar)
      /\ told' = (IF handler[s].saved THEN told \cup {<<g, handler[s].word>>} ELSE told)
  BY DEF Answer, SetsCookie, Fresh
<1>2. UNCHANGED <<session, vocabulary>>  BY <1>1 DEF Finish, rows
<1>3. b \in Browsers /\ g \in Token /\ jar \in [Browsers -> Token]  BY DEF GuestInv, GuestTypeOK, Request
<1>4. jar' \in [Browsers -> Token] /\ \A c \in Browsers : jar'[c] = jar[c] \/ jar'[c] = g
  BY <1>1, <1>3
<1>5. /\ GuestTypeOK' /\ ImportsCounted' /\ SessionsExist' /\ RequestsHold' /\ EntryIsSelected'
      /\ SavedIsKept' /\ MeaningBelongsToWord'
      /\ handler'[s].pc = "idle" /\ ~handler'[s].fresh /\ \A t \in Handlers \ {s} : handler'[t] = handler[t]
  <2>1. faults' \in 0 .. MaxFaults /\ faults <= faults'  BY <1>1 DEF GuestInv, ImportsCounted
  <2> QED  BY <1>1, <1>4, <2>1, FinishHolds
<1>6. \A c \in Browsers : \/ jar'[c] = jar[c]
                          \/ c = b /\ Fresh(s) /\ jar'[c] = g /\ (Dead(jar[c]) \/ c \in strayed)
  <2>1. CASE ~(Fresh(s) /\ ~handler[s].raised)  BY <1>1, <2>1
  <2>2. CASE Fresh(s) /\ ~handler[s].raised
    <3>1. Dead(jar[b]) \/ b \in strayed  BY <2>2 DEF GuestInv, CookiesHold, FreshIsAlone, JarOf, Strays
    <3> QED  BY <1>1, <1>3, <2>2, <3>1
  <2> QED  BY <2>1, <2>2
<1>7. CookiesHold'
  <2>1. ASSUME NEW t \in Handlers PROVE CookieIsCurrent(t)' /\ GuestIsCurrent(t)' /\ FreshIsAlone(t)'
    <3>1. CASE t = s
      BY <1>5, <3>1 DEF CookieIsCurrent, GuestIsCurrent, FreshIsAlone, Identified, Fresh
    <3>2. CASE t # s
      <4>1. handler'[t] = handler[t] /\ CookieIsCurrent(t) /\ GuestIsCurrent(t) /\ FreshIsAlone(t)
        BY <1>5, <3>2 DEF GuestInv, CookiesHold
      <4>2. handler[t].browser \in Browsers  BY DEF GuestInv, GuestTypeOK, Request
      <4>3. (Identified(t)' <=> Identified(t)) /\ (Fresh(t)' <=> Fresh(t)) /\ (Strays(t)' <=> Strays(t))
        <5>1. handler'[t] = handler[t] /\ strayed' = strayed  BY <1>1, <4>1
        <5> QED  BY <5>1 DEF Identified, Fresh, Strays
      <4>4. JarOf(t)' = JarOf(t) \/ Strays(t) \/ (Dead(JarOf(t)) /\ Fresh(s) /\ handler[t].browser = b)
        BY <1>6, <4>1, <4>2 DEF JarOf, Strays
      <4>5. CookieIsCurrent(t)'  BY <1>2, <4>1, <4>3, <4>4 DEF CookieIsCurrent, Dead
      <4>6. GuestIsCurrent(t)'  BY <1>2, <4>1, <4>3, <4>4 DEF GuestIsCurrent, Dead
      <4>7. FreshIsAlone(t)'
        <5>1. CASE ~Fresh(t)  BY <4>3, <5>1 DEF FreshIsAlone
        <5>2. CASE Fresh(t) /\ Strays(t)  BY <4>1, <4>3, <5>2 DEF FreshIsAlone
        <5>3. CASE Fresh(t) /\ ~Strays(t)
          <6>1. /\ Identified(t) /\ Dead(JarOf(t))
                /\ \A r \in Handlers \ {t} : Fresh(r) => handler[r].browser # handler[t].browser
            BY <4>1, <5>3 DEF FreshIsAlone
          <6>2. JarOf(t)' = JarOf(t)  BY <3>2, <4>4, <5>3, <6>1
          <6>3. Dead(JarOf(t))'  BY <1>2, <6>1, <6>2 DEF Dead
          <6>4. \A r \in Handlers : Fresh(r)' => Fresh(r) /\ handler'[r] = handler[r]  BY <1>5 DEF Fresh
          <6>5. \A r \in Handlers \ {t} : Fresh(r)' => handler'[r].browser # handler'[t].browser
            BY <4>1, <6>1, <6>4
          <6> QED  BY <4>3, <6>1, <6>3, <6>5 DEF FreshIsAlone
        <5> QED  BY <5>1, <5>2, <5>3
      <4> QED  BY <4>5, <4>6, <4>7
    <3> QED  BY <3>1, <3>2
  <2> QED  BY <2>1 DEF CookiesHold
<1>8. SavedWordsStayReachable'
  <2>1. ASSUME NEW r \in vocabulary
        PROVE  jar'[r.by] = r.guest \/ session[r.guest] = "expired" \/ r.by \in strayed \/ AnswerPending(r)'
    <3>1. r.by \in Browsers /\ r.guest \in Tokens  BY RowsTyped DEF Row
    <3>2. jar[r.by] = r.guest \/ session[r.guest] = "expired" \/ r.by \in strayed \/ AnswerPending(r)
      BY DEF GuestInv, SavedWordsStayReachable
    <3>3. CASE jar[r.by] = r.guest  BY <1>6, <3>1, <3>3 DEF Dead
    <3>4. CASE AnswerPending(r)
      <4>1. PICK t \in Handlers : /\ handler[t].fresh /\ ~handler[t].raised
                                 /\ handler[t].guest = r.guest /\ handler[t].browser = r.by
        BY <3>4 DEF AnswerPending
      <4>2. CASE t = s  BY <1>1, <1>3, <4>1, <4>2 DEF Fresh
      <4>3. CASE t # s  BY <1>5, <4>1, <4>3 DEF AnswerPending
      <4> QED  BY <4>2, <4>3
    <3> QED  BY <3>2, <3>3, <3>4
  <2> QED  BY <1>1, <1>2, <2>1 DEF SavedWordsStayReachable
<1> QED  BY <1>5, <1>7, <1>8 DEF GuestInv

LEMMA AnswerLostKeeps == ASSUME GuestInv, NEW s \in Handlers, AnswerLost(s) PROVE GuestInv'
<1> DEFINE b == handler[s].browser
<1>1. /\ At(s, "answer") /\ Finish(s) /\ Fault /\ UNCHANGED <<jar, told>>
      /\ strayed' = (IF Fresh(s) /\ ~handler[s].raised THEN strayed \cup {b} ELSE strayed)
  BY DEF AnswerLost, SetsCookie, Fresh
<1>2. UNCHANGED <<session, vocabulary>>  BY <1>1 DEF Finish, rows
<1>3. /\ GuestTypeOK' /\ ImportsCounted' /\ SessionsExist' /\ RequestsHold' /\ EntryIsSelected'
      /\ SavedIsKept' /\ MeaningBelongsToWord'
      /\ handler'[s].pc = "idle" /\ ~handler'[s].fresh /\ \A t \in Handlers \ {s} : handler'[t] = handler[t]
  <2>1. faults' \in 0 .. MaxFaults /\ faults <= faults'  BY <1>1 DEF Fault, GuestInv, ImportsCounted
  <2>2. jar' \in [Browsers -> Token]  BY <1>1 DEF GuestInv, GuestTypeOK
  <2> QED  BY <1>1, <2>1, <2>2, FinishHolds
<1>4. \A r \in Handlers : Fresh(r)' => Fresh(r) /\ handler'[r] = handler[r]  BY <1>3 DEF Fresh
<1>5. CookiesHold'
  <2>1. ASSUME NEW t \in Handlers PROVE CookieIsCurrent(t)' /\ GuestIsCurrent(t)' /\ FreshIsAlone(t)'
    <3>1. CASE t = s
      BY <1>3, <3>1 DEF CookieIsCurrent, GuestIsCurrent, FreshIsAlone, Identified, Fresh
    <3>2. CASE t # s
      <4>1. handler'[t] = handler[t] /\ CookieIsCurrent(t) /\ GuestIsCurrent(t) /\ FreshIsAlone(t)
        BY <1>3, <3>2 DEF GuestInv, CookiesHold
      <4>2. (Identified(t)' <=> Identified(t)) /\ (Fresh(t)' <=> Fresh(t)) /\ (Strays(t) => Strays(t)') /\ JarOf(t)' = JarOf(t)
        <5>1. handler'[t] = handler[t] /\ strayed \subseteq strayed' /\ jar' = jar  BY <1>1, <4>1
        <5>2. (Identified(t)' <=> Identified(t)) /\ (Fresh(t)' <=> Fresh(t))  BY <5>1 DEF Identified, Fresh
        <5>3. Strays(t) => Strays(t)'  BY <5>1 DEF Strays
        <5>4. JarOf(t)' = JarOf(t)  BY <5>1 DEF JarOf
        <5> QED  BY <5>2, <5>3, <5>4
      <4>3. CookieIsCurrent(t)' /\ GuestIsCurrent(t)'
        BY <1>2, <4>1, <4>2 DEF CookieIsCurrent, GuestIsCurrent, Dead
      <4>4. FreshIsAlone(t)'
        <5>1. Dead(JarOf(t))' <=> Dead(JarOf(t))  BY <1>2, <4>2 DEF Dead
        <5>2. \A r \in Handlers : Fresh(r)' => Fresh(r) /\ handler'[r].browser = handler[r].browser  BY <1>4
        <5> QED  BY <4>1, <4>2, <5>1, <5>2 DEF FreshIsAlone
      <4> QED  BY <4>3, <4>4
    <3> QED  BY <3>1, <3>2
  <2> QED  BY <2>1 DEF CookiesHold
<1>6. SavedWordsStayReachable'
  <2>1. ASSUME NEW r \in vocabulary, AnswerPending(r) PROVE AnswerPending(r)' \/ r.by \in strayed'
    <3>1. PICK t \in Handlers : /\ handler[t].fresh /\ ~handler[t].raised
                               /\ handler[t].guest = r.guest /\ handler[t].browser = r.by
      BY <2>1 DEF AnswerPending
    <3>2. CASE t = s  BY <1>1, <3>1, <3>2 DEF Fresh
    <3>3. CASE t # s  BY <1>3, <3>1, <3>3 DEF AnswerPending
    <3> QED  BY <3>2, <3>3
  <2> QED  BY <1>1, <1>2, <2>1 DEF GuestInv, SavedWordsStayReachable
<1> QED  BY <1>3, <1>5, <1>6 DEF GuestInv

-----------------------------------------------------------------------------
(* Steps of nobody's request *)

(* Cookies and reachability go by requests, cookies and sessions alone. *)
LEMMA CookiesStay ==
  ASSUME GuestInv, UNCHANGED <<handler, jar, strayed>>,
         \A t \in Tokens : session[t] = "expired" => session'[t] = "expired", vocabulary' \subseteq vocabulary
  PROVE  CookiesHold' /\ SavedWordsStayReachable'
<1>1. \A t \in Handlers :
        /\ (Identified(t)' <=> Identified(t)) /\ (Fresh(t)' <=> Fresh(t))
        /\ (Strays(t)' <=> Strays(t)) /\ JarOf(t)' = JarOf(t)
  BY DEF Identified, Fresh, Strays, JarOf
<1>2. \A t \in Handlers : CookieIsCurrent(t)' /\ GuestIsCurrent(t)' /\ FreshIsAlone(t)'
  <2> TAKE t \in Handlers
  <2>1. CookieIsCurrent(t) /\ GuestIsCurrent(t) /\ FreshIsAlone(t)  BY DEF GuestInv, CookiesHold
  <2>2. handler'[t] = handler[t]  OBVIOUS
  <2>3. CookieIsCurrent(t)'  BY <1>1, <2>1, <2>2 DEF CookieIsCurrent, Dead
  <2>4. GuestIsCurrent(t)'  BY <1>1, <2>1, <2>2 DEF GuestIsCurrent, Dead
  <2>5. FreshIsAlone(t)'
    <3>1. CASE ~Fresh(t)  BY <1>1, <3>1 DEF FreshIsAlone
    <3>2. CASE Fresh(t) /\ Strays(t)  BY <1>1, <2>1, <3>2 DEF FreshIsAlone
    <3>3. CASE Fresh(t) /\ ~Strays(t)
      <4>1. /\ Identified(t) /\ Dead(JarOf(t))
            /\ \A r \in Handlers \ {t} : Fresh(r) => handler[r].browser # handler[t].browser
        BY <2>1, <3>3 DEF FreshIsAlone
      <4>2. Dead(JarOf(t))'  BY <1>1, <4>1 DEF Dead
      <4>3. \A r \in Handlers \ {t} : Fresh(r)' => handler'[r].browser # handler'[t].browser  BY <1>1, <4>1
      <4> QED  BY <1>1, <4>1, <4>2, <4>3 DEF FreshIsAlone
    <3> QED  BY <3>1, <3>2, <3>3
  <2> QED  BY <2>3, <2>4, <2>5
<1>3. \A r : AnswerPending(r) => AnswerPending(r)'  BY DEF AnswerPending
<1>4. \A r \in vocabulary : r.guest \in Tokens  BY RowsTyped DEF Row
<1>5. SavedWordsStayReachable'  BY <1>3, <1>4 DEF GuestInv, SavedWordsStayReachable
<1> QED  BY <1>2, <1>5 DEF CookiesHold

LEMMA ExpireKeeps == ASSUME GuestInv, NEW t \in Tokens, Expire(t) PROVE GuestInv'
<1>1. /\ session' = [session EXCEPT ![t] = "expired"] /\ Fault
      /\ UNCHANGED <<vocabulary, progress, import, handler, jar, selected, entry, lookups, clicks, overlap,
                     sent, imports, strayed, told, removed>>
  BY DEF Expire, dictionary
<1>2. session \in [Tokens -> {"none", "live", "expired"}]  BY DEF GuestInv, GuestTypeOK
<1>3. \A u \in Tokens : (session[u] = "expired" => session'[u] = "expired") /\ (Exists(u) => session'[u] # "none")
  BY <1>1, <1>2 DEF Exists
<1>4. GuestTypeOK'  BY <1>1, <1>2 DEF GuestInv, GuestTypeOK
<1>5. ImportsCounted'
  <2>1. faults \in Nat /\ faults' = faults + 1 /\ faults' <= MaxFaults  BY <1>1 DEF Fault, GuestInv, ImportsCounted
  <2> QED  BY <1>1, <2>1 DEF GuestInv, ImportsCounted
<1>6. SessionsExist'
  <2>1. \A b \in Browsers : jar'[b] \in Tokens => session'[jar'[b]] # "none"  BY <1>1, <1>3 DEF GuestInv, SessionsExist
  <2>2. \A r \in vocabulary' : session'[r.guest] # "none"
    <3>1. \A r \in vocabulary : r.guest \in Tokens  BY RowsTyped DEF Row
    <3> QED  BY <1>1, <1>3, <3>1 DEF GuestInv, SessionsExist
  <2>3. ASSUME NEW s \in Handlers
        PROVE  /\ handler'[s].cookie \in Tokens => session'[handler'[s].cookie] # "none"
               /\ Identified(s)' => handler'[s].guest \in Tokens /\ session'[handler'[s].guest] # "none"
    BY <1>1, <1>3 DEF GuestInv, SessionsExist, Identified
  <2> QED  BY <2>1, <2>2, <2>3 DEF SessionsExist, Exists, Identified
<1>7. RequestsHold'
  BY <1>1 DEF GuestInv, RequestsHold, SavesWord, SaysSaved, OwnGuest, Saves, Identified, Fresh, Saved
<1>8. EntryIsSelected'  BY <1>1 DEF GuestInv, EntryIsSelected
<1>9. CookiesHold' /\ SavedWordsStayReachable'  BY <1>1, <1>3, CookiesStay
<1>10. SavedIsKept' /\ MeaningBelongsToWord'
  BY <1>1 DEF GuestInv, SavedIsKept, Saved, MeaningBelongsToWord
<1> QED  BY <1>4, <1>5, <1>6, <1>7, <1>8, <1>9, <1>10 DEF GuestInv

(* The words go with the video, and are noted as gone. *)
LEMMA DeleteVideoKeeps == ASSUME GuestInv, DeleteVideo PROVE GuestInv'
<1>1. /\ import' = 0 /\ vocabulary' = {} /\ progress' = {} /\ removed' = removed \cup Saved(vocabulary) /\ Fault
      /\ UNCHANGED <<session, handler, jar, selected, entry, lookups, clicks, overlap, sent, imports, strayed, told>>
  BY DEF DeleteVideo, dictionary
<1>2. GuestTypeOK'
  <2>1. (told \cup removed)' \subseteq Tokens \X Words  BY <1>1, RowsTyped DEF GuestInv, GuestTypeOK
  <2> QED  BY <1>1, <2>1 DEF GuestInv, GuestTypeOK
<1>3. ImportsCounted'
  <2>1. faults \in Nat /\ faults' = faults + 1 /\ faults' <= MaxFaults  BY <1>1 DEF Fault, GuestInv, ImportsCounted
  <2> QED  BY <1>1, <2>1 DEF GuestInv, ImportsCounted
<1>4. SessionsExist'  BY <1>1 DEF GuestInv, SessionsExist, Exists, Identified
<1>5. RequestsHold'
  <2>1. ASSUME NEW s \in Handlers PROVE SavesWord(s)' /\ SaysSaved(s)' /\ OwnGuest(s)'
    <3>1. SavesWord(s) /\ SaysSaved(s) /\ OwnGuest(s)  BY DEF GuestInv, RequestsHold
    <3>2. SavesWord(s)' /\ OwnGuest(s)'  BY <1>1, <3>1 DEF SavesWord, OwnGuest, Saves, Identified, Fresh
    <3>3. SaysSaved(s)'  BY <1>1, <3>1 DEF SaysSaved, Saves
    <3> QED  BY <3>2, <3>3
  <2> QED  BY <2>1 DEF RequestsHold
<1>6. EntryIsSelected'  BY <1>1 DEF GuestInv, EntryIsSelected
<1>7. CookiesHold' /\ SavedWordsStayReachable'  BY <1>1, CookiesStay
<1>8. SavedIsKept' /\ MeaningBelongsToWord'
  BY <1>1 DEF GuestInv, SavedIsKept, MeaningBelongsToWord
<1> QED  BY <1>2, <1>3, <1>4, <1>5, <1>6, <1>7, <1>8 DEF GuestInv

LEMMA ImportVideoKeeps == ASSUME GuestInv, ImportVideo PROVE GuestInv'
<1>1. /\ import = 0 /\ imports' = imports + 1 /\ import' = imports + 1
      /\ UNCHANGED <<session, vocabulary, progress, handler, jar, selected, entry, lookups, clicks, overlap,
                     sent, faults, strayed, told, removed>>
  BY DEF ImportVideo, dictionary
<1>2. GuestTypeOK'  BY <1>1 DEF GuestInv, GuestTypeOK
<1>3. ImportsCounted'
  <2>1. imports \in Nat /\ imports <= faults /\ faults \in 0 .. MaxFaults  BY <1>1 DEF GuestInv, ImportsCounted
  <2> QED  BY <1>1, <2>1 DEF ImportsCounted
<1>4. SessionsExist'  BY <1>1 DEF GuestInv, SessionsExist, Exists, Identified
<1>5. RequestsHold'
  BY <1>1 DEF GuestInv, RequestsHold, SavesWord, SaysSaved, OwnGuest, Saves, Identified, Fresh, Saved
<1>6. EntryIsSelected'  BY <1>1 DEF GuestInv, EntryIsSelected
<1>7. CookiesHold' /\ SavedWordsStayReachable'  BY <1>1, CookiesStay
<1>8. SavedIsKept' /\ MeaningBelongsToWord'
  BY <1>1 DEF GuestInv, SavedIsKept, Saved, MeaningBelongsToWord
<1> QED  BY <1>2, <1>3, <1>4, <1>5, <1>6, <1>7, <1>8 DEF GuestInv

(* The page: it has one lookup under way, or counts as overlapping. *)
LEMMA PageKeeps ==
  ASSUME GuestInv, UNCHANGED <<rows, handler, jar, history>>, overlap \subseteq overlap', EntryIsSelected',
         selected' \in [Browsers -> Word], entry' \in [Browsers -> Word], lookups' \in [Browsers -> SUBSET Words]
  PROVE  GuestInv'
<1>1. UNCHANGED <<session, vocabulary, progress, import, handler, jar, sent, faults, imports, strayed, told, removed>>
  BY DEF rows, history
<1>2. GuestTypeOK'  BY <1>1 DEF GuestInv, GuestTypeOK
<1>3. ImportsCounted'  BY <1>1 DEF GuestInv, ImportsCounted
<1>4. SessionsExist'  BY <1>1 DEF GuestInv, SessionsExist, Exists, Identified
<1>5. RequestsHold'
  <2>1. Saved(vocabulary)' = Saved(vocabulary)  BY <1>1 DEF Saved
  <2>2. ASSUME NEW s \in Handlers PROVE SavesWord(s)' /\ SaysSaved(s)' /\ OwnGuest(s)'
    <3>1. SavesWord(s) /\ SaysSaved(s) /\ OwnGuest(s)  BY DEF GuestInv, RequestsHold
    <3>2. SavesWord(s)'  BY <1>1, <3>1 DEF SavesWord, Saves
    <3>3. SaysSaved(s)' /\ OwnGuest(s)'  BY <1>1, <2>1, <3>1 DEF SaysSaved, OwnGuest, Saves, Identified, Fresh
    <3> QED  BY <3>2, <3>3
  <2> QED  BY <2>2 DEF RequestsHold
<1>6. CookiesHold' /\ SavedWordsStayReachable'  BY <1>1, CookiesStay
<1>7. SavedIsKept' /\ MeaningBelongsToWord'
  BY <1>1 DEF GuestInv, SavedIsKept, Saved, MeaningBelongsToWord
<1> QED  BY <1>2, <1>3, <1>4, <1>5, <1>6, <1>7 DEF GuestInv

LEMMA ClickKeeps == ASSUME GuestInv, NEW b \in Browsers, NEW w \in Words, ClickToken(b, w) PROVE GuestInv'
<1>1. /\ selected' = [selected EXCEPT ![b] = w] /\ entry' = [entry EXCEPT ![b] = NoWord]
      /\ lookups' = [lookups EXCEPT ![b] = lookups[b] \cup {w}]
      /\ overlap' = (IF lookups[b] = {} THEN overlap ELSE overlap \cup {b})
      /\ UNCHANGED <<rows, handler, jar, history>>
  BY DEF ClickToken, EntryCleared
<1>2. /\ selected \in [Browsers -> Word] /\ entry \in [Browsers -> Word]
      /\ lookups \in [Browsers -> SUBSET Words]
  BY DEF GuestInv, GuestTypeOK
<1>3. /\ selected' \in [Browsers -> Word] /\ entry' \in [Browsers -> Word]
      /\ lookups' \in [Browsers -> SUBSET Words]
  BY <1>1, <1>2 DEF Word
<1>4. EntryIsSelected'  BY <1>1, <1>2 DEF GuestInv, EntryIsSelected
<1> QED  BY <1>1, <1>3, <1>4, PageKeeps

LEMMA LookupKeeps == ASSUME GuestInv, NEW b \in Browsers, NEW w \in Words, LookupAnswered(b, w) PROVE GuestInv'
<1>1. /\ w \in lookups[b] /\ entry' \in {[entry EXCEPT ![b] = w], entry}
      /\ lookups' = [lookups EXCEPT ![b] = lookups[b] \ {w}]
      /\ UNCHANGED <<rows, handler, jar, selected, clicks, overlap, history>>
  BY DEF LookupAnswered
<1>2. /\ selected \in [Browsers -> Word] /\ entry \in [Browsers -> Word]
      /\ lookups \in [Browsers -> SUBSET Words]
  BY DEF GuestInv, GuestTypeOK
<1>3. /\ selected' \in [Browsers -> Word] /\ entry' \in [Browsers -> Word]
      /\ lookups' \in [Browsers -> SUBSET Words]
  BY <1>1, <1>2 DEF Word
<1>4. EntryIsSelected'  BY <1>1, <1>2 DEF GuestInv, EntryIsSelected
<1> QED  BY <1>1, <1>3, <1>4, PageKeeps

LEMMA StuttersKeep == ASSUME GuestInv, UNCHANGED guestVars PROVE GuestInv'
<1>1. UNCHANGED <<rows, handler, jar, history, selected, entry, lookups, overlap>>  BY DEF guestVars, dictionary
<1>2. EntryIsSelected'  BY <1>1 DEF GuestInv, EntryIsSelected
<1>3. selected' \in [Browsers -> Word] /\ entry' \in [Browsers -> Word] /\ lookups' \in [Browsers -> SUBSET Words]
  BY <1>1 DEF GuestInv, GuestTypeOK
<1> QED  BY <1>1, <1>2, <1>3, PageKeeps

-----------------------------------------------------------------------------
(* A new guest is hidden *)

LEMMA InitHides == GuestInit => FreshIsHidden
<1> SUFFICES ASSUME GuestInit PROVE FreshIsHidden  OBVIOUS
<1>1. \A s \in Handlers : handler[s] = NoRequest  BY DEF GuestInit
<1>2. NoRequest.raised = FALSE /\ NoRequest.fresh = FALSE  BY DEF NoRequest
<1>3. \A s \in Handlers : ~handler[s].raised /\ ~handler[s].fresh  BY <1>1, <1>2
<1> QED  BY <1>3 DEF FreshIsHidden, Fresh

(* Steps of a handler that knows its guest and has not answered. *)
KnownStep(s) ==
  Stores(s) \/ FindWord(s) \/ FindLine(s) \/ DeleteVocabulary(s) \/ FindVideo(s) \/ UpdateProgress(s)

LEMMA KnownMoves ==
  ASSUME GuestInv, FreshIsHidden, NEW s \in Handlers, KnownStep(s)
  PROVE  /\ Identified(s) /\ ~At(s, "answer") /\ SameRequest(s) /\ jar' = jar
         /\ handler'[s].raised => handler'[s].pc = "answer"
         /\ \A r \in vocabulary' : \/ r \in vocabulary
                                   \/ /\ r.guest = handler[s].guest
                                      /\ handler'[s].pc = "answer" /\ ~handler'[s].raised
<1>1. CASE Stores(s)
  <2>1. RowOf(s).guest = handler[s].guest  BY DEF RowOf
  <2> QED  BY <1>1, <2>1, StoreMoves DEF Handling
<1>2. CASE FindWord(s) \/ FindLine(s) \/ DeleteVocabulary(s) \/ FindVideo(s) \/ UpdateProgress(s)
  <2>1. Identified(s) /\ ~At(s, "answer")
    BY <1>2 DEF FindWord, FindLine, DeleteVocabulary, FindVideo, UpdateProgress, At, Identified
  <2>2. jar' = jar /\ vocabulary' \subseteq vocabulary
    BY <1>2 DEF FindWord, FindLine, DeleteVocabulary, FindVideo, UpdateProgress, Handling
  <2>3. ~handler[s].raised  BY <2>1, NotAnsweredYet
  <2>4. CASE \E saved \in BOOLEAN : Answered(s, saved)  BY <2>1, <2>2, <2>4, AnsweredMoves
  <2>5. CASE Raises(s)  BY <2>1, <2>2, <2>5, RaisesMoves
  <2>6. CASE \E pc \in {"check", "insert"} : Goto(s, pc)
    BY <2>1, <2>2, <2>3, <2>6, GotoMoves DEF HandlerPc
  <2>7. CASE handler' = [handler EXCEPT ![s].pc = "upsert", ![s].import = import]
    <3>1. handler \in [Handlers -> Request]  BY DEF GuestInv, GuestTypeOK
    <3>2. import \in 0 .. MaxFaults + 1  BY DEF GuestInv, ImportsCounted
    <3>3. [handler[s] EXCEPT !.pc = "upsert", !.import = import] \in Request  BY <3>1, <3>2 DEF Request, HandlerPc
    <3>4. handler' = [handler EXCEPT ![s] = [handler[s] EXCEPT !.pc = "upsert", !.import = import]]
      BY <2>7, <3>1
    <3>5. SameRequest(s) /\ handler'[s].raised = handler[s].raised
      BY <3>1, <3>3, <3>4 DEF SameRequest, Request
    <3> QED  BY <2>1, <2>2, <2>3, <3>5
  <2> QED
    BY <1>2, <2>4, <2>5, <2>6, <2>7
    DEF FindWord, FindLine, DeleteVocabulary, FindVideo, UpdateProgress
<1> QED  BY <1>1, <1>2 DEF KnownStep

LEMMA KnownHides ==
  ASSUME GuestInv, FreshIsHidden, NEW s \in Handlers, KnownStep(s)
  PROVE  FreshIsHidden'
<1>1. /\ Identified(s) /\ ~At(s, "answer") /\ SameRequest(s) /\ jar' = jar
      /\ handler'[s].raised => handler'[s].pc = "answer"
      /\ \A r \in vocabulary' : \/ r \in vocabulary
                                \/ /\ r.guest = handler[s].guest
                                   /\ handler'[s].pc = "answer" /\ ~handler'[s].raised
  BY KnownMoves
<1>2. \A t \in Handlers :
        /\ handler'[t].cookie = handler[t].cookie /\ handler'[t].guest = handler[t].guest
        /\ handler'[t].fresh = handler[t].fresh /\ (Identified(t)' <=> Identified(t))
  BY <1>1 DEF SameRequest, Identified
<1>3. ASSUME NEW t \in Handlers
      PROVE  (handler[t].raised => handler[t].pc = "answer")' /\ (Fresh(t) => Hides(t))'
  <2>1. handler'[t].raised => handler'[t].pc = "answer"  BY <1>1 DEF SameRequest, FreshIsHidden
  <2>2. ASSUME Fresh(t)' PROVE Hides(t)'
    <3>1. Fresh(t) /\ Hides(t)  BY <1>2, <2>2 DEF Fresh, FreshIsHidden
    <3>2. \A b \in Browsers : jar'[b] # handler'[t].guest  BY <1>1, <1>2, <3>1 DEF Hides
    <3>3. \A q \in Handlers \ {t} :
            handler'[q].cookie # handler'[t].guest /\ (Identified(q)' => handler'[q].guest # handler'[t].guest)
      BY <1>2, <3>1 DEF Hides
    <3>4. ASSUME handler'[t].pc # "answer" \/ handler'[t].raised
          PROVE  \A r \in vocabulary' : r.guest # handler'[t].guest
      <4>1. CASE t = s  BY <1>1, <1>2, <3>1, <3>4, <4>1, NotAnsweredYet
      <4>2. CASE t # s
        <5>1. handler'[t] = handler[t] /\ handler[s].guest # handler[t].guest
          BY <1>1, <3>1, <4>2 DEF SameRequest, Hides
        <5> QED  BY <1>1, <3>1, <3>4, <5>1 DEF Hides
      <4> QED  BY <4>1, <4>2
    <3> QED  BY <3>2, <3>3, <3>4 DEF Hides, Identified
  <2> QED  BY <2>1, <2>2
<1> QED  BY <1>3 DEF FreshIsHidden

(* A step that changes at most one request, which shows no hidden guest.   *)
LEMMA OthersHide ==
  ASSUME GuestInv, FreshIsHidden, NEW s \in Handlers,
         \A t \in Handlers \ {s} : handler'[t] = handler[t],
         vocabulary' \subseteq vocabulary,
         handler'[s].raised => handler'[s].pc = "answer",
         Fresh(s)' => Hides(s)',
         \A t \in Handlers \ {s} : Fresh(t) =>
           /\ \A b \in Browsers : jar'[b] # handler[t].guest
           /\ handler'[s].cookie # handler[t].guest
           /\ Identified(s)' => handler'[s].guest # handler[t].guest
  PROVE  FreshIsHidden'
<1>1. ASSUME NEW t \in Handlers, t # s
      PROVE  (handler[t].raised => handler[t].pc = "answer")' /\ (Fresh(t) => Hides(t))'
  <2>1. handler'[t] = handler[t]  BY <1>1
  <2>2. ASSUME Fresh(t)' PROVE Hides(t)'
    <3>1. Fresh(t) /\ Hides(t)  BY <2>1, <2>2 DEF Fresh, FreshIsHidden
    <3>2. \A b \in Browsers : jar'[b] # handler'[t].guest  BY <1>1, <2>1, <3>1
    <3>3. ASSUME NEW q \in Handlers \ {t}
          PROVE  handler'[q].cookie # handler'[t].guest /\ (Identified(q)' => handler'[q].guest # handler'[t].guest)
      <4>1. CASE q = s  BY <1>1, <2>1, <3>1, <4>1
      <4>2. CASE q # s
        <5>1. handler'[q] = handler[q]  BY <4>2
        <5> QED  BY <2>1, <3>1, <5>1 DEF Hides, Identified
      <4> QED  BY <4>1, <4>2
    <3>4. handler'[t].pc # "answer" \/ handler'[t].raised => \A r \in vocabulary' : r.guest # handler'[t].guest
      BY <2>1, <3>1 DEF Hides
    <3> QED  BY <3>2, <3>3, <3>4 DEF Hides, Identified
  <2> QED  BY <2>1, <2>2 DEF FreshIsHidden
<1> QED  BY <1>1 DEF FreshIsHidden

LEMMA GuestHides ==
  ASSUME GuestInv, FreshIsHidden, NEW s \in Handlers, IdentifyGuest(s) \/ CreateGuest(s)
  PROVE  FreshIsHidden'
<1>1. /\ At(s, "guest") /\ jar' = jar /\ vocabulary' = vocabulary
      /\ handler \in [Handlers -> Request] /\ handler[s] \in Request
  BY DEF IdentifyGuest, CreateGuest, Handling, GuestInv, GuestTypeOK
<1>2. ~handler[s].raised  BY <1>1 DEF At, FreshIsHidden
<1>3. \A t \in Handlers : Fresh(t) => handler[t].guest \in Tokens /\ session[handler[t].guest] # "none"
  BY DEF GuestInv, CookiesHold, FreshIsAlone, SessionsExist, Exists
<1>4. CASE IdentifyGuest(s)
  <2>1. PICK u \in FindGuest(handler[s].cookie), pc \in FirstStep(handler[s].op) :
          handler' = [handler EXCEPT ![s].pc = pc, ![s].guest = u]
    BY <1>4 DEF IdentifyGuest
  <2>2. u = handler[s].cookie  BY DEF FindGuest
  <2>3. /\ \A t \in Handlers \ {s} : handler'[t] = handler[t]
        /\ handler'[s].cookie = handler[s].cookie /\ handler'[s].guest = u
        /\ handler'[s].fresh = handler[s].fresh /\ handler'[s].raised = handler[s].raised
    <3>1. handler' = [handler EXCEPT ![s] = [handler[s] EXCEPT !.pc = pc, !.guest = u]]  BY <1>1, <2>1
    <3> QED  BY <1>1, <3>1 DEF Request
  <2>4. ~Fresh(s)'  BY <1>1, <2>3 DEF GuestInv, CookiesHold, FreshIsAlone, Identified, At, Fresh
  <2>5. \A t \in Handlers \ {s} : Fresh(t) =>
           /\ \A b \in Browsers : jar'[b] # handler[t].guest
           /\ handler'[s].cookie # handler[t].guest
           /\ handler'[s].guest # handler[t].guest
    BY <1>1, <2>2, <2>3 DEF FreshIsHidden, Hides
  <2> QED  BY <1>1, <1>2, <2>3, <2>4, <2>5, OthersHide
<1>5. CASE CreateGuest(s)
  <2>1. PICK u \in Tokens, pc \in FirstStep(handler[s].op) :
          /\ session[u] = "none"
          /\ handler' = [handler EXCEPT ![s].pc = pc, ![s].guest = u, ![s].fresh = TRUE]
    BY <1>5 DEF CreateGuest
  <2>2. /\ \A t \in Handlers \ {s} : handler'[t] = handler[t]
        /\ handler'[s].cookie = handler[s].cookie /\ handler'[s].guest = u
        /\ handler'[s].raised = handler[s].raised
    <3>1. handler' = [handler EXCEPT ![s] = [handler[s] EXCEPT !.pc = pc, !.guest = u, !.fresh = TRUE]]
      BY <1>1, <2>1
    <3> QED  BY <1>1, <3>1 DEF Request
  <2>3. /\ \A b \in Browsers : jar[b] # u
        /\ \A t \in Handlers : handler[t].cookie # u /\ (Identified(t) => handler[t].guest # u)
        /\ \A r \in vocabulary : r.guest # u
    BY <2>1 DEF GuestInv, SessionsExist, Exists
  <2>4. Hides(s)'
    <3>1. \A t \in Handlers \ {s} : handler'[t].cookie # u /\ (Identified(t)' => handler'[t].guest # u)
      BY <2>2, <2>3 DEF Identified
    <3> QED  BY <1>1, <2>2, <2>3, <3>1 DEF Hides, Identified
  <2>5. \A t \in Handlers \ {s} : Fresh(t) =>
           /\ \A b \in Browsers : jar'[b] # handler[t].guest
           /\ handler'[s].cookie # handler[t].guest
           /\ handler'[s].guest # handler[t].guest
    <3>1. \A t \in Handlers \ {s} : Fresh(t) => handler[t].guest # u  BY <1>3, <2>1
    <3> QED  BY <1>1, <2>2, <3>1 DEF FreshIsHidden, Hides
  <2> QED  BY <1>1, <1>2, <2>2, <2>4, <2>5, OthersHide
<1> QED  BY <1>4, <1>5

LEMMA SendHides ==
  ASSUME GuestInv, FreshIsHidden, NEW b \in Browsers, NEW s \in Handlers, NEW request \in Request,
         Send(b, s, request), ~request.fresh, ~request.raised
  PROVE  FreshIsHidden'
<1>1. /\ \A t \in Handlers \ {s} : handler'[t] = handler[t]
      /\ jar' = jar /\ vocabulary' = vocabulary
      /\ handler'[s] = [request EXCEPT !.pc = "guest", !.browser = b, !.cookie = jar[b]]
  BY DEF Send, rows, GuestInv, GuestTypeOK
<1>2. /\ handler'[s].pc = "guest" /\ handler'[s].cookie = jar[b]
      /\ ~handler'[s].fresh /\ ~handler'[s].raised
  BY <1>1 DEF Request
<1>3. ~Fresh(s)' /\ ~Identified(s)'  BY <1>2 DEF Fresh, Identified
<1>4. \A t \in Handlers \ {s} : Fresh(t) =>
        (\A c \in Browsers : jar'[c] # handler[t].guest) /\ handler'[s].cookie # handler[t].guest
  BY <1>1, <1>2 DEF FreshIsHidden, Hides
<1> QED  BY <1>1, <1>2, <1>3, <1>4, OthersHide

LEMMA AskHides ==
  ASSUME GuestInv, FreshIsHidden, NEW b \in Browsers, NEW s \in Handlers,
         AskSave(b, s) \/ AskRemove(b, s) \/ AskPosition(b, s)
  PROVE  FreshIsHidden'
<1>1. CASE AskSave(b, s)
  <2> DEFINE request == [NoRequest EXCEPT !.op = "save", !.word = selected[b], !.meaning = MeaningOf(b), !.import = import]
  <2>1. Send(b, s, request)  BY <1>1 DEF AskSave
  <2>2. request \in Request /\ ~request.fresh /\ ~request.raised  BY <1>1, AskSaveTyped
  <2> HIDE DEF request
  <2> QED  BY <2>1, <2>2, SendHides
<1>2. CASE AskRemove(b, s)
  <2>1. PICK r \in vocabulary : Send(b, s, [NoRequest EXCEPT !.op = "remove", !.word = r.word, !.owner = r.guest])
    BY <1>2 DEF AskRemove
  <2> DEFINE request == [NoRequest EXCEPT !.op = "remove", !.word = r.word, !.owner = r.guest]
  <2>2. r.word \in Word /\ r.guest \in Token  BY RowsTyped DEF Row, Word, Token
  <2>3. request \in Request  BY <2>2, NoRequestTyped DEF Request, Ops
  <2>4. ~request.fresh /\ ~request.raised  BY <2>3 DEF NoRequest
  <2>5. Send(b, s, request)  BY <2>1
  <2> HIDE DEF request
  <2> QED  BY <2>3, <2>4, <2>5, SendHides
<1>3. CASE AskPosition(b, s)
  <2> DEFINE request == [NoRequest EXCEPT !.op = "position"]
  <2>1. Send(b, s, request)  BY <1>3 DEF AskPosition
  <2>2. request \in Request  BY NoRequestTyped DEF Request, Ops
  <2>3. ~request.fresh /\ ~request.raised  BY <2>2 DEF NoRequest
  <2> HIDE DEF request
  <2> QED  BY <2>1, <2>2, <2>3, SendHides
<1> QED  BY <1>1, <1>2, <1>3

LEMMA AnswerHides ==
  ASSUME GuestInv, FreshIsHidden, NEW s \in Handlers, Answer(s) \/ AnswerLost(s)
  PROVE  FreshIsHidden'
<1>1. /\ At(s, "answer") /\ handler' = [handler EXCEPT ![s] = NoRequest] /\ vocabulary' = vocabulary
      /\ jar' = jar \/ jar' = [jar EXCEPT ![handler[s].browser] = handler[s].guest]
  BY DEF Answer, AnswerLost, Finish, rows
<1>2. handler \in [Handlers -> Request] /\ jar \in [Browsers -> Token]  BY DEF GuestInv, GuestTypeOK
<1>3. /\ \A t \in Handlers \ {s} : handler'[t] = handler[t]
      /\ handler'[s].pc = "idle" /\ handler'[s].cookie = NoToken
      /\ ~handler'[s].fresh /\ ~handler'[s].raised
  BY <1>1, <1>2 DEF NoRequest
<1>4. ~Fresh(s)' /\ ~Identified(s)' /\ Identified(s)  BY <1>1, <1>3 DEF Fresh, Identified, At
<1>5. ASSUME NEW t \in Handlers \ {s}, Fresh(t)
      PROVE  /\ \A b \in Browsers : jar'[b] # handler[t].guest
             /\ handler'[s].cookie # handler[t].guest
  <2>1. handler[t].guest \in Tokens
    BY <1>5 DEF GuestInv, CookiesHold, FreshIsAlone, SessionsExist
  <2>2. handler[s].guest # handler[t].guest /\ \A b \in Browsers : jar[b] # handler[t].guest
    BY <1>4, <1>5 DEF FreshIsHidden, Hides
  <2>3. \A b \in Browsers : jar'[b] = jar[b] \/ jar'[b] = handler[s].guest  BY <1>1, <1>2
  <2> QED  BY <1>3, <2>1, <2>2, <2>3
<1> QED  BY <1>1, <1>3, <1>4, <1>5, OthersHide

(* Steps of nobody's request. *)
LEMMA QuietHides ==
  ASSUME FreshIsHidden, UNCHANGED <<handler, jar>>, vocabulary' \subseteq vocabulary
  PROVE  FreshIsHidden'
BY DEF FreshIsHidden, Hides, Fresh, Identified

LEMMA StepHides == GuestInv /\ FreshIsHidden /\ [GuestNext]_guestVars => FreshIsHidden'
<1> SUFFICES ASSUME GuestInv, FreshIsHidden, [GuestNext]_guestVars PROVE FreshIsHidden'  OBVIOUS
<1>1. ASSUME NEW b \in Browsers, NEW w \in Words, ClickToken(b, w) \/ LookupAnswered(b, w) PROVE FreshIsHidden'
  BY <1>1, QuietHides DEF ClickToken, LookupAnswered, rows
<1>2. ASSUME NEW b \in Browsers, NEW s \in Handlers, AskSave(b, s) \/ AskRemove(b, s) \/ AskPosition(b, s) PROVE FreshIsHidden'
  BY <1>2, AskHides
<1>3. ASSUME NEW s \in Handlers, IdentifyGuest(s) \/ CreateGuest(s) PROVE FreshIsHidden'
  BY <1>3, GuestHides
<1>4. ASSUME NEW s \in Handlers,
             SaveVocabulary(s) \/ InsertWord(s) \/ FindWord(s) \/ FindLine(s) \/ FindVideo(s)
               \/ DeleteVocabulary(s) \/ UpdateProgress(s)
      PROVE  FreshIsHidden'
  BY <1>4, KnownHides DEF KnownStep, Stores
<1>5. ASSUME NEW s \in Handlers, Answer(s) \/ AnswerLost(s) PROVE FreshIsHidden'
  BY <1>5, AnswerHides
<1>6. ASSUME NEW t \in Tokens, Expire(t) PROVE FreshIsHidden'  BY <1>6, QuietHides DEF Expire
<1>7. CASE DeleteVideo \/ ImportVideo  BY <1>7, QuietHides DEF DeleteVideo, ImportVideo
<1>8. CASE UNCHANGED guestVars  BY <1>8, QuietHides DEF guestVars, rows
<1> QED  BY <1>1, <1>2, <1>3, <1>4, <1>5, <1>6, <1>7, <1>8 DEF GuestNext

-----------------------------------------------------------------------------
(* The specification *)

LEMMA StepKeeps == GuestInv /\ FreshIsHidden /\ [GuestNext]_guestVars => GuestInv'
<1> SUFFICES ASSUME GuestInv, FreshIsHidden, [GuestNext]_guestVars PROVE GuestInv'  OBVIOUS
<1>1. ASSUME NEW b \in Browsers, NEW w \in Words, ClickToken(b, w) \/ LookupAnswered(b, w) PROVE GuestInv'
  BY <1>1, ClickKeeps, LookupKeeps
<1>2. ASSUME NEW b \in Browsers, NEW s \in Handlers, AskSave(b, s) \/ AskRemove(b, s) \/ AskPosition(b, s) PROVE GuestInv'
  BY <1>2, AskSaveKeeps, AskRemoveKeeps, AskPositionKeeps
<1>3. ASSUME NEW s \in Handlers, IdentifyGuest(s) \/ CreateGuest(s) PROVE GuestInv'
  BY <1>3, IdentifyKeeps, CreateKeeps
<1>4. ASSUME NEW s \in Handlers, SaveVocabulary(s) \/ InsertWord(s) PROVE GuestInv'
  BY <1>4, StoreKeeps DEF Stores
<1>5. ASSUME NEW s \in Handlers, FindWord(s) \/ FindLine(s) \/ FindVideo(s) PROVE GuestInv'
  BY <1>5, FindWordKeeps, FindLineKeeps, FindVideoKeeps
<1>6. ASSUME NEW s \in Handlers, DeleteVocabulary(s) \/ UpdateProgress(s) PROVE GuestInv'
  BY <1>6, DeleteVocabularyKeeps, UpdateProgressKeeps
<1>7. ASSUME NEW s \in Handlers, Answer(s) \/ AnswerLost(s) PROVE GuestInv'
  BY <1>7, AnswerKeeps, AnswerLostKeeps
<1>8. ASSUME NEW t \in Tokens, Expire(t) PROVE GuestInv'  BY <1>8, ExpireKeeps
<1>9. ASSUME DeleteVideo \/ ImportVideo PROVE GuestInv'  BY <1>9, DeleteVideoKeeps, ImportVideoKeeps
<1>10. CASE UNCHANGED guestVars  BY <1>10, StuttersKeep
<1> QED  BY <1>1, <1>2, <1>3, <1>4, <1>5, <1>6, <1>7, <1>8, <1>9, <1>10 DEF GuestNext

LEMMA GuestInvariant == GuestSpec => [](GuestInv /\ FreshIsHidden)
<1>1. GuestInit => GuestInv /\ FreshIsHidden  BY InitEstablishes, InitHides
<1>2. GuestInv /\ FreshIsHidden /\ [GuestNext]_guestVars => (GuestInv /\ FreshIsHidden)'
  BY StepKeeps, StepHides
<1> QED  BY <1>1, <1>2, PTL DEF GuestSpec

(* Sessions, rows, requests and pages have their types. *)
THEOREM GuestsTyped == GuestSpec => []GuestTypeOK
<1>1. GuestInv => GuestTypeOK  BY DEF GuestInv
<1> QED  BY <1>1, GuestInvariant, PTL

(* Whatever saves, deletions, imports and retries of the same word cross,  *)
(* through Go or through Python: a guest that was told its word is saved   *)
(* has it, until the guest or the deletion of the video removes it.        *)
THEOREM SavedStaysSaved == GuestSpec => []SavedIsKept
<1>1. GuestInv => SavedIsKept  BY DEF GuestInv
<1> QED  BY <1>1, GuestInvariant, PTL

(* The cookie of a browser leads to the words it saved, but for sessions   *)
(* that expired, answers that were lost, and browsers made guests twice at *)
(* once.                                                                   *)
THEOREM SavedIsReachable == GuestSpec => []SavedWordsStayReachable
<1>1. GuestInv => SavedWordsStayReachable  BY DEF GuestInv
<1> QED  BY <1>1, GuestInvariant, PTL

(* A word is saved with its own meaning by every page that never had two   *)
(* lookups under way.                                                      *)
THEOREM MeaningIsOwn == GuestSpec => []MeaningBelongsToWord
<1>1. GuestInv => MeaningBelongsToWord  BY DEF GuestInv
<1> QED  BY <1>1, GuestInvariant, PTL

-----------------------------------------------------------------------------
(* Isolation *)

Isolates == \A g \in Tokens : RowsOf(g)' # RowsOf(g) =>
              import' # import \/ \E s \in Handlers : handler'[s] # handler[s] /\ ActsFor(s, g)

(* A handler that knows its guest acts for it, and it writes the rows of   *)
(* nobody else.                                                            *)
LEMMA WriterIsolates ==
  ASSUME GuestInv, NEW s \in Handlers, Identified(s), handler'[s] # handler[s],
         \A r \in vocabulary \cup vocabulary' : r \in vocabulary \cap vocabulary' \/ r.guest = handler[s].guest,
         \A g \in Tokens \ {handler[s].guest} : g \in progress' <=> g \in progress
  PROVE  Isolates
<1>1. handler[s].cookie = handler[s].guest \/ handler[s].fresh
  BY DEF GuestInv, RequestsHold, OwnGuest, Fresh
<1>2. ASSUME NEW g \in Tokens, g # handler[s].guest PROVE RowsOf(g)' = RowsOf(g)
  <2>1. {r \in vocabulary' : r.guest = g} = {r \in vocabulary : r.guest = g}  BY <1>2
  <2>2. g \in progress' <=> g \in progress  BY <1>2
  <2>3. (g \in progress') = (g \in progress)  BY <2>2
  <2> QED  BY <2>1, <2>3 DEF RowsOf
<1> QED  BY <1>1, <1>2 DEF Isolates, ActsFor

LEMMA OthersIsolate == ASSUME UNCHANGED <<vocabulary, progress>> PROVE Isolates
BY DEF Isolates, RowsOf

LEMMA StoreIsolates == ASSUME GuestInv, FreshIsHidden, NEW s \in Handlers, Stores(s) PROVE Isolates
<1>1. /\ vocabulary' = vocabulary \/ vocabulary' = vocabulary \cup {RowOf(s)}
      /\ progress' = progress /\ Identified(s) /\ ~At(s, "answer") /\ handler'[s].pc = "answer"
  BY StoreMoves
<1>2. handler'[s] # handler[s]  BY <1>1 DEF At
<1>3. RowOf(s).guest = handler[s].guest  BY DEF RowOf
<1> QED  BY <1>1, <1>2, <1>3, WriterIsolates

LEMMA DeleteIsolates == ASSUME GuestInv, NEW s \in Handlers, DeleteVocabulary(s) PROVE Isolates
<1>1. /\ At(s, "remove") /\ vocabulary' = vocabulary \ OwnRows(s) /\ progress' = progress /\ Answered(s, FALSE)
  BY DEF DeleteVocabulary
<1>2. handler'[s].pc = "answer"  BY <1>1, AnsweredMoves
<1>3. handler'[s] # handler[s] /\ Identified(s)  BY <1>1, <1>2 DEF At, Identified
<1>4. \A r \in OwnRows(s) : r.guest = handler[s].guest  BY DEF OwnRows
<1> QED  BY <1>1, <1>3, <1>4, WriterIsolates

LEMMA UpdateIsolates == ASSUME GuestInv, NEW s \in Handlers, UpdateProgress(s) PROVE Isolates
<1>1. /\ At(s, "upsert") /\ vocabulary' = vocabulary /\ (Answered(s, FALSE) \/ Raises(s))
      /\ progress' = (IF LineExists(s) THEN progress \cup {handler[s].guest} ELSE progress)
  BY DEF UpdateProgress
<1>2. ~At(s, "answer") /\ Identified(s)  BY <1>1 DEF At, Identified
<1>3. handler'[s].pc = "answer"  BY <1>1, <1>2, AnsweredMoves, RaisesMoves
<1>4. handler'[s] # handler[s]  BY <1>2, <1>3 DEF At
<1> QED  BY <1>1, <1>2, <1>4, WriterIsolates

(* What a guest keeps changes only in a request that showed its cookie or  *)
(* made it a guest, or with the import of the video.                       *)
THEOREM GuestsIsolated == GuestSpec => IsolatedByGuest
<1>1. ASSUME GuestInv, FreshIsHidden, [GuestNext]_guestVars PROVE Isolates \/ UNCHANGED guestVars
  <2>1. ASSUME NEW b \in Browsers, NEW w \in Words, ClickToken(b, w) \/ LookupAnswered(b, w) PROVE Isolates
    BY <2>1, OthersIsolate DEF ClickToken, LookupAnswered, rows
  <2>2. ASSUME NEW b \in Browsers, NEW s \in Handlers, AskSave(b, s) \/ AskRemove(b, s) \/ AskPosition(b, s) PROVE Isolates
    BY <2>2, OthersIsolate DEF AskSave, AskRemove, AskPosition, Send, rows
  <2>3. ASSUME NEW s \in Handlers, IdentifyGuest(s) \/ CreateGuest(s) \/ FindWord(s) \/ FindLine(s) \/ FindVideo(s) PROVE Isolates
    BY <2>3, OthersIsolate DEF IdentifyGuest, CreateGuest, FindWord, FindLine, FindVideo
  <2>4. ASSUME NEW s \in Handlers, SaveVocabulary(s) \/ InsertWord(s) PROVE Isolates
    BY <1>1, <2>4, StoreIsolates DEF Stores
  <2>5. ASSUME NEW s \in Handlers, DeleteVocabulary(s) \/ UpdateProgress(s) PROVE Isolates
    BY <1>1, <2>5, DeleteIsolates, UpdateIsolates
  <2>6. ASSUME NEW s \in Handlers, Answer(s) \/ AnswerLost(s) PROVE Isolates
    BY <2>6, OthersIsolate DEF Answer, AnswerLost, Finish, rows
  <2>7. ASSUME NEW t \in Tokens, Expire(t) PROVE Isolates  BY <2>7, OthersIsolate DEF Expire
  <2>8. CASE DeleteVideo
    <3>1. import # 0 /\ import' = 0  BY <2>8 DEF DeleteVideo
    <3> QED  BY <3>1 DEF Isolates
  <2>9. CASE ImportVideo  BY <2>9, OthersIsolate DEF ImportVideo
  <2> QED  BY <1>1, <2>1, <2>2, <2>3, <2>4, <2>5, <2>6, <2>7, <2>8, <2>9 DEF GuestNext
<1>2. GuestInv /\ FreshIsHidden /\ [GuestNext]_guestVars => [Isolates]_guestVars  BY <1>1
<1>3. GuestSpec => [][Isolates]_guestVars  BY <1>2, GuestInvariant, PTL DEF GuestSpec
<1> QED  BY <1>3 DEF IsolatedByGuest, Isolates
=============================================================================
