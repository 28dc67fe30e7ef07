---------------------------- MODULE AudioSource ----------------------------
(***************************************************************************)
(* Where the lines of an import come from: metadata, captions or, without  *)
(* captions, the audio, which is downloaded (youtube_download_service.py), *)
(* cut in chunks and transcribed (asr_service.py).  Imports run at the     *)
(* same time, downloads in threads of their own; they share the cookies    *)
(* and the status kept beside them (cookie_session.py).                    *)
(***************************************************************************)
EXTENDS Naturals, Sequences

CONSTANTS
  Imports,
  MaxDownloads,      \* yt_dlp_max_attempts
  MaxTranscriptions, \* asr_max_attempts_per_chunk
  Second,            \* units of time in a second: durations are fractional
  ChunkSeconds,      \* asr_chunk_duration_seconds
  MaxSeconds,        \* asr_max_duration_seconds
  Durations          \* durations of audio files, in units

ASSUME AudioAssumption ==
  /\ MaxDownloads \in Nat \ {0} /\ MaxTranscriptions \in Nat \ {0}
  /\ Second \in Nat \ {0} /\ ChunkSeconds \in Nat \ {0} /\ MaxSeconds \in Nat
  /\ Durations \subseteq Nat \ {0}

VARIABLES
  audio,         \* per import: its step and what it has
  transcript,    \* per import: the pieces transcribed so far
  cookies,       \* is there a cookie file
  cookieStatus,  \* the status beside it
  \* auxiliary
  verdict,       \* the last verdict on the cookies that was written
  mediaRaced     \* a media error was written over a status it had not read

audioVars == <<audio, transcript, cookies, cookieStatus, verdict, mediaRaced>>

Statuses == {"unknown", "valid", "needs_refresh"}
(* "media" stands for mark_media_error, which leaves the status alone. *)
Marks == {"valid", "needs_refresh", "media"}
Steps == {"metadata", "captions", "attempt", "probe", "media", "read", "write", "inspect", "chunk", "done", "failed"}
Progress == [pc : Steps, attempt : 1 .. MaxDownloads, session : BOOLEAN, mark : Marks, then : Steps,
             status : Statuses, duration : {0} \cup Durations, tries : 1 .. MaxTranscriptions]
Piece == [start : Nat, length : Nat]

(* Types: no download and no chunk is tried more often than it may. *)
AudioTypeOK ==
  /\ audio \in [Imports -> Progress]
  /\ transcript \in [Imports -> Seq(Piece)]
  /\ cookies \in BOOLEAN /\ cookieStatus \in Statuses /\ verdict \in Statuses

AudioInit ==
  /\ audio = [i \in Imports |-> [pc |-> "metadata", attempt |-> 1, session |-> FALSE, mark |-> "valid",
                                 then |-> "media", status |-> "unknown", duration |-> 0, tries |-> 1]]
  /\ transcript = [i \in Imports |-> <<>>]
  /\ cookies = FALSE
  /\ cookieStatus = "unknown" /\ verdict = "unknown"
  /\ mediaRaced = FALSE

-----------------------------------------------------------------------------
AudioAt(i, pc) == audio[i].pc = pc
Become(i, pc) == audio' = [audio EXCEPT ![i].pc = pc]
KeepCookies == UNCHANGED <<cookies, cookieStatus, verdict, mediaRaced>>

(* get_metadata: yt-dlp, else oEmbed, else a made up title; only a video   *)
(* that oEmbed refuses is unavailable.                                     *)
GetMetadata(i) ==
  /\ AudioAt(i, "metadata")
  /\ \E pc \in {"captions", "failed"} : Become(i, pc)
  /\ UNCHANGED transcript /\ KeepCookies

(* _retrieve_or_transcribe: no captions, for whatever reason, means ASR. *)
FetchCaptions(i) ==
  /\ AudioAt(i, "captions")
  /\ \E pc \in {"done", "attempt"} : Become(i, pc)
  /\ UNCHANGED transcript /\ KeepCookies

(* Each attempt takes the cookies that are there. *)
BeginAttempt(i) ==
  /\ AudioAt(i, "attempt")
  /\ audio' = [audio EXCEPT ![i].pc = "probe", ![i].session = cookies]
  /\ UNCHANGED transcript /\ KeepCookies

(* If it has cookies, the import marks their status before it goes on. *)
MarkThen(i, mark, then) ==
  [audio EXCEPT ![i].pc = IF audio[i].session THEN "read" ELSE then, ![i].mark = mark, ![i].then = then]

(* Mutant: one attempt too many. *)
AttemptsNotExceeded(i) == audio[i].attempt <= MaxDownloads
AttemptsLeft(i) == audio[i].attempt < MaxDownloads

Outcomes == {"cookie", "forbidden", "transient", "final"}
Retryable(outcome) == outcome \in {"forbidden", "transient"}

(* classify_yt_dlp_failure: cookies that are no longer good, a forbidden   *)
(* media request, a network failure or a rate limit, or anything else.     *)
DownloadFails(i, outcome) ==
  LET again == Retryable(outcome) /\ AttemptsLeft(i)
      then == IF again THEN "attempt" ELSE "failed"
      marks == outcome \in {"cookie", "forbidden"} /\ audio[i].session
  IN  audio' = [audio EXCEPT ![i].pc = IF marks THEN "read" ELSE then,
                             ![i].mark = IF outcome = "cookie" THEN "needs_refresh" ELSE "media",
                             ![i].then = then,
                             ![i].attempt = IF again THEN @ + 1 ELSE @]

(* A video that is announced as too long is given up; one without a        *)
(* duration goes on whatever its length.                                   *)
TooLong(d) == d \div Second > MaxSeconds
Probe(i) ==
  /\ AudioAt(i, "probe")
  /\ \/ \E d \in Durations, announced \in BOOLEAN :
          audio' = [MarkThen(i, "valid", IF announced /\ TooLong(d) THEN "failed" ELSE "media")
                      EXCEPT ![i].duration = d]
     \/ \E outcome \in Outcomes : DownloadFails(i, outcome)
  /\ UNCHANGED transcript /\ KeepCookies

Download(i) ==
  /\ AudioAt(i, "media")
  /\ \/ audio' = MarkThen(i, "valid", "inspect")
     \/ \E outcome \in Outcomes : DownloadFails(i, outcome)
  /\ UNCHANGED transcript /\ KeepCookies

(* _update reads the status ... *)
ReadStatus(i) ==
  /\ AudioAt(i, "read")
  /\ audio' = [audio EXCEPT ![i].pc = "write", ![i].status = cookieStatus]
  /\ UNCHANGED transcript /\ KeepCookies

(* ... and replaces it.  Mutant: a forbidden request condemns the cookies. *)
MediaCondemns(i) == IF audio[i].mark = "media" THEN "needs_refresh" ELSE audio[i].mark
Marked(i) == IF audio[i].mark = "media" THEN audio[i].status ELSE audio[i].mark

WriteStatus(i) ==
  /\ AudioAt(i, "write")
  /\ cookieStatus' = Marked(i)
  /\ verdict' = IF audio[i].mark = "media" THEN verdict ELSE audio[i].mark
  /\ mediaRaced' = (audio[i].mark = "media" /\ (mediaRaced \/ audio[i].status # cookieStatus))
  /\ Become(i, audio[i].then)
  /\ UNCHANGED <<transcript, cookies>>

(* The helper or a developer puts cookies there; their status stays. *)
ExportCookies ==
  /\ ~cookies
  /\ cookies' = TRUE
  /\ UNCHANGED <<audio, transcript, cookieStatus, verdict, mediaRaced>>

-----------------------------------------------------------------------------
(* Mutant: whole chunks only. *)
FullChunks(d) == IF d <= ChunkSeconds * Second THEN 1 ELSE d \div (ChunkSeconds * Second)
ChunkCount(d) ==
  IF d <= ChunkSeconds * Second THEN 1
  ELSE (d + ChunkSeconds * Second - Second) \div (ChunkSeconds * Second)

(* The chunk that is transcribed after n others. *)
ChunkOf(d, n) ==
  LET start == n * ChunkSeconds * Second
      length == ChunkSeconds * Second
  IN  IF ChunkCount(d) = 1 THEN [start |-> 0, length |-> d]
      ELSE [start |-> start, length |-> IF d - start < length THEN d - start ELSE length]

(* ffprobe finds the duration of the file, or there is no file to use. *)
InspectAudio(i) ==
  /\ AudioAt(i, "inspect")
  /\ \E pc \in {"chunk", "failed"} : Become(i, pc)
  /\ UNCHANGED transcript /\ KeepCookies

TranscribeChunk(i) ==
  /\ AudioAt(i, "chunk")
  /\ LET d == audio[i].duration
         n == Len(transcript[i])
     IN  /\ transcript' = [transcript EXCEPT ![i] = Append(@, ChunkOf(d, n))]
         /\ audio' = [audio EXCEPT ![i].tries = 1, ![i].pc = IF n + 1 < ChunkCount(d) THEN "chunk" ELSE "done"]
  /\ KeepCookies

(* Only transient errors are tried again; the chunks before a chunk that   *)
(* fails are dropped with it.                                              *)
ChunkFails(i) ==
  /\ AudioAt(i, "chunk")
  /\ \/ audio[i].tries < MaxTranscriptions
        /\ audio' = [audio EXCEPT ![i].tries = @ + 1]
        /\ UNCHANGED transcript
     \/ Become(i, "failed") /\ transcript' = [transcript EXCEPT ![i] = <<>>]
  /\ KeepCookies

AudioNext ==
  \/ \E i \in Imports :
       \/ GetMetadata(i) \/ FetchCaptions(i)
       \/ BeginAttempt(i) \/ Probe(i) \/ Download(i) \/ ReadStatus(i) \/ WriteStatus(i)
       \/ InspectAudio(i) \/ TranscribeChunk(i) \/ ChunkFails(i)
  \/ ExportCookies

AudioSpec == AudioInit /\ [][AudioNext]_audioVars

-----------------------------------------------------------------------------
(* The status of the cookies is the last verdict on them; a forbidden      *)
(* media request changes it only when it was written over a status it had  *)
(* not read.                                                               *)
StatusKeepsVerdict == cookieStatus = verdict \/ mediaRaced

(* A transcript has every chunk of the audio once and in order, from the   *)
(* beginning to less than a second before the end.                         *)
EndOf(piece) == piece.start + piece.length
TranscriptWhole ==
  \A i \in Imports :
    LET t == transcript[i]
    IN  AudioAt(i, "done") /\ t # <<>> =>
          /\ t[1].start = 0
          /\ \A k \in 2 .. Len(t) : t[k].start = EndOf(t[k - 1])
          /\ EndOf(t[Len(t)]) <= audio[i].duration
          /\ EndOf(t[Len(t)]) + Second > audio[i].duration
=============================================================================
