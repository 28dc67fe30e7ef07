---------------------------- MODULE BatchContent ----------------------------
(***************************************************************************)
(* What the worker makes of the lines of a batch: translations             *)
(* (translation_service.py), tokens (subtitle_nlp_service.py) and, where   *)
(* there is only a placeholder, a gloss of the tokens                      *)
(* (subtitle_service.py, _process_subtitle_batch).  The translator and the *)
(* analyser ask a model that may fail in every way; a list of lines it     *)
(* does not translate is split until single lines are left.                *)
(***************************************************************************)
EXTENDS Naturals, Sequences

CONSTANTS
  MaxLines,  \* bound: lines of the batch
  ChunkLines \* translation_batch_size

ASSUME ContentAssumption == MaxLines \in Nat /\ ChunkLines \in Nat \ {0}

VARIABLES
  work,         \* the step of the batch
  lines,        \* how many lines it has
  todo,         \* lists of lines to be translated, the next one first
  translations, \* what came of the lists before
  asked,        \* requests to the translator
  analyses,     \* tokens of the lines before
  tries,        \* failed requests for the next list of tokens
  processed     \* what is written to the rows

contentVars == <<work, lines, todo, translations, asked, analyses, tries, processed>>

(* "batch" is a list as translate_batch gets it, "half" one that was split *)
(* off, "again" a single line that is asked for a second time.             *)
Modes == {"batch", "half", "again"}
List == [from : 1 .. MaxLines, to : 1 .. MaxLines, mode : Modes]
Translation == [of : 1 .. MaxLines, text : {"translated", "placeholder", "gloss"}]
Analysis == [of : 1 .. MaxLines, by : {"model", "local"}]

(* Types: a line costs the translator three requests at most. *)
ContentTypeOK ==
  /\ work \in {"new", "translate", "analyse", "gloss", "done", "mismatch", "failed"}
  /\ lines \in 0 .. MaxLines
  /\ todo \in Seq(List)
  /\ translations \in Seq(Translation)
  /\ asked \in 0 .. 3 * lines
  /\ analyses \in Seq(Analysis)
  /\ tries \in 0 .. 1
  /\ processed \in Seq([line : Translation, tokens : Analysis])

ContentInit ==
  /\ work = "new"
  /\ lines = 0 /\ asked = 0 /\ tries = 0
  /\ todo = <<>> /\ translations = <<>> /\ analyses = <<>> /\ processed = <<>>

-----------------------------------------------------------------------------
ListOf(from, to, mode) == [from |-> from, to |-> to, mode |-> mode]
Smaller(m, n) == IF m < n THEN m ELSE n

(* range(0, n, size): every list but the last one is full. *)
Chunks(n) ==
  [c \in 1 .. (n + ChunkLines - 1) \div ChunkLines |->
     ListOf((c - 1) * ChunkLines + 1, Smaller(c * ChunkLines, n), "batch")]

(* Lines without text are left out of the batch. *)
LoadLines ==
  /\ work = "new"
  /\ lines' \in 0 .. MaxLines
  /\ todo' = Chunks(lines')
  /\ work' = IF lines' = 0 THEN "analyse" ELSE "translate"
  /\ UNCHANGED <<translations, asked, analyses, tries, processed>>

Single(list) == list.from = list.to
TextsOf(list, text) == [k \in 1 .. list.to - list.from + 1 |-> [of |-> list.from + k - 1, text |-> text]]

(* A list is done with. *)
Translated(list, text) ==
  /\ translations' = translations \o TextsOf(list, text)
  /\ todo' = Tail(todo)
  /\ work' = IF todo' = <<>> THEN "analyse" ELSE work

(* Mutant: the right half first. *)
RightHalfFirst(list) ==
  LET middle == list.from + (list.to - list.from + 1) \div 2
  IN  <<ListOf(middle, list.to, "half"), ListOf(list.from, middle - 1, "half")>>
Halves(list) ==
  LET middle == list.from + (list.to - list.from + 1) \div 2
  IN  <<ListOf(list.from, middle - 1, "half"), ListOf(middle, list.to, "half")>>

(* Mutant: a single line is halved for ever. *)
HalvedForEver(list) == IF Single(list) THEN <<list>> ELSE Halves(list)
(* _translate_batch_recovering: a single line that was split off is asked  *)
(* for once more.                                                          *)
Recovering(list) == IF Single(list) THEN <<[list EXCEPT !.mode = "again"]>> ELSE Halves(list)

(* The model answers with as many texts as it was sent. *)
TranslateList(list) == Translated(list, "translated")

(* The answer is no list of that length: what can be split is split.  A    *)
(* single line keeps a placeholder, sooner if it came alone.               *)
AnswerGarbled(list) ==
  \/ Single(list) /\ list.mode # "half" /\ Translated(list, "placeholder")
  \/ /\ ~Single(list) \/ list.mode = "half"
     /\ todo' = Recovering(list) \o Tail(todo)
     /\ UNCHANGED <<work, translations>>

(* The request is refused or never answered: the batch fails, but a single *)
(* line keeps a placeholder.                                               *)
RequestFails(list) ==
  \/ Single(list) /\ Translated(list, "placeholder")
  \/ ~Single(list) /\ work' = "failed" /\ UNCHANGED <<translations, todo>>

(* An exception nobody expects, such as an answer that is no JSON. *)
AnswerBroken == work' = "failed" /\ UNCHANGED <<translations, todo>>

Ask ==
  /\ work = "translate"
  /\ asked' = asked + 1
  /\ LET list == Head(todo)
     IN  TranslateList(list) \/ AnswerGarbled(list) \/ RequestFails(list) \/ AnswerBroken
  /\ UNCHANGED <<lines, analyses, tries, processed>>

-----------------------------------------------------------------------------
(* The lines that are analysed next. *)
NextLines == Chunks(lines)[Len(analyses) \div ChunkLines + 1]

Analysed(by) ==
  /\ analyses' = analyses \o [k \in 1 .. NextLines.to - NextLines.from + 1 |-> [of |-> NextLines.from + k - 1, by |-> by]]
  /\ tries' = 0
  /\ UNCHANGED work

AnalysesLeft == work = "analyse" /\ Len(analyses) < lines
KeepTranslations == UNCHANGED <<lines, todo, translations, asked, processed>>

(* An answer that passes _validate_result. *)
AnalyseList == AnalysesLeft /\ Analysed("model") /\ KeepTranslations

(* The first failure is tried again, the second leaves the lines to the    *)
(* local provider; an exception nobody expects fails the batch.            *)
AnalysisFails ==
  /\ AnalysesLeft
  /\ \/ tries = 0 /\ tries' = 1 /\ UNCHANGED <<work, analyses>>
     \/ tries = 1 /\ Analysed("local")
     \/ work' = "failed" /\ UNCHANGED <<tries, analyses>>
  /\ KeepTranslations

(* zip(..., strict=True), then _translation_or_token_gloss: a placeholder  *)
(* gives way to the meanings of the tokens, if the dictionary has any.     *)
Matching == Len(translations) = lines /\ Len(analyses) = lines
Glossed(t, known) == IF t.text = "placeholder" /\ t.of \in known THEN [t EXCEPT !.text = "gloss"] ELSE t
ProcessLines ==
  /\ work = "analyse"
  /\ Len(analyses) >= lines
  /\ IF Matching
       THEN /\ work' = "done"
            /\ \E known \in SUBSET (1 .. lines) :
                 processed' = [k \in 1 .. lines |-> [line |-> Glossed(translations[k], known), tokens |-> analyses[k]]]
       ELSE work' = "mismatch" /\ UNCHANGED processed
  /\ UNCHANGED <<lines, todo, translations, asked, analyses, tries>>

ContentNext == LoadLines \/ Ask \/ AnalyseList \/ AnalysisFails \/ ProcessLines

ContentSpec == ContentInit /\ [][ContentNext]_contentVars

-----------------------------------------------------------------------------
(* Whatever fails on the way and however lists are split, every line of a  *)
(* batch that is done has its own translation, placeholder or gloss and    *)
(* its own tokens, and the lists the lines are put together from never     *)
(* differ in length.                                                       *)
LinesInPlace ==
  /\ work # "mismatch"
  /\ work = "done" =>
       /\ Len(processed) = lines
       /\ \A k \in 1 .. lines : processed[k].line.of = k /\ processed[k].tokens.of = k
=============================================================================
