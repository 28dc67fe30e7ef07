----------------------------- MODULE TokenSpans -----------------------------
(***************************************************************************)
(* The tokens of a line: which answers of the model are accepted           *)
(* (subtitle_nlp_service.py, _validate_result), and which piece of the     *)
(* line each token is said to be (segmentation_service.py, locate_tokens). *)
(* The local segmentation splits the line without its gaps.                *)
(***************************************************************************)
EXTENDS Naturals, Sequences, FiniteSets
LOCAL Text == INSTANCE SequencesExt

CONSTANTS
  Letters,    \* characters that count
  Gap,        \* whitespace or punctuation
  MaxText,    \* bound: characters of a line
  MaxTokens,  \* bound: tokens of a line
  MaxToken    \* bound: characters of a token

ASSUME SpanAssumption == Gap \notin Letters /\ {MaxText, MaxTokens, MaxToken} \subseteq Nat

VARIABLES
  line,    \* its characters
  tokens,  \* its tokens, each a sequence of characters
  located  \* per token: the first character and the one after the last, from 1

spanVars == <<line, tokens, located>>

TextsUpTo(n) == UNION {[1 .. k -> Letters \cup {Gap}] : k \in 0 .. n}
Span == [start : Nat \ {0}, end : Nat \ {0}]

(* Types. *)
SpanTypeOK ==
  /\ line \in TextsUpTo(MaxText) /\ (line = <<>> => tokens = <<>>)
  /\ tokens \in Seq(TextsUpTo(MaxToken)) /\ Len(tokens) <= MaxTokens
  /\ located \in Seq(Span) /\ Len(located) <= Len(tokens)

SpanInit == line = <<>> /\ tokens = <<>> /\ located = <<>>

-----------------------------------------------------------------------------
IsLetter(char) == char # Gap
(* _lexical_text: spaces and punctuation do not count. *)
LexicalText(text) == SelectSeq(text, IsLetter)
Joined(words) == Text!FlattenSeq(words)

(* _validate_result: the tokens are there and cover the line. *)
Accepted(text, words) == words # <<>> /\ LexicalText(Joined(words)) = LexicalText(text)

TakeLine ==
  /\ line = <<>>
  /\ line' \in TextsUpTo(MaxText) \ {<<>>}
  /\ UNCHANGED <<tokens, located>>

(* Tokens of the model that are accepted, empty ones too; those of the      *)
(* local segmentation are among them.                                      *)
AnalyseLine ==
  /\ line # <<>> /\ tokens = <<>>
  /\ \E n \in 1 .. MaxTokens : \E words \in [1 .. n -> TextsUpTo(MaxToken)] :
       Accepted(line, words) /\ tokens' = words
  /\ UNCHANGED <<line, located>>

-----------------------------------------------------------------------------
(* text.find(token, cursor) *)
IsAt(text, word, p) == p + Len(word) - 1 <= Len(text) /\ SubSeq(text, p, p + Len(word) - 1) = word
Places(text, word, cursor) == {p \in cursor .. Len(text) + 1 : IsAt(text, word, p)}
FirstOf(S) == CHOOSE p \in S : \A q \in S : p <= q

(* Mutant: every token is looked for from the beginning. *)
FromTheBeginning(spans) == 1
Cursor(spans) == IF spans = <<>> THEN 1 ELSE spans[Len(spans)].end

(* The loop of locate_tokens, one token at a time.  One that is not found  *)
(* is said to be where the last one ended.                                 *)
LocateToken ==
  /\ Len(located) < Len(tokens)
  /\ LET word == tokens[Len(located) + 1]
         cursor == Cursor(located)
         found == Places(line, word, cursor)
         start == IF found = {} THEN cursor ELSE FirstOf(found)
     IN  located' = Append(located, [start |-> start, end |-> start + Len(word)])
  /\ UNCHANGED <<line, tokens>>

SpanNext == TakeLine \/ AnalyseLine \/ LocateToken

SpanSpec == SpanInit /\ [][SpanNext]_spanVars

-----------------------------------------------------------------------------
(* Where the letters of the k-th token are in the line, counted by letters. *)
LettersBefore(p) == Cardinality({q \in 1 .. p - 1 : q \in DOMAIN line /\ IsLetter(line[q])})
LettersOf(k) == {<<k, q>> : q \in {q \in DOMAIN tokens[k] : IsLetter(tokens[k][q])}}
TokenBegins(k) == Cardinality(UNION {LettersOf(j) : j \in 1 .. k - 1})
(* The token is written in the line at its own letters, and without a gap. *)
Together(k) ==
  /\ \A q \in DOMAIN tokens[k] : IsLetter(tokens[k][q])
  /\ \E p \in 1 .. Len(line) + 1 : LettersBefore(p) = TokenBegins(k) /\ IsAt(line, tokens[k], p)

(* Every token is found at its own letters, those of a word that occurs    *)
(* twice too, up to the first that holds gaps or joins what a gap of the   *)
(* line separates, which _validate_result accepts.                         *)
SpansHoldTokens ==
  \A k \in DOMAIN located : (\A j \in 1 .. k : Together(j)) =>
    /\ IsAt(line, tokens[k], located[k].start)
    /\ located[k].end = located[k].start + Len(tokens[k])
    /\ LettersBefore(located[k].start) = TokenBegins(k)
=============================================================================
