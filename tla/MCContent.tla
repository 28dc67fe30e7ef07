----------------------------- MODULE MCContent -----------------------------
(* Small instances of the parts that make an import's content and of those *)
(* beside them.  They share no variable: a run looks at one at a time.     *)
EXTENDS AudioSource, BatchContent, TokenSpans, WordCache, Backfill, Release, TLC

VARIABLE part

Parts == {"audio", "content", "spans", "words", "rows", "release"}

ContentPartsInit ==
  /\ part \in Parts
  /\ AudioInit /\ ContentInit /\ SpanInit /\ WordInit /\ BackfillInit /\ ReleaseInit

ContentPartsNext ==
  \/ part = "audio" /\ AudioNext /\ UNCHANGED <<part, contentVars, spanVars, wordVars, rowVars, releaseVars>>
  \/ part = "content" /\ ContentNext /\ UNCHANGED <<part, audioVars, spanVars, wordVars, rowVars, releaseVars>>
  \/ part = "spans" /\ SpanNext /\ UNCHANGED <<part, audioVars, contentVars, wordVars, rowVars, releaseVars>>
  \/ part = "words" /\ WordNext /\ UNCHANGED <<part, audioVars, contentVars, spanVars, rowVars, releaseVars>>
  \/ part = "rows" /\ BackfillNext /\ UNCHANGED <<part, audioVars, contentVars, spanVars, wordVars, releaseVars>>
  \/ part = "release" /\ ReleaseNext /\ UNCHANGED <<part, audioVars, contentVars, spanVars, wordVars, rowVars>>

ContentPartsSpec ==
  ContentPartsInit /\ [][ContentPartsNext]_<<part, audioVars, contentVars, spanVars, wordVars, rowVars, releaseVars>>

(* Types of the other parts: spans, words, of which the model is asked     *)
(* twice at most, and releases.                                            *)
TypesOK == SpanTypeOK /\ WordTypeOK /\ ReleaseTypeOK

Alike == Permutations(Imports) \cup Permutations(Releases) \cup Permutations(Importers)
=============================================================================
