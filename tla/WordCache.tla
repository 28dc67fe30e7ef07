----------------------------- MODULE WordCache -----------------------------
(***************************************************************************)
(* Explanations of one word in one context, LearningDictionaryProvider in  *)
(* dictionary_service.py: looked for in Redis, then in PostgreSQL, and     *)
(* asked of the model when both miss.  Lookups of several learners run at  *)
(* the same time; either store may fail at any call.                       *)
(***************************************************************************)
EXTENDS Naturals

CONSTANTS
  Lookups,     \* lookups under way at the same time
  MaxLookups,  \* bound: lookups
  MaxLosses    \* bound: expiries in Redis and calls of PostgreSQL that fail

ASSUME CacheAssumption == MaxLookups \in Nat /\ MaxLosses \in Nat

(* Explanations are numbered: none, the heuristic's, and the answers of    *)
(* the model, no two of which are the same.                                *)
None == 0
Heuristic == 1
Stored == 0 .. MaxLookups + 1

VARIABLES
  redis,    \* the entry dictionary:context:v5:... of word and context
  sql,      \* its row in dictionary_enrichment_cache
  lookup,   \* per lookup: its step, the explanation it has and failed questions
  \* auxiliary
  begun, losses,
  crossed,  \* two lookups that missed were under way at the same time
  excused   \* PostgreSQL failed a lookup

wordVars == <<redis, sql, lookup, begun, losses, crossed, excused>>

LookupPc == {"idle", "redis", "sql", "ask", "restore", "store", "persist"}

(* Types: the model is asked twice at most. *)
WordTypeOK ==
  /\ redis \in Stored /\ sql \in Stored
  /\ lookup \in [Lookups -> [pc : LookupPc, has : Stored, tries : 0 .. 1]]
  /\ begun \in 0 .. MaxLookups /\ losses \in 0 .. MaxLosses
  /\ crossed \in BOOLEAN /\ excused \in BOOLEAN

NoLookup == [pc |-> "idle", has |-> None, tries |-> 0]

WordInit ==
  /\ redis = None /\ sql = None
  /\ lookup = [l \in Lookups |-> NoLookup]
  /\ begun = 0 /\ losses = 0
  /\ crossed = FALSE /\ excused = FALSE

-----------------------------------------------------------------------------
LookupAt(l, pc) == lookup[l].pc = pc
Advance(l, pc, has) == lookup' = [lookup EXCEPT ![l] = [pc |-> pc, has |-> has, tries |-> 0]]
Responds(l) == lookup' = [lookup EXCEPT ![l] = NoLookup]
Loss == losses < MaxLosses /\ losses' = losses + 1

(* A lookup that missed both stores and has not written them yet. *)
Missed(l) == lookup[l].pc \in {"ask", "store", "persist"}
MissedBoth(l) ==
  /\ Advance(l, "ask", None)
  /\ crossed' = (crossed \/ \E r \in Lookups \ {l} : Missed(r))

(* The basic entry of the word comes first; it is always there. *)
LookUpWord(l) ==
  /\ LookupAt(l, "idle") /\ begun < MaxLookups
  /\ begun' = begun + 1
  /\ Advance(l, "redis", None)
  /\ UNCHANGED <<redis, sql, losses, crossed, excused>>

(* Redis has it, or has not, or cannot be reached. *)
ReadRedis(l) ==
  /\ LookupAt(l, "redis")
  /\ (redis # None /\ Responds(l)) \/ Advance(l, "sql", None)
  /\ UNCHANGED <<redis, sql, begun, losses, crossed, excused>>

(* Mutant: the row is looked for under another hash than it has. *)
Unhashed == None
Persisted == sql

ReadSql(l) ==
  /\ LookupAt(l, "sql")
  /\ IF Persisted # None THEN Advance(l, "restore", Persisted) /\ UNCHANGED crossed ELSE MissedBoth(l)
  /\ UNCHANGED <<redis, sql, begun, losses, excused>>

(* The row cannot be read; the model is asked. *)
ReadSqlFails(l) ==
  /\ LookupAt(l, "sql") /\ Loss
  /\ MissedBoth(l)
  /\ excused' = TRUE
  /\ UNCHANGED <<redis, sql, begun>>

(* Redis keeps what it is given, or has nothing of it. *)
SetRedis(l) == redis' \in {redis, lookup[l].has}

Restore(l) ==
  /\ LookupAt(l, "restore")
  /\ SetRedis(l)
  /\ Responds(l)
  /\ UNCHANGED <<sql, begun, losses, crossed, excused>>

(* The model explains the word in its context ... *)
Enrich(l) ==
  /\ LookupAt(l, "ask")
  /\ \E answer \in (2 .. begun + 1) \ ({redis, sql} \cup {lookup[r].has : r \in Lookups}) : Advance(l, "store", answer)
  /\ UNCHANGED <<redis, sql, begun, losses, crossed, excused>>

(* Mutant: a third question. *)
AsksThrice(l) == lookup[l].tries <= 1
AsksAgain(l) == lookup[l].tries = 0

(* ... or fails, twice: then the heuristic explains it, and is kept like   *)
(* an answer.  After an exception nobody expects there is no explanation.  *)
EnrichFails(l) ==
  /\ LookupAt(l, "ask")
  /\ \/ AsksAgain(l) /\ lookup' = [lookup EXCEPT ![l].tries = @ + 1]
     \/ ~AsksAgain(l) /\ Advance(l, "store", Heuristic)
     \/ Responds(l)
  /\ UNCHANGED <<redis, sql, begun, losses, crossed, excused>>

Store(l) ==
  /\ LookupAt(l, "store")
  /\ SetRedis(l)
  /\ Advance(l, "persist", lookup[l].has)
  /\ UNCHANGED <<sql, begun, losses, crossed, excused>>

(* The row is inserted, or replaced if another lookup was faster. *)
Persist(l) ==
  /\ LookupAt(l, "persist")
  /\ sql' = lookup[l].has
  /\ Responds(l)
  /\ UNCHANGED <<redis, begun, losses, crossed, excused>>

PersistFails(l) ==
  /\ LookupAt(l, "persist") /\ Loss
  /\ excused' = TRUE
  /\ Responds(l)
  /\ UNCHANGED <<redis, sql, begun, crossed>>

(* CACHE_TTL_SECONDS are over.  If nobody is about to write, what crossed  *)
(* or failed before does not matter any more.                              *)
RedisExpires ==
  LET settled == \A l \in Lookups : ~Missed(l) /\ ~LookupAt(l, "restore")
  IN  /\ redis # None /\ Loss
      /\ redis' = None
      /\ crossed' = (crossed /\ ~settled)
      /\ excused' = (excused /\ ~settled)
      /\ UNCHANGED <<sql, lookup, begun>>

WordNext ==
  \/ \E l \in Lookups :
       \/ LookUpWord(l) \/ ReadRedis(l) \/ ReadSql(l) \/ ReadSqlFails(l) \/ Restore(l)
       \/ Enrich(l) \/ EnrichFails(l) \/ Store(l) \/ Persist(l) \/ PersistFails(l)
  \/ RedisExpires

WordSpec == WordInit /\ [][WordNext]_wordVars

-----------------------------------------------------------------------------
(* README, "PostgreSQL remains the source of truth": Redis and PostgreSQL  *)
(* have the same explanation, unless two lookups missed at the same time   *)
(* or PostgreSQL failed one, and then no longer than Redis keeps its own.  *)
StoresAgree == redis = None \/ sql = None \/ redis = sql \/ crossed \/ excused
=============================================================================
