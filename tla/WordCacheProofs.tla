-------------------------- MODULE WordCacheProofs --------------------------
(***************************************************************************)
(* Proofs about WordCache, for every number of lookups and of failures.    *)
(***************************************************************************)
EXTENDS WordCache, TLAPS

Clean == ~crossed /\ ~excused

(* As long as none crossed, one lookup at a time has missed both stores.   *)
OneMissed == ~crossed => \A l, r \in Lookups : Missed(l) /\ Missed(r) => l = r

(* What a lookup is about to put back is the row.                          *)
RestoresRow == Clean => \A l \in Lookups : LookupAt(l, "restore") => lookup[l].has = sql /\ sql # None

(* The row is there only when the lookup that missed it is done.           *)
RowEndsMiss == Clean /\ sql # None => \A l \in Lookups : ~Missed(l)

(* What is in Redis alone is about to be persisted.                        *)
RedisFollowed ==
  Clean /\ redis # None /\ sql = None => \E l \in Lookups : LookupAt(l, "persist") /\ lookup[l].has = redis

WordInv == WordTypeOK /\ OneMissed /\ RestoresRow /\ RowEndsMiss /\ RedisFollowed /\ StoresAgree

LookupType == [pc : LookupPc, has : Stored, tries : 0 .. 1]

USE CacheAssumption DEF LookupAt

-----------------------------------------------------------------------------
(* Lemmas about steps of one lookup *)

LEMMA StoredNat == Stored \subseteq Nat /\ None \in Stored /\ Heuristic \in Stored
BY DEF Stored, None, Heuristic

(* What Advance does. *)
LEMMA Advances ==
  ASSUME WordInv, NEW l \in Lookups, NEW pc \in LookupPc, NEW has \in Stored, Advance(l, pc, has)
  PROVE  /\ lookup' \in [Lookups -> LookupType]
         /\ lookup'[l].pc = pc /\ lookup'[l].has = has
         /\ \A r \in Lookups \ {l} : lookup'[r] = lookup[r]
<1>1. [pc |-> pc, has |-> has, tries |-> 0] \in LookupType  BY DEF LookupType
<1>2. lookup \in [Lookups -> LookupType]  BY DEF WordInv, WordTypeOK, LookupType
<1> QED  BY <1>1, <1>2 DEF Advance

(* What Responds does. *)
LEMMA RespondsEnds ==
  ASSUME WordInv, NEW l \in Lookups, Responds(l)
  PROVE  /\ lookup' \in [Lookups -> LookupType]
         /\ lookup'[l].pc = "idle"
         /\ \A r \in Lookups \ {l} : lookup'[r] = lookup[r]
<1>1. NoLookup \in LookupType  BY StoredNat DEF NoLookup, LookupType, LookupPc
<1>2. lookup \in [Lookups -> LookupType]  BY DEF WordInv, WordTypeOK, LookupType
<1> QED  BY <1>1, <1>2 DEF Responds, NoLookup

LEMMA InitEstablishes == WordInit => WordInv
<1> SUFFICES ASSUME WordInit PROVE WordInv  OBVIOUS
<1> USE DEF WordInit
<1>1. WordTypeOK
  <2>1. NoLookup \in LookupType  BY StoredNat DEF NoLookup, LookupType, LookupPc
  <2>2. lookup \in [Lookups -> LookupType]  BY <2>1
  <2>3. redis \in Stored /\ sql \in Stored  BY StoredNat
  <2>4. begun \in 0 .. MaxLookups /\ losses \in 0 .. MaxLosses  OBVIOUS
  <2> QED  BY <2>2, <2>3, <2>4 DEF WordTypeOK, LookupType
<1>2. \A l \in Lookups : lookup[l].pc = "idle"  BY DEF NoLookup
<1> QED
  BY <1>1, <1>2 DEF WordInv, OneMissed, RestoresRow, RowEndsMiss, RedisFollowed, StoresAgree, Missed

(* A lookup that writes no store, misses none and was not about to write   *)
(* one keeps the invariant.                                                *)
LEMMA QuietKeeps ==
  ASSUME WordInv, NEW l \in Lookups, UNCHANGED <<redis, sql, crossed, excused>>,
         begun' \in 0 .. MaxLookups, losses' \in 0 .. MaxLosses,
         lookup' \in [Lookups -> LookupType], \A r \in Lookups \ {l} : lookup'[r] = lookup[r],
         Missed(l)' => Missed(l), ~LookupAt(l, "persist"),
         LookupAt(l, "restore")' => lookup'[l].has = sql /\ sql # None
  PROVE  WordInv'
<1>1. WordTypeOK'  BY DEF WordInv, WordTypeOK, LookupType
<1>2. OneMissed'  BY DEF WordInv, OneMissed, Missed
<1>3. RestoresRow'  BY DEF WordInv, RestoresRow, Clean
<1>4. RowEndsMiss'  BY DEF WordInv, RowEndsMiss, Missed, Clean
<1>5. RedisFollowed'
  <2> SUFFICES ASSUME Clean, redis # None, sql = None
               PROVE  \E r \in Lookups : lookup'[r].pc = "persist" /\ lookup'[r].has = redis
    BY DEF RedisFollowed, Clean
  <2>1. PICK r \in Lookups : LookupAt(r, "persist") /\ lookup[r].has = redis  BY DEF WordInv, RedisFollowed
  <2>2. r # l  BY <2>1
  <2> QED  BY <2>1, <2>2
<1>6. StoresAgree'  BY DEF WordInv, StoresAgree
<1> QED  BY <1>1, <1>2, <1>3, <1>4, <1>5, <1>6 DEF WordInv

-----------------------------------------------------------------------------
(* Steps of a lookup that only read *)

LEMMA LookUpKeeps == ASSUME WordInv, NEW l \in Lookups, LookUpWord(l) PROVE WordInv'
<1>1. Advance(l, "redis", None) /\ UNCHANGED <<redis, sql, losses, crossed, excused>>  BY DEF LookUpWord
<1>2. /\ lookup' \in [Lookups -> LookupType] /\ lookup'[l].pc = "redis"
      /\ \A r \in Lookups \ {l} : lookup'[r] = lookup[r]
  BY <1>1, Advances, StoredNat DEF LookupPc
<1>3. begun' \in 0 .. MaxLookups /\ losses' \in 0 .. MaxLosses
  BY DEF LookUpWord, WordInv, WordTypeOK
<1>4. ~Missed(l)' /\ ~LookupAt(l, "persist")  BY <1>2 DEF Missed, LookUpWord
<1> QED  BY <1>1, <1>2, <1>3, <1>4, QuietKeeps

LEMMA ReadRedisKeeps == ASSUME WordInv, NEW l \in Lookups, ReadRedis(l) PROVE WordInv'
<1>1. Responds(l) \/ Advance(l, "sql", None)  BY DEF ReadRedis
<1>2. /\ lookup' \in [Lookups -> LookupType] /\ lookup'[l].pc \in {"idle", "sql"}
      /\ \A r \in Lookups \ {l} : lookup'[r] = lookup[r]
  BY <1>1, RespondsEnds, Advances, StoredNat DEF LookupPc
<1>3. begun' \in 0 .. MaxLookups /\ losses' \in 0 .. MaxLosses
  BY DEF ReadRedis, WordInv, WordTypeOK
<1>4. ~Missed(l)' /\ ~LookupAt(l, "persist")  BY <1>2 DEF Missed, ReadRedis
<1>5. UNCHANGED <<redis, sql, crossed, excused>>  BY DEF ReadRedis
<1> QED  BY <1>2, <1>3, <1>4, <1>5, QuietKeeps

(* A lookup that misses both stores crosses every other that has, and      *)
(* misses the row because there is none, or because of a failure.          *)
LEMMA MissKeeps ==
  ASSUME WordInv, NEW l \in Lookups, LookupAt(l, "sql"), MissedBoth(l), UNCHANGED <<redis, sql, begun>>,
         losses' \in 0 .. MaxLosses, excused' \in BOOLEAN, excused => excused', sql = None \/ excused'
  PROVE  WordInv'
<1>1. /\ lookup' \in [Lookups -> LookupType] /\ lookup'[l].pc = "ask"
      /\ \A r \in Lookups \ {l} : lookup'[r] = lookup[r]
  BY Advances, StoredNat DEF MissedBoth, LookupPc
<1>2. crossed' <=> (crossed \/ \E r \in Lookups \ {l} : Missed(r))  BY DEF MissedBoth
<1>3. crossed' \in BOOLEAN  BY DEF MissedBoth, WordInv, WordTypeOK
<1>4. Clean' => Clean /\ sql = None  BY <1>2 DEF Clean
<1>5. WordTypeOK'  BY <1>1, <1>3 DEF WordInv, WordTypeOK, LookupType
<1>6. OneMissed'  BY <1>1, <1>2 DEF WordInv, OneMissed, Missed
<1>7. RestoresRow'  BY <1>1, <1>4 DEF WordInv, RestoresRow
<1>8. RowEndsMiss'  BY <1>4 DEF RowEndsMiss
<1>9. RedisFollowed'
  <2> SUFFICES ASSUME Clean', redis # None
               PROVE  \E r \in Lookups : lookup'[r].pc = "persist" /\ lookup'[r].has = redis
    BY DEF RedisFollowed
  <2>1. PICK r \in Lookups : LookupAt(r, "persist") /\ lookup[r].has = redis
    BY <1>4 DEF WordInv, RedisFollowed
  <2>2. r # l  BY <2>1
  <2> QED  BY <1>1, <2>1, <2>2
<1>10. StoresAgree'
  <2>1. CASE Clean'  BY <1>4, <2>1 DEF StoresAgree
  <2>2. CASE ~Clean'  BY <2>2 DEF StoresAgree, Clean
  <2> QED  BY <2>1, <2>2
<1> QED  BY <1>5, <1>6, <1>7, <1>8, <1>9, <1>10 DEF WordInv

LEMMA ReadSqlKeeps == ASSUME WordInv, NEW l \in Lookups, ReadSql(l) PROVE WordInv'
<1>0. losses' \in 0 .. MaxLosses /\ begun' \in 0 .. MaxLookups /\ excused' \in BOOLEAN /\ excused' = excused
  BY DEF ReadSql, WordInv, WordTypeOK
<1>1. CASE sql # None
  <2>1. Advance(l, "restore", sql) /\ UNCHANGED <<redis, sql, crossed, excused>>
    BY <1>1 DEF ReadSql, Persisted
  <2>2. /\ lookup' \in [Lookups -> LookupType] /\ lookup'[l].pc = "restore" /\ lookup'[l].has = sql
        /\ \A r \in Lookups \ {l} : lookup'[r] = lookup[r]
    BY <2>1, Advances DEF LookupPc, WordInv, WordTypeOK
  <2>3. ~Missed(l)' /\ ~LookupAt(l, "persist")  BY <2>2 DEF Missed, ReadSql
  <2> QED  BY <1>0, <1>1, <2>1, <2>2, <2>3, QuietKeeps
<1>2. CASE sql = None
  BY <1>0, <1>2, MissKeeps DEF ReadSql, Persisted
<1> QED  BY <1>1, <1>2

LEMMA ReadSqlFailsKeeps == ASSUME WordInv, NEW l \in Lookups, ReadSqlFails(l) PROVE WordInv'
<1>1. losses' \in 0 .. MaxLosses  BY DEF ReadSqlFails, Loss, WordInv, WordTypeOK
<1>2. excused'  BY DEF ReadSqlFails
<1>3. excused' \in BOOLEAN  BY DEF ReadSqlFails
<1> QED  BY <1>1, <1>2, <1>3, MissKeeps DEF ReadSqlFails

LEMMA EnrichKeeps == ASSUME WordInv, NEW l \in Lookups, Enrich(l) PROVE WordInv'
<1>1. PICK answer \in 2 .. begun + 1 : Advance(l, "store", answer)  BY DEF Enrich
<1>2. answer \in Stored  BY DEF Stored, WordInv, WordTypeOK
<1>3. /\ lookup' \in [Lookups -> LookupType] /\ lookup'[l].pc = "store"
      /\ \A r \in Lookups \ {l} : lookup'[r] = lookup[r]
  BY <1>1, <1>2, Advances DEF LookupPc
<1>4. begun' \in 0 .. MaxLookups /\ losses' \in 0 .. MaxLosses  BY DEF Enrich, WordInv, WordTypeOK
<1>5. Missed(l) /\ ~LookupAt(l, "persist") /\ ~LookupAt(l, "restore")'  BY <1>3 DEF Missed, Enrich
<1>6. UNCHANGED <<redis, sql, crossed, excused>>  BY DEF Enrich
<1> QED  BY <1>3, <1>4, <1>5, <1>6, QuietKeeps

LEMMA EnrichFailsKeeps == ASSUME WordInv, NEW l \in Lookups, EnrichFails(l) PROVE WordInv'
<1>1. /\ lookup' \in [Lookups -> LookupType] /\ lookup'[l].pc \in {"ask", "store", "idle"}
      /\ \A r \in Lookups \ {l} : lookup'[r] = lookup[r]
  <2>1. CASE AsksAgain(l) /\ lookup' = [lookup EXCEPT ![l].tries = @ + 1]
    <3>1. lookup \in [Lookups -> LookupType]  BY DEF WordInv, WordTypeOK, LookupType
    <3>2. /\ lookup'[l] = [lookup[l] EXCEPT !.tries = 1]
          /\ \A r \in Lookups \ {l} : lookup'[r] = lookup[r]
          /\ lookup' \in [Lookups -> LookupType]
      BY <2>1, <3>1 DEF LookupType, AsksAgain
    <3>3. lookup'[l].pc = lookup[l].pc  BY <3>1, <3>2 DEF LookupType
    <3> QED  BY <3>2, <3>3 DEF EnrichFails
  <2>2. CASE Advance(l, "store", Heuristic)  BY <2>2, Advances, StoredNat DEF LookupPc
  <2>3. CASE Responds(l)  BY <2>3, RespondsEnds
  <2> QED  BY <2>1, <2>2, <2>3 DEF EnrichFails
<1>2. begun' \in 0 .. MaxLookups /\ losses' \in 0 .. MaxLosses  BY DEF EnrichFails, WordInv, WordTypeOK
<1>3. Missed(l) /\ ~LookupAt(l, "persist") /\ ~LookupAt(l, "restore")'  BY <1>1 DEF Missed, EnrichFails
<1>4. UNCHANGED <<redis, sql, crossed, excused>>  BY DEF EnrichFails
<1> QED  BY <1>1, <1>2, <1>3, <1>4, QuietKeeps

-----------------------------------------------------------------------------
(* Steps that write a store *)

LEMMA RestoreKeeps == ASSUME WordInv, NEW l \in Lookups, Restore(l) PROVE WordInv'
<1>1. /\ lookup' \in [Lookups -> LookupType] /\ lookup'[l].pc = "idle"
      /\ \A r \in Lookups \ {l} : lookup'[r] = lookup[r]
  BY RespondsEnds DEF Restore
<1>2. UNCHANGED <<sql, begun, losses, crossed, excused>> /\ redis' \in {redis, lookup[l].has}
  BY DEF Restore, SetRedis
<1>3. Clean => lookup[l].has = sql /\ sql # None  BY DEF Restore, WordInv, RestoresRow
<1>4. WordTypeOK'  BY <1>1, <1>2 DEF WordInv, WordTypeOK, LookupType
<1>5. OneMissed'  BY <1>1, <1>2 DEF WordInv, OneMissed, Missed
<1>6. RestoresRow'  BY <1>1, <1>2 DEF WordInv, RestoresRow, Clean
<1>7. RowEndsMiss'  BY <1>1, <1>2 DEF WordInv, RowEndsMiss, Missed, Clean
<1>8. RedisFollowed'  BY <1>2, <1>3 DEF RedisFollowed, Clean
<1>9. StoresAgree'  BY <1>2, <1>3 DEF WordInv, StoresAgree, Clean
<1> QED  BY <1>4, <1>5, <1>6, <1>7, <1>8, <1>9 DEF WordInv

(* Redis had nothing if the only lookup that missed stores its answer.     *)
LEMMA StoreKeeps == ASSUME WordInv, NEW l \in Lookups, Store(l) PROVE WordInv'
<1>1. lookup[l].has \in Stored /\ Missed(l)  BY DEF Store, WordInv, WordTypeOK, Missed
<1>2. /\ lookup' \in [Lookups -> LookupType] /\ lookup'[l].pc = "persist" /\ lookup'[l].has = lookup[l].has
      /\ \A r \in Lookups \ {l} : lookup'[r] = lookup[r]
  BY <1>1, Advances DEF Store, LookupPc
<1>3. UNCHANGED <<sql, begun, losses, crossed, excused>> /\ redis' \in {redis, lookup[l].has}
  BY DEF Store, SetRedis
<1>4. Clean => sql = None /\ redis = None
  <2> SUFFICES ASSUME Clean PROVE sql = None /\ redis = None  OBVIOUS
  <2>1. sql = None  BY <1>1 DEF WordInv, RowEndsMiss
  <2>2. \A r \in Lookups : ~LookupAt(r, "persist")  BY <1>1 DEF Store, WordInv, OneMissed, Missed, Clean
  <2> QED  BY <2>1, <2>2 DEF WordInv, RedisFollowed
<1>5. WordTypeOK'  BY <1>1, <1>2, <1>3 DEF WordInv, WordTypeOK, LookupType
<1>6. OneMissed'  BY <1>1, <1>2, <1>3 DEF WordInv, OneMissed, Missed
<1>7. RestoresRow'  BY <1>2, <1>3 DEF WordInv, RestoresRow, Clean
<1>8. RowEndsMiss'  BY <1>3, <1>4 DEF RowEndsMiss, Clean
<1>9. RedisFollowed'  BY <1>2, <1>3, <1>4 DEF RedisFollowed, Clean
<1>10. StoresAgree'  BY <1>3, <1>4 DEF WordInv, StoresAgree, Clean
<1> QED  BY <1>5, <1>6, <1>7, <1>8, <1>9, <1>10 DEF WordInv

(* What Redis had was followed by this lookup, the only one that missed.   *)
LEMMA PersistKeeps == ASSUME WordInv, NEW l \in Lookups, Persist(l) PROVE WordInv'
<1>1. lookup[l].has \in Stored /\ Missed(l)  BY DEF Persist, WordInv, WordTypeOK, Missed
<1>2. /\ lookup' \in [Lookups -> LookupType] /\ lookup'[l].pc = "idle"
      /\ \A r \in Lookups \ {l} : lookup'[r] = lookup[r]
  BY RespondsEnds DEF Persist
<1>3. UNCHANGED <<redis, begun, losses, crossed, excused>> /\ sql' = lookup[l].has  BY DEF Persist
<1>4. Clean => /\ sql = None /\ redis \in {None, lookup[l].has}
               /\ \A r \in Lookups \ {l} : ~Missed(r)
  <2> SUFFICES ASSUME Clean
               PROVE  /\ sql = None /\ redis \in {None, lookup[l].has}
                      /\ \A r \in Lookups \ {l} : ~Missed(r)
    OBVIOUS
  <2>1. sql = None  BY <1>1 DEF WordInv, RowEndsMiss
  <2>2. \A r \in Lookups \ {l} : ~Missed(r)  BY <1>1 DEF WordInv, OneMissed, Clean
  <2>3. \A r \in Lookups : LookupAt(r, "persist") => r = l  BY <2>2 DEF Missed
  <2> QED  BY <2>1, <2>2, <2>3 DEF WordInv, RedisFollowed
<1>5. WordTypeOK'  BY <1>1, <1>2, <1>3 DEF WordInv, WordTypeOK, LookupType
<1>6. OneMissed'  BY <1>2, <1>3 DEF WordInv, OneMissed, Missed
<1>7. RestoresRow'  BY <1>2, <1>3, <1>4 DEF WordInv, RestoresRow, Clean
<1>8. RowEndsMiss'  BY <1>2, <1>3, <1>4 DEF RowEndsMiss, Missed, Clean
<1>9. RedisFollowed'  BY <1>3, <1>4 DEF RedisFollowed, Clean
<1>10. StoresAgree'  BY <1>3, <1>4 DEF WordInv, StoresAgree, Clean
<1> QED  BY <1>5, <1>6, <1>7, <1>8, <1>9, <1>10 DEF WordInv

LEMMA PersistFailsKeeps == ASSUME WordInv, NEW l \in Lookups, PersistFails(l) PROVE WordInv'
<1>1. /\ lookup' \in [Lookups -> LookupType] /\ lookup'[l].pc = "idle"
      /\ \A r \in Lookups \ {l} : lookup'[r] = lookup[r]
  BY RespondsEnds DEF PersistFails
<1>2. UNCHANGED <<redis, sql, begun, crossed>> /\ excused' /\ excused' \in BOOLEAN  BY DEF PersistFails
<1>3. losses' \in 0 .. MaxLosses  BY DEF PersistFails, Loss, WordInv, WordTypeOK
<1>4. WordTypeOK'  BY <1>1, <1>2, <1>3 DEF WordInv, WordTypeOK, LookupType
<1>5. OneMissed'  BY <1>1, <1>2 DEF WordInv, OneMissed, Missed
<1>6. RestoresRow' /\ RowEndsMiss' /\ RedisFollowed' /\ StoresAgree'
  BY <1>2 DEF RestoresRow, RowEndsMiss, RedisFollowed, StoresAgree, Clean
<1> QED  BY <1>4, <1>5, <1>6 DEF WordInv

(* What crossed or failed is forgotten when nobody writes and Redis is     *)
(* empty.                                                                  *)
LEMMA ExpiresKeeps == WordInv /\ RedisExpires => WordInv'
<1> SUFFICES ASSUME WordInv, RedisExpires PROVE WordInv'  OBVIOUS
<1> DEFINE settled == \A l \in Lookups : ~Missed(l) /\ ~LookupAt(l, "restore")
<1>1. /\ redis' = None /\ UNCHANGED <<sql, lookup, begun>>
      /\ crossed' = (crossed /\ ~settled) /\ excused' = (excused /\ ~settled)
  BY DEF RedisExpires
<1>2. losses' \in 0 .. MaxLosses  BY DEF RedisExpires, Loss, WordInv, WordTypeOK
<1>3. (crossed' <=> (crossed /\ ~settled)) /\ (excused' <=> (excused /\ ~settled))  BY <1>1
<1>4. WordTypeOK'  BY <1>1, <1>2, StoredNat DEF WordInv, WordTypeOK
<1>5. CASE settled
  BY <1>1, <1>4, <1>5 DEF WordInv, OneMissed, RestoresRow, RowEndsMiss, RedisFollowed, StoresAgree, Missed
<1>6. CASE ~settled
  <2>1. (crossed' <=> crossed) /\ (excused' <=> excused)  BY <1>3, <1>6
  <2>2. OneMissed'  BY <1>1, <2>1 DEF WordInv, OneMissed, Missed
  <2>3. RestoresRow' /\ RowEndsMiss'  BY <1>1, <2>1 DEF WordInv, RestoresRow, RowEndsMiss, Missed, Clean
  <2> QED  BY <1>1, <1>4, <2>2, <2>3 DEF WordInv, RedisFollowed, StoresAgree
<1> QED  BY <1>5, <1>6

-----------------------------------------------------------------------------
LEMMA StepKeeps == WordInv /\ [WordNext]_wordVars => WordInv'
<1> SUFFICES ASSUME WordInv, [WordNext]_wordVars PROVE WordInv'  OBVIOUS
<1>1. ASSUME NEW l \in Lookups, LookUpWord(l) PROVE WordInv'  BY <1>1, LookUpKeeps
<1>2. ASSUME NEW l \in Lookups, ReadRedis(l) PROVE WordInv'  BY <1>2, ReadRedisKeeps
<1>3. ASSUME NEW l \in Lookups, ReadSql(l) PROVE WordInv'  BY <1>3, ReadSqlKeeps
<1>4. ASSUME NEW l \in Lookups, ReadSqlFails(l) PROVE WordInv'  BY <1>4, ReadSqlFailsKeeps
<1>5. ASSUME NEW l \in Lookups, Restore(l) PROVE WordInv'  BY <1>5, RestoreKeeps
<1>6. ASSUME NEW l \in Lookups, Enrich(l) PROVE WordInv'  BY <1>6, EnrichKeeps
<1>7. ASSUME NEW l \in Lookups, EnrichFails(l) PROVE WordInv'  BY <1>7, EnrichFailsKeeps
<1>8. ASSUME NEW l \in Lookups, Store(l) PROVE WordInv'  BY <1>8, StoreKeeps
<1>9. ASSUME NEW l \in Lookups, Persist(l) PROVE WordInv'  BY <1>9, PersistKeeps
<1>10. ASSUME NEW l \in Lookups, PersistFails(l) PROVE WordInv'  BY <1>10, PersistFailsKeeps
<1>11. CASE RedisExpires  BY <1>11, ExpiresKeeps
<1>12. CASE UNCHANGED wordVars
  BY <1>12 DEF wordVars, WordInv, WordTypeOK, OneMissed, RestoresRow, RowEndsMiss, RedisFollowed, StoresAgree, Missed, Clean
<1> QED
  BY <1>1, <1>2, <1>3, <1>4, <1>5, <1>6, <1>7, <1>8, <1>9, <1>10, <1>11, <1>12 DEF WordNext

LEMMA WordInvariant == WordSpec => []WordInv
BY InitEstablishes, StepKeeps, PTL DEF WordSpec

(* Redis never contradicts PostgreSQL, however many lookups run and        *)
(* whatever fails, unless two lookups missed at the same time or           *)
(* PostgreSQL failed one.                                                  *)
THEOREM CacheAgreesWithRow == WordSpec => []StoresAgree
<1>1. WordInv => StoresAgree  BY DEF WordInv
<1> QED  BY <1>1, WordInvariant, PTL

(* Types, and no lookup asks the model more than twice. *)
THEOREM WordTyped == WordSpec => []WordTypeOK
<1>1. WordInv => WordTypeOK  BY DEF WordInv
<1> QED  BY <1>1, WordInvariant, PTL
=============================================================================
