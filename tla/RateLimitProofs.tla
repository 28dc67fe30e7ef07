-------------------------- MODULE RateLimitProofs --------------------------
(***************************************************************************)
(* Proofs about RateLimit, for every limit, length of a window, number of  *)
(* requests in hand and clients.                                           *)
(***************************************************************************)
EXTENDS RateLimit, FiniteSetTheorems, TLAPS

(* The first tick of a window. *)
Begin(w) == w * Window

(* A request that is to be counted took its window from the clock not too  *)
(* long ago.                                                               *)
Stamped(s) ==
  slot[s].pc = "counting" =>
    /\ Begin(slot[s].window) <= slot[s].since /\ slot[s].since < Begin(slot[s].window) + Window
    /\ slot[s].since <= now /\ now <= slot[s].since + MaxDelay

(* What the counter of a key is for, and what is still to be counted.      *)
Limited(k) == k[1] = "expensive" \/ ~outage
Waiting(k) == {s \in Slots : slot[s].pc = "counting" /\ k \in KeysOf(s)}

(* The counter was begun when its window was over: it is the second one    *)
(* of its window, or the first request came late.                          *)
Late(k) == Begin(k[3]) + Window + Window <= counter[k].dies

Begun(k) ==
  counter[k].n > 0 =>
    Begin(k[3]) + Window <= counter[k].dies /\ counter[k].dies <= now + Window

(* The first counter of a window lets through the limit; a late one lets   *)
(* through the limit again, and no more than were in hand.                 *)
Untouched(k) == counter[k].n = 0 => passed[k] = 0
FirstCounter(k) ==
  counter[k].n > 0 /\ ~Late(k) => passed[k] <= counter[k].n /\ passed[k] <= Limit
LateCounter(k) ==
  counter[k].n > 0 /\ Late(k) =>
    /\ passed[k] <= Limit + counter[k].n /\ passed[k] <= Limit + Limit
    /\ passed[k] + Cardinality(Waiting(k)) <= Limit + Cardinality(Slots)

LimiterInv ==
  /\ LimiterTypeOK
  /\ redis \/ outage
  /\ \A s \in Slots : Stamped(s)
  /\ \A k \in Key : Begun(k) /\ (Limited(k) => Untouched(k) /\ FirstCounter(k) /\ LateCounter(k))

Windows == 0 .. MaxTime \div Window
SlotType ==
  [pc : {"idle", "counting", "admitted"}, group : Groups, ids : SUBSET Ids, window : Windows, since : 0 .. MaxTime]

USE RateAssumption

-----------------------------------------------------------------------------
(* Lemmas about windows, keys and what is waiting *)

(* The clock is in the window it gives. *)
LEMMA ClockInWindow ==
  ASSUME now \in 0 .. MaxTime
  PROVE  /\ WindowNow \in Windows
         /\ Begin(WindowNow) <= now /\ now < Begin(WindowNow) + Window
<1> USE DEF WindowNow, Windows, Begin
<1>1. now \in Nat /\ Window \in Nat /\ Window > 0 /\ MaxTime \in Nat /\ now <= MaxTime  OBVIOUS
<1>2. now \div Window \in Nat /\ MaxTime \div Window \in Nat  BY <1>1
<1>3. now = Window * (now \div Window) + (now % Window) /\ now % Window \in 0 .. Window - 1  BY <1>1
<1>4. MaxTime = Window * (MaxTime \div Window) + (MaxTime % Window) /\ MaxTime % Window \in 0 .. Window - 1
  BY <1>1
<1>5. now \div Window <= MaxTime \div Window
  <2> DEFINE q == now \div Window
             p == MaxTime \div Window
  <2>1. Window * q <= now /\ now < Window * p + Window  BY <1>1, <1>2, <1>3, <1>4
  <2>2. q \in Nat /\ p \in Nat  BY <1>2
  <2>3. Window * q < Window * (p + 1)  BY <1>1, <2>1, <2>2
  <2> HIDE DEF q, p
  <2>4. q < p + 1  BY <1>1, <2>2, <2>3
  <2> QED  BY <2>2, <2>4 DEF q, p
<1> QED  BY <1>1, <1>2, <1>3, <1>5

LEMMA BeginNat == \A w \in Windows : Begin(w) \in Nat
BY DEF Begin, Windows

(* The keys of a request. *)
LEMMA KeyIsOf ==
  ASSUME NEW s \in Slots, NEW k \in Key
  PROVE  k \in KeysOf(s) <=> k[1] = slot[s].group /\ k[2] \in slot[s].ids /\ k[3] = slot[s].window
<1>1. k = <<k[1], k[2], k[3]>>  BY DEF Key
<1> QED  BY <1>1 DEF KeysOf

LEMMA WaitingFinite ==
  ASSUME NEW k
  PROVE  /\ IsFiniteSet(Waiting(k)) /\ Cardinality(Waiting(k)) \in Nat
         /\ Cardinality(Slots) \in Nat /\ Cardinality(Waiting(k)) <= Cardinality(Slots)
<1>1. Waiting(k) \subseteq Slots  BY DEF Waiting
<1> QED  BY <1>1, FS_Subset, FS_CardinalityType

(* A request that stops waiting. *)
LEMMA OneLessWaits ==
  ASSUME NEW k, NEW s \in Waiting(k), Waiting(k)' = Waiting(k) \ {s}
  PROVE  Cardinality(Waiting(k)') = Cardinality(Waiting(k)) - 1
BY WaitingFinite, FS_RemoveElement

LEMMA FewerWait ==
  ASSUME NEW k, Waiting(k)' \subseteq Waiting(k)
  PROVE  Cardinality(Waiting(k)') <= Cardinality(Waiting(k)) /\ Cardinality(Waiting(k)') \in Nat
<1>1. IsFiniteSet(Waiting(k)) BY WaitingFinite
<1>2. Cardinality(Waiting(k)') <= Cardinality(Waiting(k)) /\ IsFiniteSet(Waiting(k)')  BY <1>1, FS_Subset
<1> QED  BY <1>2, FS_CardinalityType

(* What LimiterTypeOK says of a key and of a request. *)
LEMMA KeyTypes ==
  ASSUME LimiterTypeOK, NEW k \in Key
  PROVE  /\ counter[k].n \in Nat /\ counter[k].dies \in Nat /\ passed[k] \in Nat
         /\ k[3] \in Windows /\ Begin(k[3]) \in Nat /\ now \in Nat
BY BeginNat DEF LimiterTypeOK, Key, Windows

LEMMA InitEstablishes == LimiterInit => LimiterInv
<1> SUFFICES ASSUME LimiterInit PROVE LimiterInv  OBVIOUS
<1> USE DEF LimiterInit
<1>1. LimiterTypeOK
  <2>1. Free \in SlotType
    <3>1. 0 \in Windows  BY DEF Windows
    <3> QED  BY <3>1 DEF Free, SlotType, Groups
  <2>2. slot \in [Slots -> SlotType]  BY <2>1
  <2>3. counter \in [Key -> [n : Nat, dies : Nat]] /\ passed \in [Key -> Nat]  OBVIOUS
  <2>4. now \in 0 .. MaxTime /\ arrived \in 0 .. MaxArrivals  OBVIOUS
  <2>5. redis \in BOOLEAN /\ outage \in BOOLEAN  OBVIOUS
  <2> QED  BY <2>2, <2>3, <2>4, <2>5 DEF LimiterTypeOK, SlotType, Windows
<1>2. \A s \in Slots : Stamped(s)  BY DEF Stamped, Free
<1>3. \A k \in Key : Begun(k) /\ Untouched(k) /\ FirstCounter(k) /\ LateCounter(k)
  BY DEF Begun, Untouched, FirstCounter, LateCounter
<1> QED  BY <1>1, <1>2, <1>3 DEF LimiterInv

-----------------------------------------------------------------------------
(* Steps that count nothing *)

(* A step that counts nothing and lets nothing wait behind a late counter. *)
LEMMA CountersKeep ==
  ASSUME LimiterInv, UNCHANGED <<counter, passed>>, now \in 0 .. MaxTime, now' \in Nat, now <= now',
         outage => outage', NEW k \in Key,
         counter[k].n > 0 /\ Late(k) => Waiting(k)' \subseteq Waiting(k)
  PROVE  Begun(k)' /\ (Limited(k)' => Untouched(k)' /\ FirstCounter(k)' /\ LateCounter(k)')
<1>1. LimiterTypeOK /\ Begun(k) /\ (Limited(k) => Untouched(k) /\ FirstCounter(k) /\ LateCounter(k))
  BY DEF LimiterInv
<1>2. /\ counter[k].n \in Nat /\ counter[k].dies \in Nat /\ passed[k] \in Nat
      /\ k[3] \in Windows /\ Begin(k[3]) \in Nat /\ now \in Nat
  BY <1>1, KeyTypes
<1>3. Begun(k)'  BY <1>1, <1>2 DEF Begun, Begin
<1>4. ASSUME Limited(k)' PROVE Untouched(k)' /\ FirstCounter(k)' /\ LateCounter(k)'
  <2>1. Limited(k)  BY <1>4 DEF Limited
  <2>2. Untouched(k)' /\ FirstCounter(k)'  BY <1>1, <2>1 DEF Untouched, FirstCounter, Late, Begin
  <2>3. ASSUME counter[k].n > 0, Late(k)
        PROVE  passed[k] + Cardinality(Waiting(k)') <= Limit + Cardinality(Slots)
    <3>1. passed[k] + Cardinality(Waiting(k)) <= Limit + Cardinality(Slots)  BY <1>1, <2>1, <2>3 DEF LateCounter
    <3>2. Cardinality(Waiting(k)') <= Cardinality(Waiting(k)) /\ Cardinality(Waiting(k)') \in Nat
      BY <2>3, FewerWait
    <3> QED  BY <1>2, <3>1, <3>2, WaitingFinite
  <2>4. LateCounter(k)'  BY <1>1, <2>1, <2>3 DEF LateCounter, Late, Begin
  <2> QED  BY <2>2, <2>4
<1> QED  BY <1>3, <1>4

(* A request that arrives has a window that is not over, and a late        *)
(* counter one that is.                                                    *)
LEMMA ArriveKeeps ==
  ASSUME LimiterInv, NEW s \in Slots, NEW group \in Groups, NEW ids \in SUBSET Ids, Arrive(s, group, ids)
  PROVE  LimiterInv'
<1> DEFINE new == [pc |-> "counting", group |-> group, ids |-> ids, window |-> WindowNow, since |-> now]
<1>1. /\ slot[s].pc = "idle" /\ slot' = [slot EXCEPT ![s] = new]
      /\ UNCHANGED <<now, redis, counter, passed, outage>>
  BY DEF Arrive
<1>2. LimiterTypeOK /\ now \in 0 .. MaxTime /\ slot \in [Slots -> SlotType]
  BY DEF LimiterInv, LimiterTypeOK, SlotType, Windows
<1>3. WindowNow \in Windows /\ Begin(WindowNow) <= now /\ now < Begin(WindowNow) + Window  BY <1>2, ClockInWindow
<1>4. new \in SlotType  BY <1>2, <1>3 DEF SlotType
<1>5. slot' \in [Slots -> SlotType] /\ slot'[s] = new /\ \A r \in Slots \ {s} : slot'[r] = slot[r]
  BY <1>1, <1>2, <1>4
<1>6. LimiterTypeOK'
  <2>1. arrived' \in 0 .. MaxArrivals  BY <1>2 DEF Arrive, LimiterTypeOK
  <2> QED  BY <1>1, <1>2, <1>5, <2>1 DEF LimiterTypeOK, SlotType, Windows
<1>7. ASSUME NEW r \in Slots PROVE Stamped(r)'
  <2>1. CASE r = s
    <3>1. slot'[r].window = WindowNow /\ slot'[r].since = now  BY <1>5, <2>1
    <3>2. Begin(slot'[r].window) = Begin(WindowNow)  BY <3>1
    <3> QED  BY <1>1, <1>2, <1>3, <3>1, <3>2 DEF Stamped, Begin
  <2>2. CASE r # s  BY <1>1, <1>5, <2>2 DEF LimiterInv, Stamped, Begin
  <2> QED  BY <2>1, <2>2
<1>8. ASSUME NEW k \in Key, counter[k].n > 0, Late(k) PROVE Waiting(k)' \subseteq Waiting(k)
  <2>1. Begin(k[3]) + Window <= now
    BY <1>2, <1>8, KeyTypes DEF LimiterInv, Begun, Late
  <2>2. k[3] # WindowNow
    <3>1. Begin(WindowNow) \in Nat  BY <1>3, BeginNat
    <3> QED  BY <1>2, <1>3, <2>1, <3>1
  <2>3. s \notin Waiting(k)'  BY <1>5, <2>2, KeyIsOf DEF Waiting, KeysOf
  <2>4. \A r \in Slots \ {s} : r \in Waiting(k)' => r \in Waiting(k)  BY <1>5 DEF Waiting, KeysOf
  <2> QED  BY <2>3, <2>4 DEF Waiting
<1>9. \A k \in Key : Begun(k)' /\ (Limited(k)' => Untouched(k)' /\ FirstCounter(k)' /\ LateCounter(k)')
  BY <1>1, <1>2, <1>8, CountersKeep
<1> QED  BY <1>1, <1>6, <1>7, <1>9 DEF LimiterInv

(* What a request that leaves waiting, or has been answered, changes.      *)
LEMMA SlotEnds ==
  ASSUME LimiterTypeOK, NEW s \in Slots,
         slot' = [slot EXCEPT ![s] = Free] \/ slot' = [slot EXCEPT ![s].pc = "admitted"]
  PROVE  /\ slot' \in [Slots -> SlotType] /\ slot'[s].pc # "counting"
         /\ \A r \in Slots \ {s} : slot'[r] = slot[r]
         /\ \A k \in Key : Waiting(k)' = Waiting(k) \ {s}
<1>1. slot \in [Slots -> SlotType]  BY DEF LimiterTypeOK, SlotType, Windows
<1>2. Free \in SlotType
  <2>1. 0 \in Windows  BY DEF Windows
  <2> QED  BY <2>1 DEF Free, SlotType, Groups
<1>3. /\ slot' \in [Slots -> SlotType] /\ slot'[s].pc # "counting"
      /\ \A r \in Slots \ {s} : slot'[r] = slot[r]
  <2>1. CASE slot' = [slot EXCEPT ![s] = Free]  BY <1>1, <1>2, <2>1 DEF Free
  <2>2. CASE slot' = [slot EXCEPT ![s].pc = "admitted"]  BY <1>1, <2>2 DEF SlotType
  <2> QED  BY <2>1, <2>2
<1>4. ASSUME NEW k \in Key PROVE Waiting(k)' = Waiting(k) \ {s}
  <2>1. s \notin Waiting(k)'  BY <1>3 DEF Waiting
  <2>2. \A r \in Slots \ {s} : r \in Waiting(k)' <=> r \in Waiting(k)  BY <1>3 DEF Waiting, KeysOf
  <2>3. Waiting(k) \subseteq Slots /\ Waiting(k)' \subseteq Slots  BY DEF Waiting
  <2> QED  BY <2>1, <2>2, <2>3
<1> QED  BY <1>3, <1>4

(* The requests that go on waiting keep their stamps.                      *)
LEMMA StampsKeep ==
  ASSUME LimiterInv, NEW s \in Slots, UNCHANGED now, slot'[s].pc # "counting",
         \A r \in Slots \ {s} : slot'[r] = slot[r]
  PROVE  \A r \in Slots : Stamped(r)'
BY DEF LimiterInv, Stamped, Begin

LEMMA LeaveKeeps == ASSUME LimiterInv, NEW s \in Slots, Leave(s) PROVE LimiterInv'
<1>1. slot' = [slot EXCEPT ![s] = Free] /\ UNCHANGED <<now, redis, counter, arrived, passed, outage>>  BY DEF Leave
<1>2. LimiterTypeOK /\ now \in 0 .. MaxTime  BY DEF LimiterInv, LimiterTypeOK
<1>3. /\ slot' \in [Slots -> SlotType] /\ slot'[s].pc # "counting"
      /\ \A r \in Slots \ {s} : slot'[r] = slot[r]
      /\ \A k \in Key : Waiting(k)' = Waiting(k) \ {s}
  BY <1>1, <1>2, SlotEnds
<1>4. LimiterTypeOK'  BY <1>1, <1>2, <1>3 DEF LimiterTypeOK, SlotType, Windows
<1>5. \A r \in Slots : Stamped(r)'  BY <1>1, <1>3, StampsKeep
<1>6. \A k \in Key : Begun(k)' /\ (Limited(k)' => Untouched(k)' /\ FirstCounter(k)' /\ LateCounter(k)')
  BY <1>1, <1>2, <1>3, CountersKeep
<1> QED  BY <1>1, <1>4, <1>5, <1>6 DEF LimiterInv

(* From now on only the expensive group is limited, and nothing has        *)
(* changed for it.                                                         *)
LEMMA SwitchKeeps == LimiterInv /\ RedisSwitches => LimiterInv'
<1> SUFFICES ASSUME LimiterInv, RedisSwitches PROVE LimiterInv'  OBVIOUS
<1>1. UNCHANGED <<now, counter, slot, passed, arrived>> /\ outage'  BY DEF RedisSwitches
<1>2. LimiterTypeOK /\ now \in 0 .. MaxTime  BY DEF LimiterInv, LimiterTypeOK
<1>3. LimiterTypeOK'
  <2>1. redis' \in BOOLEAN /\ outage' \in BOOLEAN  BY DEF RedisSwitches
  <2> QED  BY <1>1, <1>2, <2>1 DEF LimiterTypeOK
<1>4. \A r \in Slots : Stamped(r)'  BY <1>1 DEF LimiterInv, Stamped, Begin
<1>5. \A k \in Key : Waiting(k)' = Waiting(k)  BY <1>1 DEF Waiting, KeysOf
<1>6. \A k \in Key : Begun(k)' /\ (Limited(k)' => Untouched(k)' /\ FirstCounter(k)' /\ LateCounter(k)')
  BY <1>1, <1>2, <1>5, CountersKeep
<1> QED  BY <1>1, <1>3, <1>4, <1>6 DEF LimiterInv

LEMMA TickKeeps == LimiterInv /\ Tick => LimiterInv'
<1> SUFFICES ASSUME LimiterInv, Tick PROVE LimiterInv'  OBVIOUS
<1>1. now < MaxTime /\ now' = now + 1 /\ UNCHANGED <<redis, counter, slot, passed, outage, arrived>>  BY DEF Tick
<1>2. LimiterTypeOK /\ now \in 0 .. MaxTime /\ slot \in [Slots -> SlotType]
  BY DEF LimiterInv, LimiterTypeOK, SlotType, Windows
<1>3. LimiterTypeOK'  BY <1>1, <1>2 DEF LimiterTypeOK
<1>4. ASSUME NEW r \in Slots PROVE Stamped(r)'
  <2> SUFFICES ASSUME slot[r].pc = "counting"
               PROVE  /\ Begin(slot[r].window) <= slot[r].since /\ slot[r].since < Begin(slot[r].window) + Window
                      /\ slot[r].since <= now + 1 /\ now + 1 <= slot[r].since + MaxDelay
    BY <1>1 DEF Stamped, Begin
  <2>1. now < slot[r].since + MaxDelay /\ slot[r].since \in Nat  BY <1>2 DEF Tick, SlotType
  <2>2. /\ Begin(slot[r].window) <= slot[r].since /\ slot[r].since < Begin(slot[r].window) + Window
        /\ slot[r].since <= now
    BY DEF LimiterInv, Stamped
  <2> QED  BY <1>2, <2>1, <2>2
<1>5. \A k \in Key : Waiting(k)' = Waiting(k)  BY <1>1 DEF Waiting, KeysOf
<1>6. now' \in Nat /\ now <= now'  BY <1>1, <1>2
<1>7. \A k \in Key : Begun(k)' /\ (Limited(k)' => Untouched(k)' /\ FirstCounter(k)' /\ LateCounter(k)')
  BY <1>1, <1>2, <1>5, <1>6, CountersKeep
<1> QED  BY <1>1, <1>3, <1>4, <1>7 DEF LimiterInv

-----------------------------------------------------------------------------
(* Counting *)

(* Without Redis the keys of the expensive group are those of requests     *)
(* that are refused.                                                       *)
LEMMA CountFailsKeeps == ASSUME LimiterInv, NEW s \in Slots, CountFails(s) PROVE LimiterInv'
<1>1. UNCHANGED <<now, redis, counter, outage, arrived>> /\ outage  BY DEF CountFails, LimiterInv
<1>2. LimiterTypeOK /\ now \in 0 .. MaxTime /\ now \in Nat  BY DEF LimiterInv, LimiterTypeOK
<1>3. slot' = [slot EXCEPT ![s] = Free] \/ slot' = [slot EXCEPT ![s].pc = "admitted"]
  BY DEF CountFails, Refuse, LetThrough
<1>4. /\ slot' \in [Slots -> SlotType] /\ slot'[s].pc # "counting"
      /\ \A r \in Slots \ {s} : slot'[r] = slot[r]
      /\ \A k \in Key : Waiting(k)' = Waiting(k) \ {s}
  BY <1>2, <1>3, SlotEnds
<1>5. passed' \in [Key -> Nat]
  <2>1. passed \in [Key -> Nat]  BY <1>2 DEF LimiterTypeOK
  <2>2. CASE Refuse(s)  BY <2>1, <2>2 DEF Refuse
  <2>3. CASE LetThrough(s)  BY <2>1, <2>3 DEF LetThrough
  <2> QED  BY <2>2, <2>3 DEF CountFails
<1>6. LimiterTypeOK'  BY <1>1, <1>2, <1>4, <1>5 DEF LimiterTypeOK, SlotType, Windows
<1>7. \A r \in Slots : Stamped(r)'  BY <1>1, <1>4, StampsKeep
<1>8. ASSUME NEW k \in Key
      PROVE  Begun(k)' /\ (Limited(k)' => Untouched(k)' /\ FirstCounter(k)' /\ LateCounter(k)')
  <2>1. Begun(k)'  BY <1>1 DEF LimiterInv, Begun, Begin
  <2>2. ASSUME k[1] = "expensive" PROVE passed'[k] = passed[k]
    <3>1. CASE slot[s].group = "expensive"  BY <3>1 DEF CountFails, FailsClosed, Refuse
    <3>2. CASE slot[s].group # "expensive"
      <4>1. k \notin KeysOf(s)  BY <2>2, <3>2, KeyIsOf
      <4> QED  BY <3>2, <4>1 DEF CountFails, FailsClosed, LetThrough
    <3> QED  BY <3>1, <3>2
  <2>3. ASSUME Limited(k)' PROVE Untouched(k)' /\ FirstCounter(k)' /\ LateCounter(k)'
    <3>1. Limited(k) /\ passed'[k] = passed[k]  BY <1>1, <2>2, <2>3 DEF Limited
    <3>2. Untouched(k) /\ FirstCounter(k) /\ LateCounter(k)  BY <3>1 DEF LimiterInv
    <3>3. Untouched(k)' /\ FirstCounter(k)'  BY <1>1, <3>1, <3>2 DEF Untouched, FirstCounter, Late, Begin
    <3>4. Cardinality(Waiting(k)') <= Cardinality(Waiting(k)) /\ Cardinality(Waiting(k)') \in Nat
      BY <1>4, FewerWait
    <3>5. passed[k] \in Nat  BY <1>2, KeyTypes
    <3>6. ASSUME counter[k].n > 0, Late(k)
          PROVE  passed[k] + Cardinality(Waiting(k)') <= Limit + Cardinality(Slots)
      BY <3>2, <3>4, <3>5, <3>6, WaitingFinite DEF LateCounter
    <3>7. LateCounter(k)'  BY <1>1, <3>1, <3>2, <3>6 DEF LateCounter, Late, Begin
    <3> QED  BY <3>3, <3>7
  <2> QED  BY <2>1, <2>3
<1> QED  BY <1>1, <1>6, <1>7, <1>8 DEF LimiterInv

(* A request is counted before the window after its own is over: the first *)
(* counter of its window may be gone, a late one is not.                   *)
LEMMA CountKeeps == ASSUME LimiterInv, NEW s \in Slots, Count(s) PROVE LimiterInv'
<1>1. /\ slot[s].pc = "counting" /\ UNCHANGED <<now, redis, outage, arrived>>
      /\ counter' = [k \in Key |-> IF k \in KeysOf(s) THEN Counted(k) ELSE counter[k]]
  BY DEF Count
<1>2. LimiterTypeOK /\ now \in 0 .. MaxTime /\ now \in Nat /\ slot \in [Slots -> SlotType]
  BY DEF LimiterInv, LimiterTypeOK, SlotType, Windows
<1>3. slot' = [slot EXCEPT ![s] = Free] \/ slot' = [slot EXCEPT ![s].pc = "admitted"]
  BY DEF Count, Refuse, LetThrough
<1>4. /\ slot' \in [Slots -> SlotType] /\ slot'[s].pc # "counting"
      /\ \A r \in Slots \ {s} : slot'[r] = slot[r]
      /\ \A k \in Key : Waiting(k)' = Waiting(k) \ {s}
  BY <1>2, <1>3, SlotEnds
<1>5. \A k \in Key : Counted(k) \in [n : Nat, dies : Nat]
  BY <1>2, RateAssumption DEF Counted, LimiterTypeOK
<1>6. ASSUME NEW k \in Key
      PROVE  /\ passed'[k] \in {passed[k], passed[k] + 1}
             /\ (k \notin KeysOf(s) => passed'[k] = passed[k])
             /\ (k \in KeysOf(s) /\ passed'[k] # passed[k] => Counted(k).n <= Limit)
  <2>1. passed \in [Key -> Nat]  BY <1>2 DEF LimiterTypeOK
  <2>2. CASE Refuse(s)  BY <2>2 DEF Refuse
  <2>3. CASE LetThrough(s) /\ ~Exceeds(s)
    <3>1. passed'[k] = IF k \in KeysOf(s) THEN passed[k] + 1 ELSE passed[k]  BY <2>3 DEF LetThrough
    <3>2. Counted(k).n \in Nat  BY <1>5
    <3>3. k \in KeysOf(s) => Counted(k).n <= Limit  BY <2>3, <3>2 DEF Exceeds
    <3> QED  BY <3>1, <3>3
  <2> QED  BY <2>2, <2>3 DEF Count
<1>7. LimiterTypeOK'
  <2>1. passed' \in [Key -> Nat]
    <3>1. passed \in [Key -> Nat]  BY <1>2 DEF LimiterTypeOK
    <3>2. CASE Refuse(s)  BY <3>1, <3>2 DEF Refuse
    <3>3. CASE LetThrough(s)  BY <3>1, <3>3 DEF LetThrough
    <3> QED  BY <3>2, <3>3 DEF Count
  <2>2. counter' \in [Key -> [n : Nat, dies : Nat]]  BY <1>1, <1>2, <1>5 DEF LimiterTypeOK
  <2> QED  BY <1>1, <1>2, <1>4, <2>1, <2>2 DEF LimiterTypeOK, SlotType, Windows
<1>8. \A r \in Slots : Stamped(r)'  BY <1>1, <1>4, StampsKeep
<1>9. ASSUME NEW k \in Key
      PROVE  Begun(k)' /\ (Limited(k)' => Untouched(k)' /\ FirstCounter(k)' /\ LateCounter(k)')
  <2>0. /\ counter[k].n \in Nat /\ counter[k].dies \in Nat /\ passed[k] \in Nat
        /\ k[3] \in Windows /\ Begin(k[3]) \in Nat
        /\ Begun(k) /\ (Limited(k) => Untouched(k) /\ FirstCounter(k) /\ LateCounter(k))
    BY <1>2, KeyTypes DEF LimiterInv
  <2>1. CASE k \notin KeysOf(s)
    <3>1. counter'[k] = counter[k] /\ passed'[k] = passed[k]  BY <1>1, <1>6, <2>1
    <3>2. Waiting(k)' = Waiting(k)  BY <1>4, <2>1 DEF Waiting
    <3>3. Begun(k)'  BY <1>1, <2>0, <3>1 DEF Begun, Begin
    <3>4. Limited(k)' <=> Limited(k)  BY <1>1 DEF Limited
    <3>5. Limited(k) => Untouched(k)' /\ FirstCounter(k)'  BY <2>0, <3>1 DEF Untouched, FirstCounter, Late, Begin
    <3>6. Limited(k) => LateCounter(k)'  BY <2>0, <3>1, <3>2 DEF LateCounter, Late, Begin
    <3> QED  BY <3>3, <3>4, <3>5, <3>6
  <2>2. CASE k \in KeysOf(s)
    <3>1. counter'[k] = Counted(k)  BY <1>1, <2>2
    <3>2. Begin(k[3]) <= now /\ now < Begin(k[3]) + Window + Window
      <4>1. k[3] = slot[s].window /\ slot[s].since \in Nat  BY <1>2, <2>2, KeyIsOf DEF SlotType
      <4>2. Begin(k[3]) = Begin(slot[s].window)  BY <4>1
      <4>3. /\ Begin(slot[s].window) <= slot[s].since /\ slot[s].since < Begin(slot[s].window) + Window
            /\ slot[s].since <= now /\ now <= slot[s].since + MaxDelay
        BY <1>1 DEF LimiterInv, Stamped
      <4> QED  BY <1>2, <2>0, <4>1, <4>2, <4>3
    <3>3. Cardinality(Waiting(k)') = Cardinality(Waiting(k)) - 1
      <4>1. s \in Waiting(k)  BY <1>1, <2>2 DEF Waiting
      <4> QED  BY <1>4, <4>1, OneLessWaits
    <3>4. /\ Cardinality(Waiting(k)) \in Nat /\ Cardinality(Slots) \in Nat
          /\ Cardinality(Waiting(k)) <= Cardinality(Slots)
      BY WaitingFinite
    <3>5. /\ passed'[k] \in {passed[k], passed[k] + 1}
          /\ (passed'[k] # passed[k] => Counted(k).n <= Limit)
      BY <1>6, <2>2
    <3>6. Limited(k)' <=> Limited(k)  BY <1>1 DEF Limited
    <3>7. CASE Alive(k)
      <4>1. counter'[k].n = counter[k].n + 1 /\ counter'[k].dies = counter[k].dies /\ counter[k].n > 0
        <5>1. counter[k] \in [n : Nat, dies : Nat]  BY <1>2 DEF LimiterTypeOK
        <5> QED  BY <3>1, <3>7, <5>1 DEF Counted, Alive
      <4>2. Late(k)' <=> Late(k)  BY <4>1 DEF Late, Begin
      <4>3. Begun(k)'  BY <1>1, <2>0, <4>1 DEF Begun, Begin
      <4>4. Untouched(k)'  BY <2>0, <4>1 DEF Untouched
      <4>5. counter[k].n + 1 <= Limit \/ passed'[k] = passed[k]  BY <3>1, <3>5, <4>1
      <4>6. Limited(k) => FirstCounter(k)'  BY <2>0, <3>5, <4>1, <4>2, <4>5 DEF FirstCounter
      <4>7. ASSUME Limited(k), Late(k)
            PROVE  /\ passed'[k] <= Limit + counter'[k].n /\ passed'[k] <= Limit + Limit
                   /\ passed'[k] + Cardinality(Waiting(k)') <= Limit + Cardinality(Slots)
        <5>1. /\ passed[k] <= Limit + counter[k].n /\ passed[k] <= Limit + Limit
              /\ passed[k] + Cardinality(Waiting(k)) <= Limit + Cardinality(Slots)
          BY <2>0, <4>1, <4>7 DEF LateCounter
        <5> QED  BY <2>0, <3>3, <3>4, <3>5, <4>1, <4>5, <5>1
      <4>8. Limited(k) => LateCounter(k)'  BY <4>2, <4>7 DEF LateCounter
      <4> QED  BY <3>6, <4>3, <4>4, <4>6, <4>8
    <3>8. CASE ~Alive(k)
      <4>1. counter'[k].n = 1 /\ counter'[k].dies = now + Window  BY <3>1, <3>8 DEF Counted
      <4>2. Begun(k)'
        <5>1. now' = now  BY <1>1
        <5> QED  BY <1>2, <2>0, <3>2, <4>1, <5>1 DEF Begun, Begin
      <4>3. Untouched(k)'  BY <4>1 DEF Untouched
      <4>4. 1 <= Limit \/ passed'[k] = passed[k]  BY <3>1, <3>5, <4>1
      <4>5. Late(k)' <=> Begin(k[3]) + Window <= now
        <5>1. Late(k)' <=> Begin(k[3]) + Window + Window <= now + Window  BY <4>1 DEF Late, Begin
        <5> QED  BY <1>2, <2>0, <5>1
      <4>6. counter[k].n > 0 => ~Late(k) /\ Begin(k[3]) + Window <= now
        BY <1>2, <2>0, <3>2, <3>8 DEF Alive, Late, Begun
      <4>7. Limited(k) => passed[k] <= Limit /\ (counter[k].n = 0 => passed[k] = 0)
        BY <2>0, <4>6 DEF Untouched, FirstCounter
      <4>8. Limited(k) => FirstCounter(k)'
        <5>1. ASSUME ~Late(k)', Limited(k) PROVE passed'[k] <= 1 /\ passed'[k] <= Limit
          <6>1. counter[k].n = 0  BY <2>0, <4>5, <4>6, <5>1
          <6> QED  BY <2>0, <3>5, <4>4, <4>7, <5>1, <6>1
        <5> QED  BY <4>1, <5>1 DEF FirstCounter
      <4>9. Limited(k) => LateCounter(k)'
        <5>1. ASSUME Limited(k)
              PROVE  /\ passed'[k] <= Limit + 1 /\ passed'[k] <= Limit + Limit
                     /\ passed'[k] + Cardinality(Waiting(k)') <= Limit + Cardinality(Slots)
          BY <2>0, <3>3, <3>4, <3>5, <4>4, <4>7, <5>1
        <5> QED  BY <4>1, <5>1 DEF LateCounter
      <4> QED  BY <3>6, <4>2, <4>3, <4>8, <4>9
    <3> QED  BY <3>7, <3>8
  <2> QED  BY <2>1, <2>2
<1> QED  BY <1>1, <1>7, <1>8, <1>9 DEF LimiterInv

-----------------------------------------------------------------------------
LEMMA StepKeeps == LimiterInv /\ [LimiterNext]_limiter => LimiterInv'
<1> SUFFICES ASSUME LimiterInv, [LimiterNext]_limiter PROVE LimiterInv'  OBVIOUS
<1>1. ASSUME NEW s \in Slots, NEW group \in Groups, NEW a \in Addresses, NEW cookie \in {{}} \cup {{i} : i \in Cookies},
             Arrive(s, group, {a} \cup cookie)
      PROVE  LimiterInv'
  <2>1. {a} \cup cookie \in SUBSET Ids  BY DEF Ids
  <2> QED  BY <1>1, <2>1, ArriveKeeps
<1>2. ASSUME NEW s \in Slots, Count(s) PROVE LimiterInv'  BY <1>2, CountKeeps
<1>3. ASSUME NEW s \in Slots, CountFails(s) PROVE LimiterInv'  BY <1>3, CountFailsKeeps
<1>4. ASSUME NEW s \in Slots, Leave(s) PROVE LimiterInv'  BY <1>4, LeaveKeeps
<1>5. CASE RedisSwitches  BY <1>5, SwitchKeeps
<1>6. CASE Tick  BY <1>6, TickKeeps
<1>7. CASE UNCHANGED limiter
  <2>1. UNCHANGED <<now, redis, counter, slot, arrived, passed, outage>>  BY <1>7 DEF limiter
  <2>2. LimiterTypeOK'  BY <2>1 DEF LimiterInv, LimiterTypeOK
  <2>3. \A r \in Slots : Stamped(r)'  BY <2>1 DEF LimiterInv, Stamped, Begin
  <2>4. \A k \in Key : Waiting(k)' = Waiting(k)  BY <2>1 DEF Waiting, KeysOf
  <2>5. now \in 0 .. MaxTime  BY DEF LimiterInv, LimiterTypeOK
  <2>6. \A k \in Key : Begun(k)' /\ (Limited(k)' => Untouched(k)' /\ FirstCounter(k)' /\ LateCounter(k)')
    BY <2>1, <2>4, <2>5, CountersKeep
  <2> QED  BY <2>1, <2>2, <2>3, <2>6 DEF LimiterInv
<1> QED  BY <1>1, <1>2, <1>3, <1>4, <1>5, <1>6, <1>7 DEF LimiterNext

LEMMA LimiterInvariant == LimiterSpec => []LimiterInv
BY InitEstablishes, StepKeeps, PTL DEF LimiterSpec

(* Types, for every number of clients and requests.                        *)
THEOREM LimiterTyped == LimiterSpec => []LimiterTypeOK
<1>1. LimiterInv => LimiterTypeOK  BY DEF LimiterInv
<1> QED  BY <1>1, LimiterInvariant, PTL

(* No identity passes more than its limit in a window, but for the         *)
(* requests that were in hand when its counter expired: of those the limit *)
(* may pass again.  For the expensive group this is so with or without     *)
(* Redis.                                                                  *)
THEOREM LimitsHold == LimiterSpec => []PassedWithinLimit
<1>1. ASSUME LimiterInv PROVE PassedWithinLimit
  <2> SUFFICES ASSUME NEW k \in Key, Limited(k) PROVE passed[k] <= Limit + Slack
    BY DEF PassedWithinLimit, Limited
  <2>1. Untouched(k) /\ FirstCounter(k) /\ LateCounter(k) /\ LimiterTypeOK  BY <1>1 DEF LimiterInv
  <2>2. passed[k] \in Nat /\ counter[k].n \in Nat  BY <2>1, KeyTypes
  <2>3. Cardinality(Waiting(k)) \in Nat /\ Cardinality(Slots) \in Nat  BY WaitingFinite
  <2>4. passed[k] <= Limit \/ (passed[k] <= Limit + Limit /\ passed[k] <= Limit + Cardinality(Slots))
    <3>1. CASE counter[k].n = 0  BY <2>1, <3>1 DEF Untouched
    <3>2. CASE counter[k].n > 0 /\ ~Late(k)  BY <2>1, <3>2 DEF FirstCounter
    <3>3. CASE counter[k].n > 0 /\ Late(k)
      <4>1. passed[k] <= Limit + Limit /\ passed[k] + Cardinality(Waiting(k)) <= Limit + Cardinality(Slots)
        BY <2>1, <3>3 DEF LateCounter
      <4> QED  BY <2>2, <2>3, <4>1
    <3> QED  BY <2>2, <3>1, <3>2, <3>3
  <2> QED  BY <2>2, <2>3, <2>4 DEF Slack
<1> QED  BY <1>1, LimiterInvariant, PTL
=============================================================================
