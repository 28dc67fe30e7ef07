------------------------ MODULE SubtitleQueueProofs ------------------------
(***************************************************************************)
(* The safety properties of SubtitleQueue, for every number of batches, of *)
(* concurrent requests and of calls.                                       *)
(***************************************************************************)
EXTENDS SubtitleQueue, FiniteSetTheorems, SequenceTheorems, NaturalsInduction, WellFoundedInduction, TLAPS

-----------------------------------------------------------------------------
(* The inductive invariant *)

(* The batches of a video exist together, and only while the video does. *)
RowsTogether ==
  Split => /\ video # "none"
           /\ \A i \in Batch : batch[i] # "none"

(* What the worker has read and not yet written back still holds, unless   *)
(* the rows were deleted, in which case it knows nothing of the new ones.  *)
WorkerReads ==
  /\ wpc = "source" /\ ~wgone => video # "none" /\ ~Split
  /\ wpc = "pick" => wpending # {}
  /\ wpc = "pick" => \A i \in wpending : batch[i] \in {"none", "pending"}
  /\ wpc = "load" => batch[wbatch] \in {"none", "pending"}
  /\ wpc = "mark" /\ ~wgone => batch[wbatch] = "pending"
  /\ wpc \in {"reload", "fail"} /\ ~wgone => batch[wbatch] \in {"pending", "completed"}

(* While its transaction is open, the worker's batch is out of reach of the *)
(* calls, and a batch it saw completed can only have been retried.          *)
TransactionIsolated ==
  wpc \in InTransaction =>
    /\ ~wgone
    /\ batch[wbatch] = "pending"
    /\ wbatch \notin redo
    /\ wpc = "commit" /\ wall => \A i \in Batch \ {wbatch} : batch[i] \in {"completed", "pending"}

(* At most one call holds the lock of the video row, and the video exists  *)
(* for as long as a call holds it or still has an undeleted row in hand.   *)
HoldsVideo(c) == call[c].pc \in {"retryLocked", "cascade"}

CallsHold ==
  /\ \A c, d \in Callers : HoldsVideo(c) /\ HoldsVideo(d) => c = d
  /\ \A c \in Callers : HoldsVideo(c) => video # "none" /\ ~call[c].gone
  /\ \A c \in Callers : call[c].pc \in {"import", "reopen", "retryVideo"} /\ ~call[c].gone => video # "none"

IInv ==
  /\ TypeOK
  /\ RowsTogether
  /\ WorkerReads
  /\ TransactionIsolated
  /\ CallsHold
  /\ LinesFollowBatches
  /\ CompletedVideoHasNoFailure
  /\ RetryIsRedone

-----------------------------------------------------------------------------
(* The operators the actions are built from *)

(* A set of batches that is not empty has a least one. *)
LEMMA LeastInSet ==
  ASSUME NEW S, S \subseteq Nat, S # {}
  PROVE  Least(S) \in S
<1>1. \E R : /\ IsWellFoundedOn(R, Nat)
             /\ \A x, y \in Nat : <<y, x>> \in R <=> y < x
  <2>1. \A x, y \in Nat : <<y, x>> \in OpToRel(<, Nat) <=> y < x
    BY DEF OpToRel
  <2> QED
    BY <2>1, NatLessThanWellFounded
<1>2. PICK R : /\ IsWellFoundedOn(R, Nat)
               /\ \A x, y \in Nat : <<y, x>> \in R <=> y < x
  BY <1>1
<1>3. PICK x \in S : \A y \in S : ~(<<y, x>> \in R)
  BY <1>2, WFMin
<1>4. \A y \in S : x <= y
  <2> TAKE y \in S
  <2>1. ~(y < x)
    BY <1>2, <1>3
  <2> QED
    BY <2>1
<1> QED
  BY <1>4 DEF Least

(* prioritized_batch_order begins with a pending batch, whatever is listed. *)
LEMMA FirstInOrderPending ==
  ASSUME NEW pending \in SUBSET Batch, pending # {}, NEW p
  PROVE  FirstInOrder(pending, p) \in pending
<1> DEFINE listed == {k \in 1 .. Len(p) : p[k] \in pending}
<1>1. listed \subseteq Nat
  OBVIOUS
<1>2. pending \subseteq Nat
  BY NumBatchesAssumption DEF Batch
<1>3. CASE listed = {}
  BY <1>2, <1>3, LeastInSet DEF FirstInOrder
<1>4. CASE listed # {}
  <2>1. Least(listed) \in listed
    BY <1>1, <1>4, LeastInSet
  <2> QED
    BY <1>4, <2>1 DEF FirstInOrder
<1> QED
  BY <1>3, <1>4

LEMMA BatchIsIndex == Batch \subseteq Int /\ 0 \in Batch
BY NumBatchesAssumption DEF Batch

LEMMA IdleIsCall == Idle \in Call
BY NumBatchesAssumption DEF Idle, Call, CallPc, VideoStatus

(* A call that moves on is still one. *)
LEMMA MovedIsCall ==
  ASSUME NEW k \in Call, NEW step \in CallPc
  PROVE  /\ [k EXCEPT !.pc = step] \in Call
         /\ [k EXCEPT !.pc = step].arg = k.arg
         /\ [k EXCEPT !.pc = step].seen = k.seen
         /\ [k EXCEPT !.pc = step].gone = k.gone
         /\ [k EXCEPT !.pc = step].pc = step
BY DEF Call

LEMMA GotoMoves ==
  ASSUME call \in [Callers -> Call], NEW c \in Callers, NEW step \in CallPc, Goto(c, step)
  PROVE  /\ call' \in [Callers -> Call]
         /\ \A d \in Callers : d # c => call'[d] = call[d]
         /\ call'[c].pc = step
         /\ call'[c].arg = call[c].arg
         /\ call'[c].seen = call[c].seen
         /\ call'[c].gone = call[c].gone
<1>1. call' = [call EXCEPT ![c] = [call[c] EXCEPT !.pc = step]]
  BY DEF Goto
<1>2. call[c] \in Call
  OBVIOUS
<1> QED
  BY <1>1, <1>2, MovedIsCall

-----------------------------------------------------------------------------
(* The priority list *)

(* How many elements of S are at most i. *)
Rank(S, i) == Cardinality({k \in S : k <= i})

(* Two numbers of a finite set never have the same rank, so every rank up  *)
(* to the size of the set is taken.                                        *)
LEMMA RanksDiffer ==
  ASSUME NEW S \in SUBSET Nat, IsFiniteSet(S)
  PROVE  /\ \A i \in S : Rank(S, i) \in 1 .. Cardinality(S)
         /\ \A i, k \in S : Rank(S, i) = Rank(S, k) => i = k
         /\ \A j \in 1 .. Cardinality(S) : \E i \in S : Rank(S, i) = j
<1> DEFINE Below(i) == {k \in S : k <= i}
<1>1. \A i \in S : IsFiniteSet(Below(i)) /\ Cardinality(Below(i)) <= Cardinality(S)
  BY FS_Subset
<1>2. \A i \in S : Cardinality(Below(i)) \in Nat /\ Cardinality(Below(i)) # 0
  <2> TAKE i \in S
  <2>1. i \in Below(i)
    OBVIOUS
  <2> QED
    BY <1>1, <2>1, FS_CardinalityType, FS_EmptySet
<1>3. Cardinality(S) \in Nat
  BY FS_CardinalityType
<1>4. \A i \in S : Rank(S, i) \in 1 .. Cardinality(S)
  BY <1>1, <1>2, <1>3 DEF Rank
<1>5. ASSUME NEW i \in S, NEW k \in S, i < k
      PROVE  Rank(S, i) # Rank(S, k)
  <2>1. Below(i) \in SUBSET Below(k) /\ k \in Below(k) /\ k \notin Below(i)
    <3>1. \A x \in S : x \in Nat
      OBVIOUS
    <3>2. \A x \in S : x <= i => x <= k
      BY <1>5, <3>1
    <3>3. k <= k /\ ~(k <= i)
      BY <1>5, <3>1
    <3> QED
      BY <3>2, <3>3
  <2> HIDE DEF Below
  <2>2. Below(i) # Below(k)
    BY <2>1
  <2>3. Cardinality(Below(k)) # Cardinality(Below(i))
    BY <1>1, <2>1, <2>2, FS_Subset
  <2> QED
    BY <2>3 DEF Rank, Below
<1>6. \A i, k \in S : Rank(S, i) = Rank(S, k) => i = k
  <2>1. \A i, k \in S : i < k \/ k < i \/ i = k
    OBVIOUS
  <2> QED
    BY <1>5, <2>1
<1>7. \A j \in 1 .. Cardinality(S) : \E i \in S : Rank(S, i) = j
  <2> DEFINE f == [i \in S |-> Rank(S, i)]
  <2>1. f \in Injection(S, 1 .. Cardinality(S))
    BY <1>4, <1>6 DEF Injection, IsInjective
  <2>2. IsFiniteSet(1 .. Cardinality(S)) /\ Cardinality(1 .. Cardinality(S)) = Cardinality(S)
    <3>1. IsFiniteSet(1 .. Cardinality(S))
          /\ Cardinality(1 .. Cardinality(S)) = IF 1 > Cardinality(S) THEN 0 ELSE Cardinality(S) - 1 + 1
      BY <1>3, FS_Interval
    <3> QED
      BY <1>3, <3>1
  <2>3. f \in Surjection(S, 1 .. Cardinality(S))
    <3> HIDE DEF f
    <3> QED
      BY <2>1, <2>2, FS_Injection
  <2> QED
    BY <2>3 DEF Surjection
<1> QED
  BY <1>4, <1>6, <1>7

(* InOrder lists each element of a finite set of naturals exactly once. *)
LEMMA InOrderLists ==
  ASSUME NEW S \in SUBSET Nat, IsFiniteSet(S)
  PROVE  /\ Cardinality(S) \in Nat
         /\ InOrder(S) \in [1 .. Cardinality(S) -> S]
         /\ \A j, l \in 1 .. Cardinality(S) : InOrder(S)[j] = InOrder(S)[l] => j = l
         /\ \A i \in S : \E j \in 1 .. Cardinality(S) : InOrder(S)[j] = i
<1>1. Cardinality(S) \in Nat
  BY FS_CardinalityType
<1>2. \A j \in 1 .. Cardinality(S) : InOrder(S)[j] \in S /\ Rank(S, InOrder(S)[j]) = j
  <2> TAKE j \in 1 .. Cardinality(S)
  <2>1. InOrder(S)[j] = CHOOSE i \in S : Rank(S, i) = j
    BY DEF InOrder, Rank
  <2>2. \E i \in S : Rank(S, i) = j
    BY RanksDiffer
  <2> QED
    BY <2>1, <2>2
<1>3. InOrder(S) \in [1 .. Cardinality(S) -> S]
  BY <1>2 DEF InOrder
<1>4. \A j, l \in 1 .. Cardinality(S) : InOrder(S)[j] = InOrder(S)[l] => j = l
  BY <1>2
<1>5. \A i \in S : \E j \in 1 .. Cardinality(S) : InOrder(S)[j] = i
  <2> TAKE i \in S
  <2>1. Rank(S, i) \in 1 .. Cardinality(S)
    BY RanksDiffer
  <2>2. InOrder(S)[Rank(S, i)] \in S /\ Rank(S, InOrder(S)[Rank(S, i)]) = Rank(S, i)
    BY <1>2, <2>1
  <2>3. InOrder(S)[Rank(S, i)] = i
    <3>1. \A k \in S : Rank(S, k) = Rank(S, i) => k = i
      BY RanksDiffer
    <3> QED
      BY <2>2, <3>1
  <2> QED
    BY <2>1, <2>3
<1> QED
  BY <1>1, <1>3, <1>4, <1>5

(* No repetition, as PriorityOK has it of the list. *)
Once(p) == \A k, l \in DOMAIN p : p[k] = p[l] => k = l

(* What the seek, the retry and the pick make of a list of integers is one *)
(* again, and repeats nothing if the list before did not.                  *)
LEMMA AddToWindowOnce ==
  ASSUME NEW p \in Seq(Int), NEW i \in Int
  PROVE  AddToWindow(p, i) \in Seq(Int) /\ (Once(p) => Once(AddToWindow(p, i)))
<1>1. CASE \E k \in DOMAIN p : p[k] = i
  BY <1>1 DEF AddToWindow
<1>2. CASE ~\E k \in DOMAIN p : p[k] = i
  <2> DEFINE q == Append(p, i)
  <2>1. q \in Seq(Int) /\ Len(q) = Len(p) + 1 /\ Len(p) \in Nat
    OBVIOUS
  <2>2. q[Len(p) + 1] = i /\ \A k \in 1 .. Len(p) : k \in DOMAIN p /\ q[k] = p[k]
    OBVIOUS
  <2>3. Once(p) => \A k, l \in 1 .. Len(q) : q[k] = q[l] => k = l
    <3> HIDE DEF q
    <3> SUFFICES ASSUME Once(p), NEW k \in 1 .. Len(q), NEW l \in 1 .. Len(q)
                 PROVE  q[k] = q[l] => k = l
      OBVIOUS
    <3>1. (k \in 1 .. Len(p) \/ k = Len(p) + 1) /\ (l \in 1 .. Len(p) \/ l = Len(p) + 1)
      BY <2>1
    <3> QED
      BY <1>2, <2>2, <3>1 DEF Once
  <2> QED
    BY <1>2, <2>1, <2>3 DEF AddToWindow, Once
<1> QED
  BY <1>1, <1>2

LEMMA AppendWindowOnce ==
  ASSUME NEW p \in Seq(Int), NEW i \in Int
  PROVE  AppendWindow(p, i) \in Seq(Int) /\ (Once(p) => Once(AppendWindow(p, i)))
<1>1. i + 1 \in Int /\ i + 2 \in Int
  OBVIOUS
<1>2. AddToWindow(p, i) \in Seq(Int) /\ (Once(p) => Once(AddToWindow(p, i)))
  BY AddToWindowOnce
<1>3. /\ AddToWindow(AddToWindow(p, i), i + 1) \in Seq(Int)
      /\ Once(p) => Once(AddToWindow(AddToWindow(p, i), i + 1))
  BY <1>1, <1>2, AddToWindowOnce
<1> QED
  BY <1>1, <1>3, AddToWindowOnce DEF AppendWindow

LEMMA InsertFirstOnce ==
  ASSUME NEW p \in Seq(Int), NEW i \in Int
  PROVE  InsertFirst(p, i) \in Seq(Int) /\ (Once(p) => Once(InsertFirst(p, i)))
<1>1. CASE \E k \in DOMAIN p : p[k] = i
  BY <1>1 DEF InsertFirst
<1>2. CASE ~\E k \in DOMAIN p : p[k] = i
  <2> DEFINE q == <<i>> \o p
  <2>1. q \in Seq(Int) /\ Len(q) = Len(p) + 1 /\ Len(p) \in Nat
    OBVIOUS
  <2>2. q[1] = i /\ \A k \in 2 .. Len(q) : k - 1 \in DOMAIN p /\ q[k] = p[k - 1]
    OBVIOUS
  <2>3. Once(p) => \A k, l \in 1 .. Len(q) : q[k] = q[l] => k = l
    <3> HIDE DEF q
    <3> SUFFICES ASSUME Once(p), NEW k \in 1 .. Len(q), NEW l \in 1 .. Len(q)
                 PROVE  q[k] = q[l] => k = l
      OBVIOUS
    <3>1. CASE k = 1 \/ l = 1
      BY <1>2, <2>1, <2>2, <3>1
    <3>2. CASE k # 1 /\ l # 1
      <4>1. k \in 2 .. Len(q) /\ l \in 2 .. Len(q)
        BY <2>1, <3>2
      <4>2. q[k] = q[l] => k - 1 = l - 1
        BY <2>2, <4>1 DEF Once
      <4> QED
        BY <4>1, <4>2
    <3> QED
      BY <3>1, <3>2
  <2> QED
    BY <1>2, <2>1, <2>3 DEF InsertFirst, Once
<1> QED
  BY <1>1, <1>2

LEMMA ForgetListedOnce ==
  ASSUME NEW p \in Seq(Int), NEW pending
  PROVE  ForgetListed(p, pending) \in Seq(Int) /\ (Once(p) => Once(ForgetListed(p, pending)))
<1> DEFINE K == {k \in DOMAIN p : p[k] \notin pending}
           kept == InOrder(K)
           n == Cardinality(K)
<1>1. K \in SUBSET Nat /\ K \subseteq DOMAIN p /\ IsFiniteSet(K)
  <2>1. DOMAIN p = 1 .. Len(p) /\ Len(p) \in Nat
    OBVIOUS
  <2>2. IsFiniteSet(1 .. Len(p))
    BY <2>1, FS_Interval
  <2> QED
    BY <2>1, <2>2, FS_Subset
<1>2. /\ n \in Nat
      /\ kept \in [1 .. n -> K]
      /\ \A j, l \in 1 .. n : kept[j] = kept[l] => j = l
  <2> HIDE DEF K
  <2> QED
    BY <1>1, InOrderLists
<1>3. ForgetListed(p, pending) = [j \in 1 .. n |-> p[kept[j]]]
  BY <1>2 DEF ForgetListed
<1> HIDE DEF K, kept, n
<1>4. \A j \in 1 .. n : kept[j] \in DOMAIN p /\ p[kept[j]] \in Int
  <2>1. \A k \in DOMAIN p : p[k] \in Int
    BY ElementOfSeq
  <2> QED
    BY <1>1, <1>2, <2>1
<1>5. [j \in 1 .. n |-> p[kept[j]]] \in Seq(Int)
  BY <1>2, <1>4
<1>6. Once(p) => \A j, l \in 1 .. n : p[kept[j]] = p[kept[l]] => j = l
  BY <1>2, <1>4 DEF Once
<1> QED
  BY <1>3, <1>5, <1>6 DEF Once

-----------------------------------------------------------------------------
(* The invariant is inductive *)

LEMMA InitInvariant == Init => IInv
BY OpsAssumption, BatchIsIndex, IdleIsCall
   DEF Init, Idle, IInv, TypeOK, RowsTogether, WorkerReads, TransactionIsolated, CallsHold,
       HoldsVideo, LinesFollowBatches, CompletedVideoHasNoFailure, RetryIsRedone, Split,
       InTransaction, WorkerPc, VideoStatus

(* Every step keeps the types. *)
LEMMA TypeStep ==
  ASSUME IInv, [Next]_vars
  PROVE  TypeOK'
<1> USE DEF IInv, TypeOK, WorkerPc, InTransaction
<1>1. CASE UNCHANGED vars
  BY <1>1 DEF vars, rows, worker
<1>2. CASE WorkerStep
  <2>1. CASE PrepareMissing
    BY <2>1 DEF PrepareMissing, Moves, Step, rows
  <2>2. CASE PrepareKnown
    BY <2>2 DEF PrepareKnown, Split, Step, CreateMissing
  <2>3. CASE PrepareSource
    BY <2>3 DEF PrepareSource, Split, Step, rows
  <2>4. CASE SourceReady
    BY <2>4 DEF SourceReady, Step, CreateMissing
  <2>5. CASE SourceUnavailable
    BY <2>5 DEF SourceUnavailable, PreparationFailed, Step, rows
  <2>6. CASE CloseWorker
    BY <2>6 DEF CloseWorker, Moves, Step, rows
  <2>7. CASE NextBatch
    BY <2>7 DEF NextBatch, PendingBatches, rows
  <2>8. CASE PickBatch
    BY <2>8, FirstInOrderPending, ForgetListedOnce DEF PickBatch, Step, rows, WorkerReads
  <2>9. CASE LoadBatch
    BY <2>9 DEF LoadBatch, rows, RowsTogether, Split
  <2>10. CASE MarkProcessing
    BY <2>10 DEF MarkProcessing, rows
  <2>11. CASE PublishBatchProgress
    BY <2>11 DEF PublishBatchProgress, Moves, Step, rows
  <2>12. CASE TranslateBatch
    BY <2>12 DEF TranslateBatch, Moves, Step, rows
  <2>13. CASE TranslateFails
    BY <2>13 DEF TranslateFails, Moves, Step, rows
  <2>14. CASE SaveBatch
    BY <2>14 DEF SaveBatch, Step, OthersCompleted, rows
  <2>15. CASE CommitBatch
    <3>1. batch' \in [Batch -> {"none", "pending", "completed", "failed"}]
      BY <2>15 DEF CommitBatch
    <3>2. lines' \in [Batch -> {"none", "raw", "processed", "failed"}]
      BY <2>15 DEF CommitBatch
    <3>3. video' \in VideoStatus \cup {"none"}
      BY <2>15 DEF CommitBatch, VideoStatus
    <3> QED
      BY <2>15, <3>1, <3>2, <3>3 DEF CommitBatch, Step
  <2>16. CASE CommitAborted
    BY <2>16 DEF CommitAborted, CompletesVideo, Step, rows
  <2>17. CASE ReloadBatch
    BY <2>17 DEF ReloadBatch, Moves, Step, rows
  <2>18. CASE ReloadFails
    BY <2>18 DEF ReloadFails, Moves, Step, rows
  <2>19. CASE MarkFailed
    <3>1. CASE wgone
      BY <2>19, <3>1 DEF MarkFailed, Step, rows
    <3>2. CASE ~wgone
      BY <2>19, <3>2 DEF MarkFailed, Step, VideoStatus
    <3> QED
      BY <3>1, <3>2
  <2>20. CASE MarkFailedAborted
    BY <2>20 DEF MarkFailedAborted, Moves, Step, rows
  <2>21. CASE ReportProgress
    BY <2>21 DEF ReportProgress, Moves, Step, rows
  <2>22. CASE DrainWorker
    BY <2>22 DEF DrainWorker, Moves, Step, rows
  <2> QED
    BY <1>2, <2>1, <2>2, <2>3, <2>4, <2>5, <2>6, <2>7, <2>8, <2>9, <2>10, <2>11, <2>12,
       <2>13, <2>14, <2>15, <2>16, <2>17, <2>18, <2>19, <2>20, <2>21, <2>22 DEF WorkerStep
<1>3. CASE ClassifyTopics
  BY <1>3 DEF ClassifyTopics, rows
<1>4. CASE Restart
  <2>1. call' \in [Callers -> Call]
    BY <1>4, IdleIsCall DEF Restart
  <2>2. priority' \in Seq(Int)
    BY <1>4 DEF Restart
  <2> QED
    BY <1>4, <2>1, <2>2 DEF Restart, rows
<1>5. ASSUME NEW c \in Callers, CallBegins(c)
      PROVE  TypeOK'
  <2>1. CASE ProcessVideo(c)
    BY <2>1, OpsAssumption, BatchIsIndex DEF ProcessVideo, Begin, worker, Call, CallPc,
       VideoStatus, rows
  <2>2. CASE \E i \in Batch : PlaybackPosition(c, i)
    BY <2>2, OpsAssumption, BatchIsIndex DEF PlaybackPosition, Begin, rows, worker, Call,
       CallPc, VideoStatus, rows
  <2>3. CASE \E i \in Retried : RetryBatch(c, i)
    BY <2>3, OpsAssumption, IndexAssumption DEF RetryBatch, Begin, rows, worker, Call,
       CallPc, VideoStatus, rows
  <2>4. CASE DeleteVideo(c)
    BY <2>4, OpsAssumption, BatchIsIndex DEF DeleteVideo, Begin, rows, worker, Call,
       CallPc, VideoStatus, rows
  <2> QED
    BY <1>5, <2>1, <2>2, <2>3, <2>4 DEF CallBegins
<1>6. ASSUME NEW c \in Callers, CallStep(c)
      PROVE  TypeOK'
  <2>1. CASE ImportKnown(c)
    <3>1. call' \in [Callers -> Call] /\ sent' = sent
      BY <2>1, GotoMoves DEF ImportKnown, CallPc, Goto
    <3> QED
      BY <2>1, <3>1 DEF ImportKnown, rows, worker
  <2>2. CASE ImportUnfinished(c)
    <3>1. call' \in [Callers -> Call] /\ sent' = sent
      BY <2>2, GotoMoves DEF ImportUnfinished, CallPc, Goto
    <3> QED
      BY <2>2, <3>1 DEF ImportUnfinished, rows, worker
  <2>3. CASE ReopenVideo(c)
    <3>1. call' \in [Callers -> Call]
      <4>1. CASE Goto(c, "enqueue")
        BY <4>1, GotoMoves DEF CallPc
      <4>2. CASE Return(c)
        BY <4>2, IdleIsCall DEF Return
      <4>3. CASE call' = [call EXCEPT ![c].pc = "enqueue", ![c].seen = "processing"]
        <5> DEFINE k == [call[c] EXCEPT !.pc = "enqueue", !.seen = "processing"]
        <5>1. call[c] \in Call
          OBVIOUS
        <5>2. k \in Call
          BY <5>1 DEF Call, CallPc, VideoStatus
        <5>3. call' = [call EXCEPT ![c] = k]
          BY <4>3
        <5> QED
          BY <5>2, <5>3
      <4> QED
        BY <2>3, <4>1, <4>2, <4>3 DEF ReopenVideo
    <3>2. video' \in VideoStatus \cup {"none"}
      BY <2>3 DEF ReopenVideo, VideoStatus
    <3>3. sent' = sent
      BY <2>3 DEF ReopenVideo, Goto, Return
    <3> QED
      BY <2>3, <3>1, <3>2, <3>3 DEF ReopenVideo, worker
  <2>4. CASE ImportEnqueue(c)
    BY <2>4, IdleIsCall DEF ImportEnqueue, Return, worker, EnqueueVideo, rows, Idle, Call,
       CallPc, VideoStatus
  <2>5. CASE PrioritizeBatch(c)
    <3>1. call[c].arg \in Int
      BY DEF Call
    <3>2. priority' \in Seq(Int)
      BY <2>5, <3>1, AppendWindowOnce DEF PrioritizeBatch, EnqueueVideo
    <3>3. call' \in [Callers -> Call]
      BY <2>5, IdleIsCall DEF PrioritizeBatch, Return
    <3> QED
      BY <2>5, <3>2, <3>3 DEF PrioritizeBatch, EnqueueVideo, Return, rows
  <2>6. CASE RetryVideo(c)
    <3>1. call' \in [Callers -> Call]
      <4>1. CASE Goto(c, "retryMark") \/ Goto(c, "retryLocked")
        BY <4>1, GotoMoves DEF CallPc
      <4>2. CASE Return(c)
        BY <4>2, IdleIsCall DEF Return
      <4> QED
        BY <2>6, <4>1, <4>2 DEF RetryVideo
    <3>2. sent' = sent
      BY <2>6 DEF RetryVideo, Goto, Return
    <3> QED
      BY <2>6, <3>1, <3>2 DEF RetryVideo, rows, worker
  <2>7. CASE RetryMark(c)
    BY <2>7, IdleIsCall DEF RetryMark, RetriedRows, BatchRowFree, Goto, worker, Call,
       CallPc, VideoStatus
  <2>8. CASE RetryQueue(c)
    <3>1. call[c].arg \in Int
      BY DEF Call
    <3>2. priority' \in Seq(Int)
      BY <2>8, <3>1, InsertFirstOnce DEF RetryQueue, EnqueueVideo
    <3>3. call' \in [Callers -> Call]
      BY <2>8, IdleIsCall DEF RetryQueue, Return
    <3> QED
      BY <2>8, <3>2, <3>3 DEF RetryQueue, EnqueueVideo, Return, rows
  <2>9. CASE DeleteCascade(c)
    <3>1. call' \in [Callers -> Call]
      <4>1. \A d \in Callers : [call[d] EXCEPT !.gone = TRUE] \in Call
        BY DEF Call
      <4> QED
        BY <2>9, <4>1, IdleIsCall DEF DeleteCascade
    <3> QED
      BY <2>9, <3>1 DEF DeleteCascade
  <2>10. CASE RetryRefused(c)
    BY <2>10, IdleIsCall DEF RetryRefused, Return, rows, worker
  <2> QED
    BY <1>6, <2>1, <2>2, <2>3, <2>4, <2>5, <2>6, <2>7, <2>8, <2>9, <2>10 DEF CallStep
<1>7. ASSUME NEW c \in Callers, DeleteCancelled(c) \/ RetryAborted(c)
      PROVE  TypeOK'
  BY <1>7, IdleIsCall DEF DeleteCancelled, RetryAborted, Return, rows, worker
<1> QED
  BY <1>1, <1>2, <1>3, <1>4, <1>5, <1>6, <1>7 DEF Next

(* Every step keeps the other conjuncts. *)
LEMMA InvariantStep ==
  ASSUME IInv, [Next]_vars, TypeOK'
  PROVE  IInv'
<1> USE DEF IInv, TypeOK, RowsTogether, WorkerReads, TransactionIsolated, CallsHold,
           LinesFollowBatches, CompletedVideoHasNoFailure, RetryIsRedone, Split, InTransaction, HoldsVideo, HoldsRows
<1>1. CASE UNCHANGED vars
  BY <1>1 DEF vars, rows, worker
<1>2. CASE WorkerStep
  <2>1. CASE PrepareMissing
    BY <2>1 DEF PrepareMissing, Moves, Step, rows
  <2>2. CASE PrepareKnown
    BY <2>2 DEF PrepareKnown, Split, Step, CreateMissing
  <2>3. CASE PrepareSource
    BY <2>3 DEF PrepareSource, Split, Step, rows
  <2>4. CASE SourceReady
    BY <2>4 DEF SourceReady, Step, CreateMissing
  <2>5. CASE SourceUnavailable
    BY <2>5 DEF SourceUnavailable, PreparationFailed, Step, rows
  <2>6. CASE CloseWorker
    BY <2>6 DEF CloseWorker, Moves, Step, rows
  <2>7. CASE NextBatch
    BY <2>7 DEF NextBatch, PendingBatches, rows
  <2>8. CASE PickBatch
    BY <2>8, FirstInOrderPending DEF PickBatch, Step, rows
  <2>9. CASE LoadBatch
    BY <2>9 DEF LoadBatch, rows
  <2>10. CASE MarkProcessing
    BY <2>10 DEF MarkProcessing, rows
  <2>11. CASE PublishBatchProgress
    BY <2>11 DEF PublishBatchProgress, Moves, Step, rows
  <2>12. CASE TranslateBatch
    BY <2>12 DEF TranslateBatch, Moves, Step, rows
  <2>13. CASE TranslateFails
    BY <2>13 DEF TranslateFails, Moves, Step, rows
  <2>14. CASE SaveBatch
    BY <2>14 DEF SaveBatch, Step, OthersCompleted, rows
  <2>15. CASE CommitBatch
    BY <2>15 DEF CommitBatch, CompletesVideo, Step
  <2>16. CASE CommitAborted
    BY <2>16 DEF CommitAborted, CompletesVideo, Step, rows
  <2>17. CASE ReloadBatch
    BY <2>17 DEF ReloadBatch, Moves, Step, rows
  <2>18. CASE ReloadFails
    BY <2>18 DEF ReloadFails, Moves, Step, rows
  <2>19. CASE MarkFailed
    BY <2>19 DEF MarkFailed, Step, rows
  <2>20. CASE MarkFailedAborted
    BY <2>20 DEF MarkFailedAborted, Moves, Step, rows
  <2>21. CASE ReportProgress
    BY <2>21 DEF ReportProgress, Moves, Step, rows
  <2>22. CASE DrainWorker
    BY <2>22 DEF DrainWorker, Moves, Step, rows
  <2> QED
    BY <1>2, <2>1, <2>2, <2>3, <2>4, <2>5, <2>6, <2>7, <2>8, <2>9, <2>10, <2>11, <2>12,
       <2>13, <2>14, <2>15, <2>16, <2>17, <2>18, <2>19, <2>20, <2>21, <2>22 DEF WorkerStep
<1>3. CASE ClassifyTopics
  BY <1>3 DEF ClassifyTopics, rows
<1>4. CASE Restart
  BY <1>4 DEF Restart, Idle, rows
<1>5. ASSUME NEW c \in Callers, CallBegins(c)
      PROVE  IInv'
  <2>1. CASE ProcessVideo(c)
    BY <2>1, OpsAssumption DEF ProcessVideo, VideoRowFree, Begin, worker, rows, worker
  <2>2. CASE \E i \in Batch : PlaybackPosition(c, i)
    BY <2>2, OpsAssumption DEF PlaybackPosition, Begin, rows, worker, rows, worker
  <2>3. CASE \E i \in Retried : RetryBatch(c, i)
    BY <2>3, OpsAssumption DEF RetryBatch, Begin, rows, worker, rows, worker
  <2>4. CASE DeleteVideo(c)
    BY <2>4, OpsAssumption DEF DeleteVideo, VideoRowFree, Begin, rows, worker, rows,
       worker
  <2> QED
    BY <1>5, <2>1, <2>2, <2>3, <2>4 DEF CallBegins
<1>6. ASSUME NEW c \in Callers, CallStep(c)
      PROVE  IInv'
  <2>1. CASE ImportKnown(c)
    BY <2>1 DEF ImportKnown, Goto, rows, worker
  <2>2. CASE ImportUnfinished(c)
    BY <2>2 DEF ImportUnfinished, Goto, rows, worker
  <2>3. CASE ReopenVideo(c)
    <3>1. UNCHANGED <<batch, lines, worker, redo>>
      BY <2>3 DEF ReopenVideo
    <3>2. video' \in {video, "processing"} /\ (video = "none" => video' = "none")
      BY <2>3 DEF ReopenVideo
    <3>3. /\ \A d \in Callers : d # c => call'[d] = call[d]
          /\ call'[c].pc \in {"enqueue", "idle"}
      <4>1. CASE Goto(c, "enqueue")
        BY <4>1, GotoMoves DEF CallPc
      <4>2. CASE Return(c)
        BY <4>2 DEF Return, Idle
      <4>3. CASE call' = [call EXCEPT ![c].pc = "enqueue", ![c].seen = "processing"]
        <5> DEFINE k == [call[c] EXCEPT !.pc = "enqueue", !.seen = "processing"]
        <5>1. call[c] \in Call
          OBVIOUS
        <5>2. k.pc = "enqueue"
          BY <5>1 DEF Call
        <5>3. call' = [call EXCEPT ![c] = k]
          BY <4>3
        <5> QED
          BY <5>2, <5>3
      <4> QED
        BY <2>3, <4>1, <4>2, <4>3 DEF ReopenVideo
    <3>4. CallsHold'
      <4>1. \A d \in Callers : HoldsVideo(d)' => d # c /\ HoldsVideo(d)
        BY <3>3
      <4>2. \A d \in Callers : d # c => call'[d].pc = call[d].pc /\ call'[d].gone = call[d].gone
        BY <3>3
      <4>3. video # "none" => video' # "none"
        BY <3>2
      <4> QED
        BY <3>3, <4>1, <4>2, <4>3
    <3> QED
      BY <3>1, <3>2, <3>4 DEF worker
  <2>4. CASE ImportEnqueue(c)
    BY <2>4 DEF ImportEnqueue, Return, worker, EnqueueVideo, rows, Idle
  <2>5. CASE PrioritizeBatch(c)
    BY <2>5 DEF PrioritizeBatch, EnqueueVideo, Return, rows, Idle
  <2>6. CASE RetryVideo(c)
    <3>1. CallsHold'
      <4>1. CASE call[c].seen = "processing"
        <5>1. Goto(c, "retryMark")
          BY <2>6, <4>1 DEF RetryVideo
        <5> QED
          BY <2>6, <5>1, GotoMoves DEF RetryVideo, CallPc, rows
      <4>2. CASE call[c].seen # "processing" /\ call[c].gone
        BY <2>6, <4>2 DEF RetryVideo, Return, Idle, rows
      <4>3. CASE call[c].seen # "processing" /\ ~call[c].gone
        <5>1. Goto(c, "retryLocked") /\ call[c].pc = "retryVideo" /\ VideoRowFree
          BY <2>6, <4>3 DEF RetryVideo
        <5> QED
          BY <2>6, <4>3, <5>1, GotoMoves DEF RetryVideo, VideoRowFree, CallPc, rows
      <4> QED
        BY <4>1, <4>2, <4>3
    <3> QED
      BY <2>6, <3>1 DEF RetryVideo, rows, worker
  <2>7. CASE RetryMark(c)
    BY <2>7 DEF RetryMark, RetriedRows, BatchRowFree, Goto, worker
  <2>8. CASE RetryQueue(c)
    BY <2>8 DEF RetryQueue, EnqueueVideo, Return, rows, Idle
  <2>9. CASE DeleteCascade(c)
    <3>1. ~(wpc \in InTransaction)
      BY <2>9 DEF DeleteCascade, BatchRowFree
    <3>2. RowsTogether' /\ LinesFollowBatches' /\ CompletedVideoHasNoFailure' /\ RetryIsRedone'
      BY <2>9 DEF DeleteCascade
    <3>3. WorkerReads' /\ TransactionIsolated'
      BY <2>9, <3>1 DEF DeleteCascade
    <3>4. CallsHold'
      <4>1. \A d \in Callers : ~HoldsVideo(d)'
        BY <2>9 DEF DeleteCascade, Idle
      <4>2. \A d \in Callers : call'[d].pc # "idle" => call'[d].gone
        BY <2>9 DEF DeleteCascade, Idle
      <4> QED
        BY <4>1, <4>2
    <3> QED
      BY <3>2, <3>3, <3>4
  <2>10. CASE RetryRefused(c)
    BY <2>10 DEF RetryRefused, Return, Idle, rows, worker
  <2> QED
    BY <1>6, <2>1, <2>2, <2>3, <2>4, <2>5, <2>6, <2>7, <2>8, <2>9, <2>10 DEF CallStep
<1>7. ASSUME NEW c \in Callers, DeleteCancelled(c) \/ RetryAborted(c)
      PROVE  IInv'
  <2>1. /\ call' = [call EXCEPT ![c] = Idle]
        /\ UNCHANGED <<video, batch, lines, wpc, wpending, wbatch, wseen, wall, wgone, redo>>
    BY <1>7 DEF DeleteCancelled, RetryAborted, Return, rows, worker
  <2>2. CallsHold'
    BY <2>1 DEF Idle
  <2> QED
    BY <2>1, <2>2
<1> QED
  BY <1>1, <1>2, <1>3, <1>4, <1>5, <1>6, <1>7 DEF Next

THEOREM InvariantHolds == Spec => []IInv
<1>1. IInv /\ [Next]_vars => IInv'
  BY TypeStep, InvariantStep
<1> QED
  BY InitInvariant, <1>1, PTL DEF Spec

-----------------------------------------------------------------------------
(* The properties the runs check *)

(* Every variable keeps its type. *)
THEOREM TypeCorrect == Spec => []TypeOK
<1>1. IInv => TypeOK
  BY DEF IInv
<1> QED
  BY InvariantHolds, <1>1, PTL

(* The rows of a batch and of its lines never tell different stories. *)
THEOREM LinesAgree == Spec => []LinesFollowBatches
<1>1. IInv => LinesFollowBatches
  BY DEF IInv
<1> QED
  BY InvariantHolds, <1>1, PTL

(* A video is never listed as completed with a failed or missing batch. *)
THEOREM CompletedIsWhole == Spec => []CompletedVideoHasNoFailure
<1>1. IInv => CompletedVideoHasNoFailure
  BY DEF IInv
<1> QED
  BY InvariantHolds, <1>1, PTL

(* A retried batch is never reported completed by the attempt before. *)
THEOREM RetryNotOvertaken == Spec => []RetryIsRedone
<1>1. IInv => RetryIsRedone
  BY DEF IInv
<1> QED
  BY InvariantHolds, <1>1, PTL

-----------------------------------------------------------------------------
(* The list and the seeks *)

LEMMA InitPriority == Init => PriorityOK
BY DEF Init, PriorityOK

(* The list changes in four ways only. *)
LEMMA PriorityStep ==
  ASSUME IInv, PriorityOK, [Next]_vars
  PROVE  PriorityOK'
<1>1. Once(priority)
  BY DEF PriorityOK, Once
<1>11. priority \in Seq(Int) /\ \A c \in Callers : call[c].arg \in Int
  BY DEF IInv, TypeOK, Call
<1>2. SUFFICES Once(priority')
  BY <1>2 DEF PriorityOK, Once
<1>3. CASE priority' = priority
  BY <1>1, <1>3
<1>4. CASE PickBatch
  BY <1>1, <1>11, <1>4, ForgetListedOnce DEF PickBatch
<1>5. CASE Restart
  BY <1>5 DEF Restart, Once
<1>6. ASSUME NEW c \in Callers, PrioritizeBatch(c)
      PROVE  Once(priority')
  <2>1. priority' = AppendWindow(priority, call[c].arg)
    BY <1>6 DEF PrioritizeBatch, EnqueueVideo
  <2> QED
    BY <1>1, <1>11, <2>1, AppendWindowOnce
<1>7. ASSUME NEW c \in Callers, RetryQueue(c)
      PROVE  Once(priority')
  <2>1. priority' = InsertFirst(priority, call[c].arg)
    BY <1>7 DEF RetryQueue, EnqueueVideo
  <2> QED
    BY <1>1, <1>11, <2>1, InsertFirstOnce
<1>8. CASE WorkerStep /\ ~PickBatch
  <2>1. priority' = priority
    BY <1>8 DEF WorkerStep, PrepareMissing, PrepareKnown, PrepareSource, SourceReady,
       SourceUnavailable, CloseWorker, NextBatch, LoadBatch, MarkProcessing,
       PublishBatchProgress, TranslateBatch, TranslateFails, SaveBatch, CommitBatch,
       CommitAborted, ReloadBatch, ReloadFails, MarkFailed, MarkFailedAborted,
       ReportProgress, DrainWorker, Moves
  <2> QED
    BY <1>3, <2>1
<1>9. ASSUME NEW c \in Callers,
             CallBegins(c) \/ (CallStep(c) /\ ~PrioritizeBatch(c) /\ ~RetryQueue(c))
               \/ DeleteCancelled(c) \/ RetryAborted(c)
      PROVE  Once(priority')
  <2>1. priority' = priority
    BY <1>9 DEF CallBegins, ProcessVideo, PlaybackPosition, RetryBatch, DeleteVideo, CallStep,
       ImportKnown, ImportUnfinished, ReopenVideo, ImportEnqueue, EnqueueVideo, RetryVideo,
       RetryMark, RetryRefused, DeleteCascade, DeleteCancelled, RetryAborted
  <2> QED
    BY <1>3, <2>1
<1>10. CASE UNCHANGED vars \/ ClassifyTopics
  BY <1>3, <1>10 DEF vars, ClassifyTopics
<1> QED
  BY <1>4, <1>5, <1>6, <1>7, <1>8, <1>9, <1>10 DEF Next

(* The in-memory list never holds an index twice, whatever seeks, retries  *)
(* and picks come together and whatever integers the retries name.         *)
THEOREM PriorityDistinct == Spec => []PriorityOK
<1>1. IInv /\ PriorityOK /\ [Next]_vars => PriorityOK'
  BY PriorityStep
<1> QED
  BY InitPriority, InvariantHolds, <1>1, PTL DEF Spec

-----------------------------------------------------------------------------
(* The queue implements the ledger *)

LEMMA InitImplements == Init => Ledger!Init
BY DEF Init, Ledger!Init

(* Every step commits at most one entry of the ledger. *)
LEMMA StepImplements ==
  ASSUME IInv, [Next]_vars
  PROVE  [Ledger!Next]_<<video, batch>>
<1> USE DEF IInv
<1>1. CASE UNCHANGED vars
  BY <1>1 DEF vars, rows
<1>2. CASE WorkerStep
  <2>1. CASE PrepareKnown
    <3>1. UNCHANGED <<video, batch>>
      BY <2>1 DEF PrepareKnown, CreateMissing, RowsTogether, TypeOK
    <3> QED
      BY <3>1
  <2>2. CASE SourceReady
    <3>1. video # "none" /\ \A i \in Batch : batch[i] = "none"
      BY <2>2 DEF SourceReady, Step, WorkerReads, Split
    <3>2. Ledger!Split
      BY <2>2, <3>1 DEF SourceReady, CreateMissing, Ledger!Split
    <3> QED
      BY <3>2 DEF Ledger!Next
  <2>3. CASE CommitBatch
    <3>1. batch[wbatch] = "pending"
      BY <2>3 DEF CommitBatch, Step, TransactionIsolated, InTransaction
    <3>2. CompletesVideo => Ledger!NoFailure(batch')
      BY <2>3 DEF CommitBatch, CompletesVideo, Step, TransactionIsolated, InTransaction,
         TypeOK, Ledger!NoFailure
    <3>3. Ledger!Succeed(wbatch)
      BY <2>3, <3>1, <3>2 DEF CommitBatch, Ledger!Succeed
    <3> QED
      BY <3>3 DEF Ledger!Next, TypeOK
  <2>4. CASE MarkFailed
    <3>1. CASE wgone
      BY <2>4, <3>1 DEF MarkFailed, rows
    <3>2. CASE ~wgone
      <4>1. Ledger!Fail(wbatch)
        BY <2>4, <3>2 DEF MarkFailed, Step, WorkerReads, Ledger!Fail
      <4> QED
        BY <4>1 DEF Ledger!Next, TypeOK
    <3> QED
      BY <3>1, <3>2
  <2>5. CASE PrepareMissing \/ CloseWorker \/ PublishBatchProgress \/ TranslateBatch
             \/ TranslateFails \/ ReloadBatch \/ ReloadFails \/ MarkFailedAborted
             \/ ReportProgress \/ DrainWorker
    BY <2>5 DEF PrepareMissing, CloseWorker, PublishBatchProgress, TranslateBatch,
       TranslateFails, ReloadBatch, ReloadFails, MarkFailedAborted, ReportProgress,
       DrainWorker, Moves, rows
  <2>6. CASE PrepareSource \/ SourceUnavailable \/ NextBatch \/ PickBatch \/ LoadBatch
             \/ MarkProcessing \/ SaveBatch \/ CommitAborted
    BY <2>6 DEF PrepareSource, SourceUnavailable, PreparationFailed, NextBatch, PickBatch,
       LoadBatch, MarkProcessing, SaveBatch, CommitAborted, rows
  <2> QED
    BY <1>2, <2>1, <2>2, <2>3, <2>4, <2>5, <2>6 DEF WorkerStep
<1>3. CASE ClassifyTopics \/ Restart
  BY <1>3 DEF ClassifyTopics, Restart, rows
<1>4. ASSUME NEW c \in Callers, CallBegins(c)
      PROVE  [Ledger!Next]_<<video, batch>>
  <2>1. CASE ProcessVideo(c)
    <3>1. CASE video = "none"
      BY <2>1, <3>1 DEF ProcessVideo, Ledger!Next, Ledger!Admit
    <3>2. CASE video # "none"
      BY <2>1, <3>2 DEF ProcessVideo
    <3> QED
      BY <3>1, <3>2
  <2>2. CASE ~ProcessVideo(c)
    BY <1>4, <2>2 DEF CallBegins, PlaybackPosition, RetryBatch, DeleteVideo, rows
  <2> QED
    BY <2>1, <2>2
<1>5. ASSUME NEW c \in Callers, CallStep(c)
      PROVE  [Ledger!Next]_<<video, batch>>
  <2>1. CASE ReopenVideo(c)
    <3>1. UNCHANGED <<video, batch>> \/ Ledger!Reopen
      BY <2>1 DEF ReopenVideo, CallsHold, Ledger!Reopen
    <3> QED
      BY <3>1 DEF Ledger!Next
  <2>2. CASE RetryMark(c)
    <3>1. video' \in {video, "processing"}
      BY <2>2 DEF RetryMark
    <3>2. CASE RetriedRows(c) = {}
      <4>1. batch' = batch
        BY <2>2, <3>2 DEF RetryMark, TypeOK
      <4>2. video' = video \/ video # "none"
        BY <2>2 DEF RetryMark, CallsHold, HoldsVideo
      <4> QED
        BY <3>1, <4>1, <4>2 DEF Ledger!Next, Ledger!Reopen
    <3>3. CASE RetriedRows(c) # {}
      <4>1. PICK i \in Batch : RetriedRows(c) = {i} /\ batch[i] # "none"
        BY <3>3 DEF RetriedRows
      <4>2. batch' = [batch EXCEPT ![i] = "pending"]
        BY <2>2, <4>1 DEF RetryMark, TypeOK
      <4>3. Ledger!Retry(i)
        BY <3>1, <4>1, <4>2 DEF Ledger!Retry
      <4> QED
        BY <4>3 DEF Ledger!Next
    <3> QED
      BY <3>2, <3>3
  <2>3. CASE DeleteCascade(c)
    <3>1. Ledger!Delete
      BY <2>3 DEF DeleteCascade, CallsHold, HoldsVideo, Ledger!Delete
    <3> QED
      BY <3>1 DEF Ledger!Next
  <2>4. CASE ImportKnown(c) \/ ImportUnfinished(c) \/ ImportEnqueue(c) \/ PrioritizeBatch(c)
             \/ RetryVideo(c) \/ RetryRefused(c) \/ RetryQueue(c)
    BY <2>4 DEF ImportKnown, ImportUnfinished, ImportEnqueue, PrioritizeBatch, RetryVideo,
       RetryRefused, RetryQueue, rows
  <2> QED
    BY <1>5, <2>1, <2>2, <2>3, <2>4 DEF CallStep
<1>6. ASSUME NEW c \in Callers, DeleteCancelled(c) \/ RetryAborted(c)
      PROVE  [Ledger!Next]_<<video, batch>>
  BY <1>6 DEF DeleteCancelled, RetryAborted, rows
<1> QED
  BY <1>1, <1>2, <1>3, <1>4, <1>5, <1>6 DEF Next

(* Whatever the order of calls, failures, deletes and restarts, the rows of *)
(* a video only ever change by the commits of BatchLedger.                  *)
THEOREM QueueImplementsLedger == Spec => ImplementsLedger
<1>1. IInv /\ [Next]_vars => [Ledger!Next]_(Ledger!vars)
  BY StepImplements DEF Ledger!vars
<1> QED
  BY InitImplements, InvariantHolds, <1>1, PTL DEF Spec, ImplementsLedger, Ledger!Spec
=============================================================================
