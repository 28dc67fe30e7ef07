--------------------------- MODULE OperationsProofs ---------------------------
(***************************************************************************)
(* Proofs about what runs beside the requests: Release, the deployments    *)
(* and rollbacks, for every set of releases, and Backfill, the metadata of *)
(* the videos, for every number of videos, imports and rows.               *)
(***************************************************************************)
EXTENDS Release, Backfill, FiniteSetTheorems, TLAPS

-----------------------------------------------------------------------------
(* Deployment and rollback.                                                *)

(* A script that met no other one is the only one at work; two of them     *)
(* leave a doubt.                                                          *)
AloneMeansAlone ==
  \A x, y \in Scripts : x # y /\ ~ScriptAt(x, "idle") /\ ~ScriptAt(y, "idle") =>
    ~script[x].alone /\ doubtful

(* After its switch a script that is alone has its release running, even   *)
(* if nobody knows what ran before.                                        *)
Switched(x) == script[x].pc \in {"verify", "recordPrevious", "recordCurrent"}
TargetRuns == \A x \in Scripts : Switched(x) /\ script[x].alone => running = script[x].target

(* Without a doubt a script knows the release on record, and that is what  *)
(* runs until it switches.                                                 *)
KnowsBefore ==
  ~doubtful => \A x \in Scripts : ~ScriptAt(x, "idle") =>
                 /\ script[x].alone /\ script[x].before = current
                 /\ script[x].pc \in {"prepare", "switch"} => running = current

ReleaseInv == ReleaseTypeOK /\ AloneMeansAlone /\ TargetRuns /\ KnowsBefore /\ RunningIsRecorded

USE DEF ScriptAt

(* The inductive invariant holds at first. *)
LEMMA ReleaseEstablishes == ReleaseInit => ReleaseInv
<1> SUFFICES ASSUME ReleaseInit PROVE ReleaseInv  OBVIOUS
<1> USE DEF ReleaseInit
<1>1. ReleaseTypeOK
  <2>1. NoScript \in [pc : ScriptPc, target : Release, before : Release, alone : BOOLEAN]
    BY DEF NoScript, Release, ScriptPc
  <2>2. starts \in 0 .. MaxStarts  BY ReleaseAssumption
  <2>3. doubtful \in BOOLEAN  OBVIOUS
  <2>4. script \in [Scripts -> [pc : ScriptPc, target : Release, before : Release, alone : BOOLEAN]]  BY <2>1
  <2> QED  BY <2>2, <2>3, <2>4 DEF ReleaseTypeOK, Release
<1>2. \A x \in Scripts : ScriptAt(x, "idle")  BY DEF NoScript
<1> QED  BY <1>1, <1>2 DEF ReleaseInv, AloneMeansAlone, TargetRuns, Switched, KnowsBefore, RunningIsRecorded

(* What begins keeps it: a script that is alone has read the release on    *)
(* record.                                                                 *)
LEMMA BeginsKeeps ==
  ASSUME ReleaseInv, NEW x \in Scripts, NEW target \in Release, NEW before \in Release,
         Begins(x, target, before), ~doubtful /\ (\A y \in Scripts : ScriptAt(y, "idle")) => before = current
  PROVE  ReleaseInv'
<1> DEFINE alone == \A y \in Scripts : ScriptAt(y, "idle")
<1>1. /\ script' \in [Scripts -> [pc : ScriptPc, target : Release, before : Release, alone : BOOLEAN]]
      /\ script'[x] = [pc |-> "prepare", target |-> target, before |-> before, alone |-> alone]
      /\ \A y \in Scripts \ {x} : /\ script'[y].pc = script[y].pc
                                  /\ script'[y].target = script[y].target \/ ScriptAt(y, "idle")
                                  /\ script'[y].alone = FALSE \/ ScriptAt(y, "idle")
  BY DEF Begins, ReleaseInv, ReleaseTypeOK, Release, ScriptPc, NoScript
<1>2. doubtful' = (doubtful \/ ~alone) /\ UNCHANGED <<running, current, previous>>  BY DEF Begins
<1>3. ReleaseTypeOK'  BY <1>1, <1>2, ReleaseAssumption DEF Begins, ReleaseInv, ReleaseTypeOK
<1> script'[x].alone <=> alone  BY <1>1
<1>4. AloneMeansAlone'  BY <1>1, <1>2 DEF ReleaseInv, AloneMeansAlone
<1>5. TargetRuns'  BY <1>1, <1>2 DEF ReleaseInv, TargetRuns, Switched
<1>6. KnowsBefore'
  <2> SUFFICES ASSUME ~doubtful' PROVE \A y \in Scripts : ~ScriptAt(y, "idle")' =>
                 /\ script'[y].alone /\ script'[y].before = current'
                 /\ script'[y].pc \in {"prepare", "switch"} => running' = current'
    BY DEF KnowsBefore
  <2>1. ~doubtful /\ alone  BY <1>2
  <2>2. before = current /\ running = current  BY <2>1 DEF ReleaseInv, RunningIsRecorded
  <2> QED  BY <1>1, <1>2, <2>1, <2>2
<1>7. RunningIsRecorded'  BY <1>1 DEF RunningIsRecorded
<1> QED  BY <1>3, <1>4, <1>5, <1>6, <1>7 DEF ReleaseInv

LEMMA DeployKeeps == ReleaseInv /\ StartDeploy => ReleaseInv'
<1> SUFFICES ASSUME ReleaseInv, StartDeploy PROVE ReleaseInv'  OBVIOUS
<1>1. PICK x \in Deployments, r \in Releases : \E before \in ReleasesBefore : Begins(x, r, before)
  BY DEF StartDeploy
<1>2. PICK before \in ReleasesBefore : Begins(x, r, before)  BY <1>1
<1>3. ReleaseTypeOK  BY DEF ReleaseInv
<1>4. before \in Release /\ (~doubtful /\ (\A y \in Scripts : ScriptAt(y, "idle")) => before = current)
  <2>1. CASE current # Nothing  BY <1>2, <1>3, <2>1 DEF ReleasesBefore, ReleaseTypeOK
  <2>2. CASE current = Nothing /\ running # Mixed
    <3>1. before = running  BY <1>2, <2>2 DEF ReleasesBefore
    <3> QED  BY <1>3, <2>2, <3>1 DEF ReleaseTypeOK, ReleaseInv, RunningIsRecorded
  <2>3. CASE current = Nothing /\ running = Mixed
    <3>1. before \in Release  BY <1>2, <2>3 DEF ReleasesBefore
    <3> QED  BY <2>3, <3>1, ReleaseAssumption DEF ReleaseInv, RunningIsRecorded
  <2> QED  BY <2>1, <2>2, <2>3
<1> QED  BY <1>2, <1>4, BeginsKeeps DEF Scripts, Release

LEMMA RollbackKeeps == ReleaseInv /\ StartRollback => ReleaseInv'
<1> SUFFICES ASSUME ReleaseInv, NEW r \in Releases, Begins("rollback", r, current) PROVE ReleaseInv'
  BY DEF StartRollback
<1> current \in Release  BY DEF ReleaseInv, ReleaseTypeOK
<1> QED  BY BeginsKeeps DEF Scripts, Release

(* A script goes to pc; where it ends it forgets what it had. *)
Moves(x, pc) ==
  /\ script' \in [Scripts -> [pc : ScriptPc, target : Release, before : Release, alone : BOOLEAN]]
  /\ script'[x].pc = pc
  /\ pc # "idle" => /\ script'[x].target = script[x].target
                    /\ script'[x].before = script[x].before
                    /\ script'[x].alone = script[x].alone
  /\ \A y \in Scripts \ {x} : script'[y] = script[y]

LEMMA ProceedMoves ==
  ASSUME ReleaseTypeOK, NEW x \in Scripts, NEW pc \in ScriptPc, Proceed(x, pc)
  PROVE  Moves(x, pc)
BY DEF Proceed, Moves, ReleaseTypeOK

LEMMA EndsMoves ==
  ASSUME ReleaseTypeOK, NEW x \in Scripts, Ends(x)
  PROVE  Moves(x, "idle")
<1>1. NoScript \in [pc : ScriptPc, target : Release, before : Release, alone : BOOLEAN] /\ NoScript.pc = "idle"
  BY DEF NoScript, ScriptPc, Release
<1> QED  BY <1>1 DEF Ends, Moves, ReleaseTypeOK

(* What a step of a script must not do to keep the invariant. *)
LEMMA MoveKeeps ==
  ASSUME ReleaseInv, NEW x \in Scripts, NEW pc \in ScriptPc, Moves(x, pc), ~ScriptAt(x, "idle"),
         running' \in Release \cup {Mixed}, current' \in Release, previous' \in Release,
         starts' = starts, doubtful' \in BOOLEAN,
         doubtful => doubtful' \/ pc = "idle",
         pc \in {"verify", "recordPrevious", "recordCurrent"} /\ script[x].alone => running' = script[x].target,
         ~doubtful' /\ pc # "idle" => ~doubtful /\ current' = current,
         ~doubtful' /\ pc \in {"prepare", "switch"} => running' = running /\ ScriptAt(x, "prepare"),
         ~doubtful' /\ pc = "idle" => running' = current' /\ (~doubtful \/ script[x].alone)
  PROVE  ReleaseInv'
<1>1. \A y \in Scripts \ {x} : ~ScriptAt(y, "idle") => doubtful /\ ~script[x].alone /\ ~script[y].alone
  BY DEF ReleaseInv, AloneMeansAlone
<1>2. ReleaseTypeOK'  BY DEF Moves, ReleaseInv, ReleaseTypeOK
<1>3. AloneMeansAlone'  BY <1>1 DEF Moves, ReleaseInv, AloneMeansAlone
<1>4. TargetRuns'  BY <1>1 DEF Moves, TargetRuns, Switched
<1>5. KnowsBefore'
  <2> SUFFICES ASSUME ~doubtful', NEW y \in Scripts, ~ScriptAt(y, "idle")'
               PROVE  /\ script'[y].alone /\ script'[y].before = current'
                      /\ script'[y].pc \in {"prepare", "switch"} => running' = current'
    BY DEF KnowsBefore
  <2>1. CASE y = x
    <3>1. pc # "idle" /\ ~doubtful /\ current' = current  BY <2>1 DEF Moves
    <3>2. script[x].alone /\ script[x].before = current  BY <3>1 DEF ReleaseInv, KnowsBefore
    <3>3. pc \in {"prepare", "switch"} => running' = current'
      BY <3>1 DEF ReleaseInv, KnowsBefore
    <3> QED  BY <2>1, <3>1, <3>2, <3>3 DEF Moves
  <2>2. CASE y # x
    <3>1. ~ScriptAt(y, "idle")  BY <2>2 DEF Moves
    <3> QED  BY <1>1, <2>2, <3>1
  <2> QED  BY <2>1, <2>2
<1>6. RunningIsRecorded'  BY <1>1 DEF Moves, RunningIsRecorded
<1> QED  BY <1>2, <1>3, <1>4, <1>5, <1>6 DEF ReleaseInv

LEMMA PrepareKeeps == ASSUME ReleaseInv, NEW x \in Scripts, Prepare(x) PROVE ReleaseInv'
<1>1. ReleaseTypeOK /\ ~ScriptAt(x, "idle")  BY DEF ReleaseInv, Prepare
<1>2. ~doubtful => script[x].alone /\ running = current  BY <1>1 DEF ReleaseInv, KnowsBefore, Prepare
<1>3. CASE Proceed(x, "switch")
  <2>1. Moves(x, "switch")  BY <1>1, <1>3, ProceedMoves DEF ScriptPc
  <2> QED  BY <1>1, <2>1, MoveKeeps DEF Prepare, ReleaseTypeOK, ScriptPc
<1>4. CASE Ends(x)
  <2>1. Moves(x, "idle")  BY <1>1, <1>4, EndsMoves
  <2> QED  BY <1>1, <1>2, <2>1, MoveKeeps DEF Prepare, ReleaseTypeOK, ScriptPc
<1> QED  BY <1>3, <1>4 DEF Prepare

(* A failure after the switch: only what can be undone leaves no doubt. *)
LEMMA FailsKeeps ==
  ASSUME ReleaseInv, NEW x \in Scripts, SwitchStarted(x), Fails(x),
         running' \in Release \cup {Mixed}, UNCHANGED <<current, previous, starts>>
  PROVE  ReleaseInv'
<1>1. ReleaseTypeOK /\ ~ScriptAt(x, "idle")  BY DEF ReleaseInv, SwitchStarted
<1>2. CASE CanUndo(x)
  <2>1. Proceed(x, "undo") /\ doubtful' = doubtful  BY <1>1, <1>2 DEF Fails, ReleaseTypeOK
  <2>2. Moves(x, "undo")  BY <1>1, <2>1, ProceedMoves DEF ScriptPc
  <2> QED  BY <1>1, <2>1, <2>2, MoveKeeps DEF ReleaseTypeOK, ScriptPc
<1>3. CASE ~CanUndo(x)
  <2>1. Ends(x) /\ doubtful' = TRUE  BY <1>3 DEF Fails
  <2>2. Moves(x, "idle")  BY <1>1, <2>1, EndsMoves
  <2> QED  BY <1>1, <2>1, <2>2, MoveKeeps DEF ReleaseTypeOK, ScriptPc
<1> QED  BY <1>2, <1>3

LEMMA SwitchKeeps == ASSUME ReleaseInv, NEW x \in Scripts, Switch(x) PROVE ReleaseInv'
<1>1. ReleaseTypeOK /\ ~ScriptAt(x, "idle") /\ script[x].target \in Release  BY DEF ReleaseInv, ReleaseTypeOK, Switch
<1>2. CASE running' = script[x].target /\ Proceed(x, "verify") /\ UNCHANGED doubtful
  <2>1. Moves(x, "verify")  BY <1>1, <1>2, ProceedMoves DEF ScriptPc
  <2> QED  BY <1>1, <1>2, <2>1, MoveKeeps DEF Switch, ReleaseTypeOK, ScriptPc
<1>3. CASE running' \in {running, Mixed, script[x].target} /\ Fails(x)
  <2>1. running' \in Release \cup {Mixed}  BY <1>1, <1>3 DEF ReleaseTypeOK
  <2> QED  BY <1>3, <2>1, FailsKeeps DEF Switch, SwitchStarted
<1> QED  BY <1>2, <1>3 DEF Switch

LEMMA VerifyKeeps == ASSUME ReleaseInv, NEW x \in Scripts, Verify(x) PROVE ReleaseInv'
<1>1. ReleaseTypeOK /\ ~ScriptAt(x, "idle")  BY DEF ReleaseInv, Verify
<1>2. script[x].alone => running = script[x].target  BY DEF ReleaseInv, TargetRuns, Switched, Verify
<1>3. CASE Proceed(x, "recordPrevious") /\ UNCHANGED doubtful
  <2>1. Moves(x, "recordPrevious")  BY <1>1, <1>3, ProceedMoves DEF ScriptPc
  <2> QED  BY <1>1, <1>2, <1>3, <2>1, MoveKeeps DEF Verify, ReleaseTypeOK, ScriptPc
<1>4. CASE Fails(x)
  BY <1>1, <1>4, FailsKeeps DEF Verify, SwitchStarted, ReleaseTypeOK
<1> QED  BY <1>3, <1>4 DEF Verify

LEMMA RecordPreviousKeeps == ASSUME ReleaseInv, NEW x \in Scripts, RecordPrevious(x) PROVE ReleaseInv'
<1>1. ReleaseTypeOK /\ ~ScriptAt(x, "idle") /\ script[x].before \in Release
  BY DEF ReleaseInv, ReleaseTypeOK, RecordPrevious
<1>2. script[x].alone => running = script[x].target  BY DEF ReleaseInv, TargetRuns, Switched, RecordPrevious
<1>3. CASE Fails(x) /\ UNCHANGED previous
  BY <1>1, <1>3, FailsKeeps DEF RecordPrevious, SwitchStarted, ReleaseTypeOK
<1>4. CASE ~(Fails(x) /\ UNCHANGED previous)
  <2>1. /\ previous' \in Release /\ Proceed(x, "recordCurrent")
        /\ UNCHANGED <<running, current, starts, doubtful>>
    BY <1>1, <1>4 DEF RecordPrevious, ReleaseTypeOK
  <2>2. Moves(x, "recordCurrent")  BY <1>1, <2>1, ProceedMoves DEF ScriptPc
  <2> QED  BY <1>1, <1>2, <2>1, <2>2, MoveKeeps DEF ReleaseTypeOK, ScriptPc
<1> QED  BY <1>3, <1>4

LEMMA RecordCurrentKeeps == ASSUME ReleaseInv, NEW x \in Scripts, RecordCurrent(x) PROVE ReleaseInv'
<1>1. ReleaseTypeOK /\ ~ScriptAt(x, "idle") /\ script[x].target \in Release
  BY DEF ReleaseInv, ReleaseTypeOK, RecordCurrent
<1>2. script[x].alone => running = script[x].target  BY DEF ReleaseInv, TargetRuns, Switched, RecordCurrent
<1>3. ~doubtful => script[x].alone  BY <1>1 DEF ReleaseInv, KnowsBefore
<1>4. CASE Fails(x) /\ UNCHANGED current
  BY <1>1, <1>4, FailsKeeps DEF RecordCurrent, SwitchStarted, ReleaseTypeOK
<1>5. CASE current' = script[x].target /\ Ends(x) /\ doubtful' = (doubtful /\ ~script[x].alone)
  <2>1. Moves(x, "idle")  BY <1>1, <1>5, EndsMoves
  <2>2. ~doubtful' => script[x].alone /\ running' = current'  BY <1>2, <1>3, <1>5 DEF RecordCurrent
  <2> QED  BY <1>1, <1>5, <2>1, <2>2, MoveKeeps DEF RecordCurrent, ReleaseTypeOK, ScriptPc
<1> QED  BY <1>4, <1>5 DEF RecordCurrent

LEMMA UndoKeeps == ASSUME ReleaseInv, NEW x \in Scripts, Undo(x) PROVE ReleaseInv'
<1>1. ReleaseTypeOK /\ ~ScriptAt(x, "idle") /\ script[x].before \in Release
  BY DEF ReleaseInv, ReleaseTypeOK, Undo
<1>2. ~doubtful => script[x].before = current  BY <1>1 DEF ReleaseInv, KnowsBefore
<1>3. Moves(x, "idle")  BY <1>1, EndsMoves DEF Undo
<1>4. running' \in Release \cup {Mixed} /\ doubtful' \in BOOLEAN /\ (~doubtful' => ~doubtful /\ running' = current')
  BY <1>1, <1>2 DEF Undo, ReleaseTypeOK
<1> QED  BY <1>1, <1>3, <1>4, MoveKeeps DEF Undo, ReleaseTypeOK, ScriptPc

(* A script that is killed while it prepares has touched nothing. *)
LEMMA KilledKeeps == ASSUME ReleaseInv, NEW x \in Scripts, Killed(x) PROVE ReleaseInv'
<1>1. ReleaseTypeOK /\ ~ScriptAt(x, "idle")  BY DEF ReleaseInv, Killed
<1>2. Moves(x, "idle")  BY <1>1, EndsMoves DEF Killed
<1>3. /\ running' \in Release \cup {Mixed} /\ current' \in Release /\ previous' \in Release
      /\ starts' = starts
  BY <1>1 DEF Killed, Torn, ReleaseTypeOK, Release
<1>4. doubtful' = (doubtful \/ ~ScriptAt(x, "prepare"))  BY DEF Killed
<1>5. ~doubtful' => ~doubtful /\ running' = current'
  <2> SUFFICES ASSUME ~doubtful' PROVE ~doubtful /\ running' = current'  OBVIOUS
  <2>1. ~doubtful /\ ScriptAt(x, "prepare")  BY <1>4
  <2>2. running = current  BY <1>1, <2>1 DEF ReleaseInv, KnowsBefore
  <2> QED  BY <2>1, <2>2 DEF Killed, Torn
<1> QED  BY <1>1, <1>2, <1>3, <1>4, <1>5, MoveKeeps DEF ReleaseTypeOK, ScriptPc

-----------------------------------------------------------------------------
LEMMA ReleaseKeeps == ReleaseInv /\ [ReleaseNext]_releaseVars => ReleaseInv'
<1> SUFFICES ASSUME ReleaseInv, [ReleaseNext]_releaseVars PROVE ReleaseInv'  OBVIOUS
<1>1. CASE StartDeploy  BY <1>1, DeployKeeps
<1>2. CASE StartRollback  BY <1>2, RollbackKeeps
<1>3. ASSUME NEW x \in Scripts,
             Prepare(x) \/ Switch(x) \/ Verify(x) \/ RecordPrevious(x) \/ RecordCurrent(x) \/ Undo(x) \/ Killed(x)
      PROVE  ReleaseInv'
  BY <1>3, PrepareKeeps, SwitchKeeps, VerifyKeeps, RecordPreviousKeeps, RecordCurrentKeeps, UndoKeeps, KilledKeeps
<1>4. CASE UNCHANGED releaseVars
  BY <1>4 DEF releaseVars, ReleaseInv, ReleaseTypeOK, AloneMeansAlone, TargetRuns, Switched, KnowsBefore, RunningIsRecorded
<1> QED  BY <1>1, <1>2, <1>3, <1>4 DEF ReleaseNext

LEMMA ReleaseInvariant == ReleaseSpec => []ReleaseInv
BY ReleaseEstablishes, ReleaseKeeps, PTL DEF ReleaseSpec

(* For any number of releases, deployments, rollbacks and failures: the    *)
(* release on record is the one that runs when the scripts have ended and  *)
(* none was killed, overlapped the other, or could not go back.            *)
THEOREM RecordIsRight == ReleaseSpec => []RunningIsRecorded
<1>1. ReleaseInv => RunningIsRecorded  BY DEF ReleaseInv
<1> QED  BY <1>1, ReleaseInvariant, PTL

(* Types of the records, the scripts and what runs. *)
THEOREM ReleaseTyped == ReleaseSpec => []ReleaseTypeOK
<1>1. ReleaseInv => ReleaseTypeOK  BY DEF ReleaseInv
<1> QED  BY <1>1, ReleaseInvariant, PTL

-----------------------------------------------------------------------------
(* The backfill of the metadata.                                           *)

(* Ids are given out in order, and no row without an id has a view count. *)
RowsNumbered == \A v \in Videos : row[v].id <= lastRow /\ (row[v].id = 0 => ~row[v].views)

(* Between the look at the row and the commit of a refresh the row that    *)
(* was read is the one that was selected, though it may be gone.           *)
ReadsSelected ==
  \A v \in Videos : refresh[v].pc = "write" => refresh[v].read = refresh[v].id /\ refresh[v].id # 0

RowTypes ==
  /\ row \in [Videos -> [id : RowIds, views : BOOLEAN, of : RowIds]]
  /\ upsert \in [Importers -> [pc : {"idle", "write"}, video : Videos, seen : RowIds, views : BOOLEAN]]
  /\ refresh \in [Videos -> [pc : {"none", "waiting", "fetching", "found", "write"}, id : RowIds, read : RowIds]]
  /\ lastRow \in RowIds

DistinctRows == \A v, w \in Videos : v # w /\ row[v].id = row[w].id => row[v].id = 0

(* The semaphore holds. *)
FewFetches == Cardinality(Fetching) <= Concurrency

BackfillInv == RowTypes /\ DistinctRows /\ FewFetches /\ RowsNumbered /\ ReadsSelected /\ MetadataOfItsRow

USE BackfillAssumption

-----------------------------------------------------------------------------
(* No more refreshes fetch than before if none begins to. *)
LEMMA FewerFetches ==
  ASSUME FewFetches, Fetching' \subseteq Fetching PROVE FewFetches'
<1>1. IsFiniteSet(Fetching)  BY FS_Subset DEF Fetching
<1>2. Cardinality(Fetching') <= Cardinality(Fetching)  BY <1>1, FS_Subset
<1>3. Cardinality(Fetching') \in Nat /\ Cardinality(Fetching) \in Nat  BY <1>1, FS_Subset, FS_CardinalityType
<1> QED  BY <1>2, <1>3 DEF FewFetches

LEMMA BackfillEstablishes == BackfillInit => BackfillInv
<1> SUFFICES ASSUME BackfillInit PROVE BackfillInv  OBVIOUS
<1> USE DEF BackfillInit, NoRow, NoRefresh
<1>1. RowTypes
  <2>1. (CHOOSE v \in Videos : TRUE) \in Videos  OBVIOUS
  <2>2. 0 \in RowIds  BY DEF RowIds
  <2> QED  BY <2>1, <2>2 DEF RowTypes
<1>2. FewFetches
  <2>1. Fetching = {}  BY DEF Fetching
  <2> QED  BY <2>1, FS_EmptySet DEF FewFetches
<1>3. DistinctRows /\ RowsNumbered /\ ReadsSelected /\ MetadataOfItsRow
  BY DEF DistinctRows, RowsNumbered, ReadsSelected, MetadataOfItsRow
<1> QED  BY <1>1, <1>2, <1>3 DEF BackfillInv

-----------------------------------------------------------------------------
(* Steps that write rows *)

LEMMA LookUpRowKeeps ==
  ASSUME BackfillInv, NEW m \in Importers, NEW v \in Videos, LookUpRow(m, v) PROVE BackfillInv'
<1>1. RowTypes'
  <2>1. PICK views \in BOOLEAN :
          upsert' = [upsert EXCEPT ![m] = [pc |-> "write", video |-> v, seen |-> row[v].id, views |-> views]]
    BY DEF LookUpRow
  <2> QED  BY <2>1 DEF LookUpRow, BackfillInv, RowTypes
<1> QED
  BY <1>1 DEF LookUpRow, BackfillInv, DistinctRows, FewFetches, Fetching, RowsNumbered, ReadsSelected, MetadataOfItsRow

(* A row that is inserted has a new id, and its own view count if it has   *)
(* one.                                                                    *)
LEMMA WriteKeeps ==
  ASSUME BackfillInv, NEW m \in Importers, WriteRow(m) PROVE BackfillInv'
<1> DEFINE v == upsert[m].video
           new == [id |-> lastRow + 1, views |-> upsert[m].views, of |-> IF upsert[m].views THEN lastRow + 1 ELSE 0]
<1>0. v \in Videos /\ upsert[m].views \in BOOLEAN /\ UNCHANGED refresh
  BY DEF BackfillInv, RowTypes, WriteRow
<1>1. upsert' \in [Importers -> [pc : {"idle", "write"}, video : Videos, seen : RowIds, views : BOOLEAN]]
  BY DEF BackfillInv, RowTypes, WriteRow
<1>2. CASE row[v].id = 0 /\ lastRow < MaxRows /\ lastRow' = lastRow + 1 /\ row' = [row EXCEPT ![v] = new]
  <2>1. lastRow \in Nat /\ lastRow + 1 \in RowIds  BY <1>2 DEF BackfillInv, RowTypes, RowIds
  <2>2. new \in [id : RowIds, views : BOOLEAN, of : RowIds]  BY <1>0, <2>1 DEF RowIds
  <2>3. /\ row'[v].id = lastRow + 1 /\ row'[v].views = upsert[m].views
        /\ upsert[m].views => row'[v].of = lastRow + 1
        /\ \A w \in Videos \ {v} : row'[w] = row[w] /\ row[w].id <= lastRow /\ row[w].id \in Nat
    BY <1>0, <1>2 DEF BackfillInv, RowTypes, RowsNumbered, RowIds
  <2>4. RowTypes'  BY <1>0, <1>1, <1>2, <2>1, <2>2 DEF BackfillInv, RowTypes
  <2>5. DistinctRows'  BY <2>1, <2>3 DEF BackfillInv, DistinctRows
  <2>6. RowsNumbered'
    <3>1. \A w \in Videos \ {v} : row'[w].id <= lastRow' /\ (row'[w].id = 0 => ~row'[w].views)
      BY <1>2, <2>1, <2>3 DEF BackfillInv, RowsNumbered
    <3>2. row'[v].id <= lastRow' /\ row'[v].id # 0  BY <1>2, <2>1, <2>3
    <3> QED  BY <3>1, <3>2 DEF RowsNumbered
  <2>7. MetadataOfItsRow'  BY <2>3 DEF BackfillInv, MetadataOfItsRow
  <2>8. FewFetches' /\ ReadsSelected'  BY <1>0 DEF BackfillInv, FewFetches, Fetching, ReadsSelected
  <2> QED  BY <2>4, <2>5, <2>6, <2>7, <2>8 DEF BackfillInv
<1>3. CASE row[v].id # 0 /\ row' = MergeViews(v, upsert[m].views) /\ UNCHANGED lastRow
  <2>1. /\ row' \in [Videos -> [id : RowIds, views : BOOLEAN, of : RowIds]]
        /\ \A w \in Videos : row'[w].id = row[w].id
        /\ \A w \in Videos \ {v} : row'[w] = row[w]
        /\ row'[v].views => row'[v].of = row[v].id
    BY <1>0, <1>3 DEF MergeViews, BackfillInv, RowTypes, MetadataOfItsRow
  <2>2. RowTypes' /\ DistinctRows'  BY <1>0, <1>1, <1>3, <2>1 DEF BackfillInv, RowTypes, DistinctRows
  <2>3. RowsNumbered'
    <3>1. \A w \in Videos \ {v} : row'[w].id <= lastRow' /\ (row'[w].id = 0 => ~row'[w].views)
      BY <1>3, <2>1 DEF BackfillInv, RowsNumbered
    <3>2. row'[v].id <= lastRow' /\ row'[v].id # 0  BY <1>0, <1>3, <2>1 DEF BackfillInv, RowsNumbered
    <3> QED  BY <3>1, <3>2 DEF RowsNumbered
  <2>4. MetadataOfItsRow'  BY <1>0, <2>1 DEF BackfillInv, MetadataOfItsRow
  <2>5. FewFetches' /\ ReadsSelected'  BY <1>0 DEF BackfillInv, FewFetches, Fetching, ReadsSelected
  <2> QED  BY <2>2, <2>3, <2>4, <2>5 DEF BackfillInv
<1>4. CASE UNCHANGED <<row, lastRow>>
  BY <1>0, <1>1, <1>4 DEF BackfillInv, RowTypes, DistinctRows, FewFetches, Fetching, RowsNumbered, ReadsSelected, MetadataOfItsRow
<1> QED  BY <1>2, <1>3, <1>4 DEF WriteRow

LEMMA DeleteKeeps ==
  ASSUME BackfillInv, NEW v \in Videos, DeleteRow(v) PROVE BackfillInv'
<1>1. /\ row' \in [Videos -> [id : RowIds, views : BOOLEAN, of : RowIds]]
      /\ row'[v].id = 0 /\ ~row'[v].views
      /\ \A w \in Videos \ {v} : row'[w] = row[w]
  BY DEF DeleteRow, NoRow, BackfillInv, RowTypes, RowIds
<1>2. 0 <= lastRow  BY DEF BackfillInv, RowTypes, RowIds
<1> QED
  BY <1>1, <1>2 DEF DeleteRow, BackfillInv, RowTypes, DistinctRows, FewFetches, Fetching, RowsNumbered, ReadsSelected, MetadataOfItsRow

-----------------------------------------------------------------------------
(* Steps of a refresh *)

(* A step that only moves refreshes keeps what is said of the rows. *)
LEMMA RefreshKeeps ==
  ASSUME BackfillInv, UNCHANGED <<row, upsert, lastRow>>,
         refresh' \in [Videos -> [pc : {"none", "waiting", "fetching", "found", "write"}, id : RowIds, read : RowIds]],
         FewFetches', ReadsSelected'
  PROVE  BackfillInv'
BY DEF BackfillInv, RowTypes, DistinctRows, RowsNumbered, MetadataOfItsRow

LEMMA SelectKeeps == ASSUME BackfillInv, SelectMissing PROVE BackfillInv'
<1>1. /\ refresh' \in [Videos -> [pc : {"none", "waiting", "fetching", "found", "write"}, id : RowIds, read : RowIds]]
      /\ \A v \in Videos : refresh'[v].pc \in {"none", "waiting"}
  BY DEF SelectMissing, NoRefresh, BackfillInv, RowTypes, RowIds
<1>2. FewFetches'
  <2>1. Fetching' = {}  BY <1>1 DEF Fetching
  <2> QED  BY <2>1, FS_EmptySet DEF FewFetches
<1>3. ReadsSelected'  BY <1>1 DEF ReadsSelected
<1> QED  BY <1>1, <1>2, <1>3, RefreshKeeps DEF SelectMissing

(* The semaphore lets one more refresh fetch only below the limit. *)
LEMMA FetchKeeps == ASSUME BackfillInv, NEW v \in Videos, FetchViews(v) PROVE BackfillInv'
<1>1. /\ refresh' \in [Videos -> [pc : {"none", "waiting", "fetching", "found", "write"}, id : RowIds, read : RowIds]]
      /\ refresh'[v].pc = "fetching" /\ \A w \in Videos \ {v} : refresh'[w] = refresh[w]
  BY DEF FetchViews, RefreshGoes, BackfillInv, RowTypes
<1>2. FewFetches'
  <2>1. Fetching' \subseteq Fetching \cup {v}  BY <1>1 DEF Fetching
  <2>2. IsFiniteSet(Fetching)  BY FS_Subset DEF Fetching
  <2>3. IsFiniteSet(Fetching \cup {v}) /\ Cardinality(Fetching \cup {v}) <= Cardinality(Fetching) + 1
    <3>1. CASE v \in Fetching
      <4>1. Fetching \cup {v} = Fetching  BY <3>1
      <4>2. Cardinality(Fetching) \in Nat  BY <2>2, FS_CardinalityType
      <4> QED  BY <2>2, <4>1, <4>2
    <3>2. CASE v \notin Fetching
      <4>1. Cardinality(Fetching \cup {v}) = Cardinality(Fetching) + 1 /\ IsFiniteSet(Fetching \cup {v})
        BY <2>2, <3>2, FS_AddElement
      <4>2. Cardinality(Fetching) \in Nat  BY <2>2, FS_CardinalityType
      <4> QED  BY <4>1, <4>2
    <3> QED  BY <3>1, <3>2
  <2>4. Cardinality(Fetching') <= Cardinality(Fetching \cup {v}) /\ IsFiniteSet(Fetching')  BY <2>1, <2>3, FS_Subset
  <2>5. Cardinality(Fetching) < Concurrency  BY DEF FetchViews, SlotFree, Fetching
  <2>6. /\ Cardinality(Fetching) \in Nat /\ Cardinality(Fetching') \in Nat
        /\ Cardinality(Fetching \cup {v}) \in Nat
    BY <2>2, <2>3, <2>4, FS_CardinalityType
  <2> QED  BY <2>3, <2>4, <2>5, <2>6 DEF FewFetches
<1>3. ReadsSelected'  BY <1>1 DEF BackfillInv, ReadsSelected
<1> QED  BY <1>1, <1>2, <1>3, RefreshKeeps DEF FetchViews

(* A refresh that goes on from a step, or ends, fetches no longer. *)
LEMMA LeavesFetching ==
  ASSUME BackfillInv, NEW v \in Videos, \A w \in Videos \ {v} : refresh'[w] = refresh[w], refresh'[v].pc # "fetching"
  PROVE  FewFetches'
<1>1. Fetching' \subseteq Fetching  BY DEF Fetching
<1> QED  BY <1>1, FewerFetches DEF BackfillInv

LEMMA ReturnKeeps == ASSUME BackfillInv, NEW v \in Videos, FetchReturns(v) PROVE BackfillInv'
<1>1. /\ refresh' \in [Videos -> [pc : {"none", "waiting", "fetching", "found", "write"}, id : RowIds, read : RowIds]]
      /\ refresh'[v].pc \in {"none", "found"} /\ \A w \in Videos \ {v} : refresh'[w] = refresh[w]
  <2>1. refresh \in [Videos -> [pc : {"none", "waiting", "fetching", "found", "write"}, id : RowIds, read : RowIds]]
        /\ NoRefresh \in [pc : {"none", "waiting", "fetching", "found", "write"}, id : RowIds, read : RowIds]
    BY DEF BackfillInv, RowTypes, NoRefresh, RowIds
  <2>2. CASE RefreshGoes(v, "found")  BY <2>1, <2>2 DEF RefreshGoes
  <2>3. CASE RefreshEnds(v)  BY <2>1, <2>3 DEF RefreshEnds, NoRefresh
  <2> QED  BY <2>2, <2>3 DEF FetchReturns
<1>2. FewFetches'  BY <1>1, LeavesFetching
<1>3. ReadsSelected'  BY <1>1 DEF BackfillInv, ReadsSelected
<1> QED  BY <1>1, <1>2, <1>3, RefreshKeeps DEF FetchReturns

LEMMA ReadKeeps == ASSUME BackfillInv, NEW v \in Videos, ReadRow(v) PROVE BackfillInv'
<1>1. /\ refresh' \in [Videos -> [pc : {"none", "waiting", "fetching", "found", "write"}, id : RowIds, read : RowIds]]
      /\ refresh'[v].pc \in {"none", "write"} /\ \A w \in Videos \ {v} : refresh'[w] = refresh[w]
      /\ (refresh'[v].pc = "write" => refresh'[v].read = refresh'[v].id /\ refresh'[v].id # 0)
  <2>1. /\ refresh \in [Videos -> [pc : {"none", "waiting", "fetching", "found", "write"}, id : RowIds, read : RowIds]]
        /\ NoRefresh \in [pc : {"none", "waiting", "fetching", "found", "write"}, id : RowIds, read : RowIds]
        /\ row[v].id \in RowIds
    BY DEF BackfillInv, RowTypes, NoRefresh, RowIds
  <2>2. CASE SelectedRow(v) /\ refresh' = [refresh EXCEPT ![v].pc = "write", ![v].read = row[v].id]
    <3>1. refresh[v].id = row[v].id /\ row[v].id # 0  BY <2>2 DEF SelectedRow
    <3>2. /\ refresh'[v] = [pc |-> "write", id |-> refresh[v].id, read |-> row[v].id]
          /\ \A w \in Videos \ {v} : refresh'[w] = refresh[w]
          /\ refresh' \in [Videos -> [pc : {"none", "waiting", "fetching", "found", "write"}, id : RowIds, read : RowIds]]
      BY <2>1, <2>2
    <3> QED  BY <3>1, <3>2
  <2>3. CASE RefreshEnds(v)  BY <2>1, <2>3 DEF RefreshEnds, NoRefresh
  <2> QED  BY <2>2, <2>3 DEF ReadRow
<1>2. FewFetches'  BY <1>1, LeavesFetching
<1>3. ReadsSelected'  BY <1>1 DEF BackfillInv, ReadsSelected
<1> QED  BY <1>1, <1>2, <1>3, RefreshKeeps DEF ReadRow

(* The commit finds the row that was read, which is the one selected, or   *)
(* changes nothing.                                                        *)
LEMMA CommitKeeps == ASSUME BackfillInv, NEW v \in Videos, CommitViews(v) PROVE BackfillInv'
<1>1. /\ refresh' \in [Videos -> [pc : {"none", "waiting", "fetching", "found", "write"}, id : RowIds, read : RowIds]]
      /\ refresh'[v].pc = "none" /\ \A w \in Videos \ {v} : refresh'[w] = refresh[w]
  BY DEF CommitViews, RefreshEnds, NoRefresh, BackfillInv, RowTypes, RowIds
<1>2. FewFetches'  BY <1>1, LeavesFetching
<1>3. ReadsSelected'  BY <1>1 DEF BackfillInv, ReadsSelected
<1>4. CASE UNCHANGED row
  BY <1>1, <1>2, <1>3, <1>4, RefreshKeeps DEF CommitViews
<1>5. CASE row[v].id = refresh[v].read /\ row' = [row EXCEPT ![v].views = TRUE, ![v].of = refresh[v].id]
  <2>1. refresh[v].id = row[v].id /\ row[v].id # 0 /\ row[v].id \in RowIds
    BY <1>5 DEF CommitViews, BackfillInv, ReadsSelected, RowTypes
  <2>2. /\ row' \in [Videos -> [id : RowIds, views : BOOLEAN, of : RowIds]]
        /\ \A w \in Videos : row'[w].id = row[w].id
        /\ \A w \in Videos \ {v} : row'[w] = row[w]
        /\ row'[v].of = row[v].id
    <3>1. row \in [Videos -> [id : RowIds, views : BOOLEAN, of : RowIds]]  BY DEF BackfillInv, RowTypes
    <3>2. /\ row'[v] = [id |-> row[v].id, views |-> TRUE, of |-> row[v].id]
          /\ \A w \in Videos \ {v} : row'[w] = row[w]
          /\ row' \in [Videos -> [id : RowIds, views : BOOLEAN, of : RowIds]]
      BY <1>5, <2>1, <3>1
    <3> QED  BY <2>1, <3>1, <3>2
  <2>3. RowTypes' /\ DistinctRows'
    BY <1>1, <2>2 DEF CommitViews, BackfillInv, RowTypes, DistinctRows
  <2>4. RowsNumbered'
    <3>1. \A w \in Videos \ {v} : row'[w].id <= lastRow' /\ (row'[w].id = 0 => ~row'[w].views)
      BY <2>2 DEF CommitViews, BackfillInv, RowsNumbered
    <3>2. row'[v].id <= lastRow' /\ row'[v].id # 0  BY <2>1, <2>2 DEF CommitViews, BackfillInv, RowsNumbered
    <3> QED  BY <3>1, <3>2 DEF RowsNumbered
  <2>5. MetadataOfItsRow'  BY <2>2 DEF BackfillInv, MetadataOfItsRow
  <2> QED  BY <1>2, <1>3, <2>3, <2>4, <2>5 DEF BackfillInv
<1> QED  BY <1>4, <1>5 DEF CommitViews

-----------------------------------------------------------------------------
LEMMA BackfillKeeps == BackfillInv /\ [BackfillNext]_rowVars => BackfillInv'
<1> SUFFICES ASSUME BackfillInv, [BackfillNext]_rowVars PROVE BackfillInv'  OBVIOUS
<1>1. ASSUME NEW m \in Importers, WriteRow(m) PROVE BackfillInv'  BY <1>1, WriteKeeps
<1>2. ASSUME NEW m \in Importers, NEW v \in Videos, LookUpRow(m, v) PROVE BackfillInv'  BY <1>2, LookUpRowKeeps
<1>3. CASE SelectMissing  BY <1>3, SelectKeeps
<1>4. ASSUME NEW v \in Videos, DeleteRow(v) PROVE BackfillInv'  BY <1>4, DeleteKeeps
<1>5. ASSUME NEW v \in Videos, FetchViews(v) PROVE BackfillInv'  BY <1>5, FetchKeeps
<1>6. ASSUME NEW v \in Videos, FetchReturns(v) PROVE BackfillInv'  BY <1>6, ReturnKeeps
<1>7. ASSUME NEW v \in Videos, ReadRow(v) PROVE BackfillInv'  BY <1>7, ReadKeeps
<1>8. ASSUME NEW v \in Videos, CommitViews(v) PROVE BackfillInv'  BY <1>8, CommitKeeps
<1>9. CASE UNCHANGED rowVars
  BY <1>9 DEF rowVars, BackfillInv, RowTypes, DistinctRows, FewFetches, Fetching, RowsNumbered, ReadsSelected, MetadataOfItsRow
<1> QED  BY <1>1, <1>2, <1>3, <1>4, <1>5, <1>6, <1>7, <1>8, <1>9 DEF BackfillNext

LEMMA BackfillInvariant == BackfillSpec => []BackfillInv
BY BackfillEstablishes, BackfillKeeps, PTL DEF BackfillSpec

(* No row has the view count of another: whatever order imports, deletions *)
(* and the steps of a backfill come in, a view count that was fetched for  *)
(* a row is not written to one that replaced it.                           *)
THEOREM MetadataIsItsOwn == BackfillSpec => []MetadataOfItsRow
<1>1. BackfillInv => MetadataOfItsRow  BY DEF BackfillInv
<1> QED  BY <1>1, BackfillInvariant, PTL

(* RowTypes, rows of different ids, and no more fetches than the semaphore    *)
(* allows.                                                                 *)
THEOREM BackfillTyped == BackfillSpec => []BackfillTypeOK
<1>1. BackfillInv => BackfillTypeOK
  BY DEF BackfillInv, RowTypes, DistinctRows, FewFetches, Fetching, BackfillTypeOK
<1> QED  BY <1>1, BackfillInvariant, PTL
=============================================================================
