------------------------------ MODULE Backfill ------------------------------
(***************************************************************************)
(* The metadata of the videos: imports insert a row or merge into it       *)
(* (video_repository.py), a backfill fetches what older rows lack          *)
(* (video_metadata_backfill.py), and a video may be deleted and imported   *)
(* again meanwhile.  Of the metadata only the view count is kept here.     *)
(***************************************************************************)
EXTENDS Naturals, FiniteSets

CONSTANTS
  Videos,
  Importers,
  BatchSize,    \* youtube_metadata_backfill_batch_size
  Concurrency,  \* youtube_metadata_backfill_concurrency
  MaxRows       \* bound: rows inserted

ASSUME BackfillAssumption ==
  /\ IsFiniteSet(Videos) /\ Videos # {}
  /\ BatchSize \in Nat \ {0} /\ Concurrency \in Nat \ {0} /\ MaxRows \in Nat

VARIABLES
  row,      \* per video: its id (0: no row), has it a view count, and for which row that was fetched
  upsert,   \* per import: its step, video, the row it has seen and if it has a view count
  refresh,  \* per video: the step of its refresh, the row selected and the row read
  lastRow

rowVars == <<row, upsert, refresh, lastRow>>

RowIds == 0 .. MaxRows
NoRow == [id |-> 0, views |-> FALSE, of |-> 0]
NoRefresh == [pc |-> "none", id |-> 0, read |-> 0]

(* Types: no more fetches at a time than allowed, and no two rows the same. *)
BackfillTypeOK ==
  /\ row \in [Videos -> [id : RowIds, views : BOOLEAN, of : RowIds]]
  /\ \A v, w \in Videos : v # w /\ row[v].id = row[w].id => row[v].id = 0
  /\ upsert \in [Importers -> [pc : {"idle", "write"}, video : Videos, seen : RowIds, views : BOOLEAN]]
  /\ refresh \in [Videos -> [pc : {"none", "waiting", "fetching", "found", "write"}, id : RowIds, read : RowIds]]
  /\ Cardinality({v \in Videos : refresh[v].pc = "fetching"}) <= Concurrency
  /\ lastRow \in RowIds

BackfillInit ==
  /\ row = [v \in Videos |-> NoRow]
  /\ upsert = [m \in Importers |-> [pc |-> "idle", video |-> CHOOSE v \in Videos : TRUE, seen |-> 0, views |-> FALSE]]
  /\ refresh = [v \in Videos |-> NoRefresh]
  /\ lastRow = 0

-----------------------------------------------------------------------------
(* An import has fetched metadata, perhaps without a view count, and looks *)
(* for the row ...                                                         *)
LookUpRow(m, v) ==
  /\ upsert[m].pc = "idle"
  /\ \E views \in BOOLEAN :
       upsert' = [upsert EXCEPT ![m] = [pc |-> "write", video |-> v, seen |-> row[v].id, views |-> views]]
  /\ UNCHANGED <<row, refresh, lastRow>>

(* _merge_metadata: what is unknown changes nothing. *)
MergeViews(v, views) ==
  [row EXCEPT ![v].views = @ \/ views, ![v].of = IF views THEN row[v].id ELSE @]

(* ... which it inserts, or merges into; an import that inserted the row   *)
(* meanwhile makes it read again, and a row that is gone fails the import. *)
WriteRow(m) ==
  LET v == upsert[m].video
  IN  /\ upsert[m].pc = "write"
      /\ upsert' = [upsert EXCEPT ![m].pc = "idle"]
      /\ \/ /\ upsert[m].seen = 0 /\ row[v].id = 0 /\ lastRow < MaxRows
            /\ lastRow' = lastRow + 1
            /\ row' = [row EXCEPT ![v] = [id |-> lastRow', views |-> upsert[m].views,
                                          of |-> IF upsert[m].views THEN lastRow' ELSE 0]]
         \/ upsert[m].seen \in {0, row[v].id} /\ row[v].id # 0
            /\ row' = MergeViews(v, upsert[m].views) /\ UNCHANGED lastRow
         \/ upsert[m].seen \notin {0, row[v].id} /\ UNCHANGED <<row, lastRow>>
      /\ UNCHANGED refresh

DeleteRow(v) ==
  /\ row[v].id # 0
  /\ row' = [row EXCEPT ![v] = NoRow]
  /\ UNCHANGED <<upsert, refresh, lastRow>>

-----------------------------------------------------------------------------
(* list_missing_view_count: the oldest rows first. *)
Missing == {v \in Videos : row[v].id # 0 /\ ~row[v].views}
Oldest == {v \in Missing : Cardinality({w \in Missing : row[w].id < row[v].id}) < BatchSize}

(* The lock: a backfill that finds another one at work does nothing. *)
SelectMissing ==
  /\ \A v \in Videos : refresh[v].pc = "none"
  /\ refresh' = [v \in Videos |-> IF v \in Oldest THEN [pc |-> "waiting", id |-> row[v].id, read |-> 0] ELSE NoRefresh]
  /\ UNCHANGED <<row, upsert, lastRow>>

RefreshGoes(v, pc) == refresh' = [refresh EXCEPT ![v].pc = pc]
RefreshEnds(v) == refresh' = [refresh EXCEPT ![v] = NoRefresh]

(* The semaphore.  Mutant: it lets one more in. *)
Fetching == {v \in Videos : refresh[v].pc = "fetching"}
OneSlotMore == Cardinality(Fetching) <= Concurrency
SlotFree == Cardinality(Fetching) < Concurrency
FetchViews(v) ==
  /\ refresh[v].pc = "waiting"
  /\ SlotFree
  /\ RefreshGoes(v, "fetching")
  /\ UNCHANGED <<row, upsert, lastRow>>

(* There may be no view count, or an error. *)
FetchReturns(v) ==
  /\ refresh[v].pc = "fetching"
  /\ RefreshGoes(v, "found") \/ RefreshEnds(v)
  /\ UNCHANGED <<row, upsert, lastRow>>

(* Mutant: any row of the video will do. *)
AnyRowOf(v) == row[v].id # 0
SelectedRow(v) == row[v].id # 0 /\ row[v].id = refresh[v].id

ReadRow(v) ==
  /\ refresh[v].pc = "found"
  /\ IF SelectedRow(v) THEN refresh' = [refresh EXCEPT ![v].pc = "write", ![v].read = row[v].id]
                       ELSE RefreshEnds(v)
  /\ UNCHANGED <<row, upsert, lastRow>>

(* _apply_metadata and the commit, which finds the row that was read or    *)
(* fails.                                                                  *)
CommitViews(v) ==
  /\ refresh[v].pc = "write"
  /\ \/ /\ row[v].id = refresh[v].read
        /\ row' = [row EXCEPT ![v].views = TRUE, ![v].of = refresh[v].id]
     \/ UNCHANGED row
  /\ RefreshEnds(v)
  /\ UNCHANGED <<upsert, lastRow>>

BackfillNext ==
  \/ \E m \in Importers : WriteRow(m) \/ \E v \in Videos : LookUpRow(m, v)
  \/ SelectMissing
  \/ \E v \in Videos : DeleteRow(v) \/ FetchViews(v) \/ FetchReturns(v) \/ ReadRow(v) \/ CommitViews(v)

BackfillSpec == BackfillInit /\ [][BackfillNext]_rowVars

-----------------------------------------------------------------------------
(* The view count of a row was fetched for that row, by its import or by a *)
(* backfill that selected it, and never for a row of the same video that   *)
(* was deleted since.                                                      *)
MetadataOfItsRow == \A v \in Videos : row[v].views => row[v].of = row[v].id
=============================================================================
