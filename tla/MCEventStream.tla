--------------------------- MODULE MCEventStream ---------------------------
(* Small instances of EventStream for TLC. *)
EXTENDS EventStream, TLC

(* The indexes a client asks to retry: before the first batch, those there  *)
(* are, one after the last, and one that the column cannot hold.            *)
AnyIndex == (-1 .. NumBatches) \cup {NumBatches + 7}
Storable == -1 .. NumBatches
=============================================================================
