---------------------------- MODULE BatchLedger ----------------------------
(***************************************************************************)
(* What the rows of one video promise to everybody who reads them: the     *)
(* status of the video and of its subtitle batches, changed only by the    *)
(* seven commits below.  Nothing is said of who commits and when; the module *)
(* SubtitleQueue implements this one.                                      *)
(***************************************************************************)
CONSTANT Batch

VARIABLES video, batch

NoFailure(b) == \A i \in Batch : b[i] # "failed"

Init ==
  /\ video = "none"
  /\ batch = [i \in Batch |-> "none"]

(* The video is imported for the first time. *)
Admit ==
  /\ video = "none"
  /\ video' = "pending"
  /\ UNCHANGED batch

(* A repeated import or the retry of a batch that does not exist. *)
Reopen ==
  /\ video # "none"
  /\ video' = "processing"
  /\ UNCHANGED batch

(* All the batches of a video appear at once, none of them done. *)
Split ==
  /\ video # "none"
  /\ \A i \in Batch : batch[i] = "none"
  /\ batch' = [i \in Batch |-> "pending"]
  /\ UNCHANGED video

(* One batch succeeds; the video may only become completed when the new    *)
(* ledger holds no failed batch.                                           *)
Succeed(i) ==
  /\ batch[i] = "pending"
  /\ batch' = [batch EXCEPT ![i] = "completed"]
  /\ \/ UNCHANGED video
     \/ NoFailure(batch') /\ video' = "completed"

(* One batch fails, and the video fails with it in the same commit. *)
Fail(i) ==
  /\ batch[i] \in {"pending", "completed"}
  /\ batch' = [batch EXCEPT ![i] = "failed"]
  /\ video' = "failed"

(* One batch is taken back for another attempt. *)
Retry(i) ==
  /\ batch[i] # "none"
  /\ batch' = [batch EXCEPT ![i] = "pending"]
  /\ video' \in {video, "processing"}

(* The rows of the video and of its batches disappear together. *)
Delete ==
  /\ video # "none"
  /\ video' = "none"
  /\ batch' = [i \in Batch |-> "none"]

Next ==
  \/ Admit
  \/ Reopen
  \/ Split
  \/ \E i \in Batch : Succeed(i) \/ Fail(i) \/ Retry(i)
  \/ Delete

vars == <<video, batch>>

Spec == Init /\ [][Next]_vars
=============================================================================
