-------------------------- MODULE RequestLifecycle --------------------------
(***************************************************************************)
(* What the table of agent requests promises: a request is decided once,   *)
(* nothing is run that was not approved, and what was not approved can     *)
(* only expire.  The module AgentRequests implements this one.             *)
(***************************************************************************)
CONSTANT Ids

VARIABLES status, decision

Init ==
  /\ status = [r \in Ids |-> "none"]
  /\ decision = [r \in Ids |-> {}]

Becomes(r, new) == status' = [status EXCEPT ![r] = new]

Create(r) ==
  /\ status[r] = "none"
  /\ Becomes(r, "pending")
  /\ UNCHANGED decision

Approve(r) ==
  /\ status[r] = "pending"
  /\ Becomes(r, "approved")
  /\ decision' = [decision EXCEPT ![r] = {"approved"}]

Reject(r) ==
  /\ status[r] = "pending"
  /\ Becomes(r, "rejected")
  /\ decision' = [decision EXCEPT ![r] = {"rejected"}]

(* A request may expire whatever became of it. *)
Expire(r) ==
  /\ status[r] # "none"
  /\ Becomes(r, "expired")
  /\ UNCHANGED decision

(* An approved request is run, any number of times. *)
Run(r) ==
  /\ decision[r] = {"approved"}
  /\ \E new \in {"executing", "completed", "failed"} : Becomes(r, new)
  /\ UNCHANGED decision

Next == \E r \in Ids : Create(r) \/ Approve(r) \/ Reject(r) \/ Expire(r) \/ Run(r)

Spec == Init /\ [][Next]_<<status, decision>>
=============================================================================
