------------------------------ MODULE MCGoApi ------------------------------
(* Small instances of the parts of the Go API.  The limiter answers a      *)
(* request before its handler starts and shares no state with it: a run    *)
(* looks at one of the two at a time.                                      *)
EXTENDS RateLimit, GuestData, TLC

VARIABLE part

GoApiInit == part \in {"limiter", "guests"} /\ LimiterInit /\ GuestInit

GoApiNext ==
  \/ part = "limiter" /\ LimiterNext /\ UNCHANGED <<part, guestVars>>
  \/ part = "guests" /\ GuestNext /\ UNCHANGED <<part, limiter>>

GoApiSpec == GoApiInit /\ [][GoApiNext]_<<part, limiter, guestVars>>

Same == Permutations(Slots) \cup Permutations(Handlers)
=============================================================================
