----------------------------- MODULE RateLimit -----------------------------
(***************************************************************************)
(* The rate limiter in front of every route of the Go API, rate_limit.go:  *)
(* fixed windows, one counter in Redis per group of routes, identity and   *)
(* window.  A request takes its window from the clock, is counted by one   *)
(* atomic script, and is refused or let through to its handler.            *)
(***************************************************************************)
EXTENDS Naturals, FiniteSets

CONSTANTS
  Slots,      \* requests the server has in hand at the same time
  Addresses,  \* client addresses
  Cookies,    \* values of guest cookies, known to the server or not
  Limit,      \* requests of a group that one identity may send in a window
  Window,     \* ticks of a window, and the time to live of a counter
  MaxDelay,   \* ticks from the clock to the script at most: the client's timeout
  MaxTime,    \* bound: the last tick
  MaxArrivals \* bound: requests sent

ASSUME RateAssumption ==
  /\ IsFiniteSet(Slots)
  /\ Addresses \cap Cookies = {}
  /\ Limit \in Nat /\ MaxTime \in Nat /\ MaxArrivals \in Nat
  /\ Window \in Nat \ {0}
  /\ MaxDelay \in 0 .. Window - 1

Ids == Addresses \cup Cookies
Groups == {"write", "expensive"}
Key == Groups \X Ids \X (0 .. MaxTime \div Window)

VARIABLES
  now,      \* the clock, in ticks
  redis,    \* is Redis reachable
  counter,  \* per key: the count and the tick the key expires at
  slot,     \* per request: its step, its group, whom it counts for, its window
  \* auxiliary
  arrived,  \* requests so far
  passed,   \* per key: requests that were let through
  outage    \* was Redis ever out of reach

limiter == <<now, redis, counter, slot, arrived, passed, outage>>

Free == [pc |-> "idle", group |-> "write", ids |-> {}, window |-> 0, since |-> 0]

(* Types. *)
LimiterTypeOK ==
  /\ now \in 0 .. MaxTime
  /\ redis \in BOOLEAN /\ outage \in BOOLEAN
  /\ counter \in [Key -> [n : Nat, dies : Nat]]
  /\ slot \in [Slots -> [pc : {"idle", "counting", "admitted"}, group : Groups, ids : SUBSET Ids,
                         window : 0 .. MaxTime \div Window, since : 0 .. MaxTime]]
  /\ arrived \in 0 .. MaxArrivals
  /\ passed \in [Key -> Nat]

LimiterInit ==
  /\ now = 0
  /\ redis = TRUE
  /\ counter = [k \in Key |-> [n |-> 0, dies |-> 0]]
  /\ slot = [s \in Slots |-> Free]
  /\ arrived = 0
  /\ passed = [k \in Key |-> 0]
  /\ outage = FALSE

-----------------------------------------------------------------------------
(* The keys of a request: one for its address, one for its cookie. *)
KeysOf(s) == {<<slot[s].group, i, slot[s].window>> : i \in slot[s].ids}

(* The window of the clock.  Mutant: the clock itself. *)
ClockTick == now
WindowNow == now \div Window

(* A request is sorted into a group; its window is the clock's now.  It    *)
(* counts for its address and, if it has one, for its cookie.              *)
Arrive(s, group, ids) ==
  /\ slot[s].pc = "idle"
  /\ arrived < MaxArrivals
  /\ arrived' = arrived + 1
  /\ slot' = [slot EXCEPT ![s] = [pc |-> "counting", group |-> group, ids |-> ids,
                                  window |-> WindowNow, since |-> now]]
  /\ UNCHANGED <<now, redis, counter, passed, outage>>

Alive(k) == counter[k].n > 0 /\ now < counter[k].dies

(* INCR, and EXPIRE for the first: what the script leaves of a key. *)
Counted(k) ==
  IF Alive(k) THEN [counter[k] EXCEPT !.n = @ + 1] ELSE [n |-> 1, dies |-> now + Window]

Exceeds(s) == \E k \in KeysOf(s) : Counted(k).n > Limit

LetThrough(s) ==
  /\ slot' = [slot EXCEPT ![s].pc = "admitted"]
  /\ passed' = [k \in Key |-> IF k \in KeysOf(s) THEN passed[k] + 1 ELSE passed[k]]
Refuse(s) == slot' = [slot EXCEPT ![s] = Free] /\ UNCHANGED passed

(* The script counts every key, those of a request that is refused too. *)
Count(s) ==
  /\ slot[s].pc = "counting"
  /\ redis
  /\ counter' = [k \in Key |-> IF k \in KeysOf(s) THEN Counted(k) ELSE counter[k]]
  /\ IF Exceeds(s) THEN Refuse(s) ELSE LetThrough(s)
  /\ UNCHANGED <<now, redis, outage, arrived>>

(* Mutant: without Redis every group passes. *)
NeverClosed(group) == FALSE
FailsClosed(group) == group = "expensive"

CountFails(s) ==
  /\ slot[s].pc = "counting"
  /\ ~redis
  /\ IF FailsClosed(slot[s].group) THEN Refuse(s) ELSE LetThrough(s)
  /\ UNCHANGED <<now, redis, counter, outage, arrived>>

(* The handler has answered. *)
Leave(s) ==
  /\ slot[s].pc = "admitted"
  /\ slot' = [slot EXCEPT ![s] = Free]
  /\ UNCHANGED <<now, redis, counter, arrived, passed, outage>>

RedisSwitches ==
  /\ redis' = ~redis
  /\ outage' = TRUE
  /\ UNCHANGED <<now, counter, slot, passed, arrived>>

Tick ==
  /\ now < MaxTime
  /\ \A s \in Slots : slot[s].pc = "counting" => now < slot[s].since + MaxDelay
  /\ now' = now + 1
  /\ UNCHANGED <<redis, counter, slot, passed, outage, arrived>>

LimiterNext ==
  \/ \E s \in Slots :
       \/ \E group \in Groups, a \in Addresses, cookie \in {{}} \cup {{i} : i \in Cookies} :
            Arrive(s, group, {a} \cup cookie)
       \/ Count(s) \/ CountFails(s) \/ Leave(s)
  \/ RedisSwitches
  \/ Tick

LimiterSpec == LimiterInit /\ [][LimiterNext]_limiter

-----------------------------------------------------------------------------
(* Properties *)

(* What a window lets through.  Counters live one window from their first  *)
(* request, so requests that took their window before the clock moved on   *)
(* may find the counter gone: they pass again, at most once more the limit *)
(* and never more than were in hand.  The expensive group is limited even  *)
(* while Redis is away, the others only as long as it is there.            *)
Slack == IF Limit < Cardinality(Slots) THEN Limit ELSE Cardinality(Slots)
PassedWithinLimit ==
  \A k \in Key : k[1] = "expensive" \/ ~outage => passed[k] <= Limit + Slack
=============================================================================
