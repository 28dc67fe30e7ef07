------------------------------ MODULE Release ------------------------------
(***************************************************************************)
(* Which release runs and which one is on record: deploy_production.sh,    *)
(* started by the workflow for one push after the other and by hand beside *)
(* it, and rollback_production.sh, started by hand, each perhaps while     *)
(* another is under way.  Every command may fail, and a script may be      *)
(* killed.                                                                 *)
(***************************************************************************)
EXTENDS Naturals

CONSTANTS
  Releases,
  Nothing,   \* no release
  MaxStarts  \* bound: scripts started

Deployments == {"of the workflow", "by hand"}
Scripts == Deployments \cup {"rollback"}
(* Containers of several releases, when a command failed half way. *)
Mixed == "mixed"

ASSUME ReleaseAssumption == Nothing \notin Releases \cup {Mixed} /\ MaxStarts \in Nat

VARIABLES
  running,   \* the release of the application's containers
  current,   \* current_sha
  previous,  \* previous_sha
  script,    \* per script: its step, its target, what it read before, and if it ran alone
  starts,
  \* auxiliary
  doubtful   \* a script was killed, could not undo a failure, or met another one

releaseVars == <<running, current, previous, script, starts, doubtful>>

Release == Releases \cup {Nothing}
ScriptPc == {"idle", "prepare", "switch", "verify", "recordPrevious", "recordCurrent", "undo"}

(* Types. *)
ReleaseTypeOK ==
  /\ running \in Release \cup {Mixed}
  /\ current \in Release /\ previous \in Release
  /\ script \in [Scripts -> [pc : ScriptPc, target : Release, before : Release, alone : BOOLEAN]]
  /\ starts \in 0 .. MaxStarts /\ doubtful \in BOOLEAN

NoScript == [pc |-> "idle", target |-> Nothing, before |-> Nothing, alone |-> TRUE]

ReleaseInit ==
  /\ running = Nothing /\ current = Nothing /\ previous = Nothing
  /\ script = [x \in Scripts |-> NoScript]
  /\ starts = 0 /\ doubtful = FALSE

-----------------------------------------------------------------------------
ScriptAt(x, pc) == script[x].pc = pc
Proceed(x, pc) == script' = [script EXCEPT ![x].pc = pc]
Ends(x) == script' = [script EXCEPT ![x] = NoScript]

(* The workflow deploys one push at a time, but nothing keeps a deployment *)
(* or a rollback by hand from it or from each other.                       *)
Begins(x, target, before) ==
  LET alone == \A y \in Scripts : ScriptAt(y, "idle")
      begun == [pc |-> "prepare", target |-> target, before |-> before, alone |-> alone]
      met(y) == IF ScriptAt(y, "idle") THEN NoScript ELSE [script[y] EXCEPT !.alone = FALSE]
  IN  /\ ScriptAt(x, "idle") /\ starts < MaxStarts
      /\ starts' = starts + 1
      /\ script' = [y \in Scripts |-> IF y = x THEN begun ELSE met(y)]
      /\ doubtful' = (doubtful \/ ~alone)
      /\ UNCHANGED <<running, current, previous>>

(* PREVIOUS_SHA: what is on record, else the tag of the running backend. *)
ReleasesBefore ==
  CASE current # Nothing -> {current}
    [] current = Nothing /\ running # Mixed -> {running}
    [] OTHER -> Release
StartDeploy ==
  \E x \in Deployments, r \in Releases : \E before \in ReleasesBefore : Begins(x, r, before)

(* To previous_sha, or to a release that is named. *)
StartRollback == \E r \in Releases : Begins("rollback", r, current)

(* The images are pulled; a deployment also starts the databases, makes    *)
(* and reads a backup, and migrates.  A failure leaves the application     *)
(* alone.                                                                  *)
Prepare(x) ==
  /\ ScriptAt(x, "prepare")
  /\ Proceed(x, "switch") \/ Ends(x)
  /\ UNCHANGED <<running, current, previous, starts, doubtful>>

(* APP_SWITCH_STARTED, set before the containers are touched.  Mutant: set *)
(* after.                                                                  *)
SwitchDone(x) == script[x].pc \in {"verify", "recordPrevious", "recordCurrent"}
SwitchStarted(x) == script[x].pc \in {"switch", "verify", "recordPrevious", "recordCurrent"}

(* rollback_on_error goes back if there is something to go back to; the    *)
(* rollback by hand has no trap.                                           *)
CanUndo(x) == x \in Deployments /\ script[x].before # Nothing
Fails(x) ==
  /\ IF CanUndo(x) /\ SwitchStarted(x) THEN Proceed(x, "undo") ELSE Ends(x)
  /\ doubtful' = (doubtful \/ ~CanUndo(x))

Switch(x) ==
  /\ ScriptAt(x, "switch")
  /\ \/ running' = script[x].target /\ Proceed(x, "verify") /\ UNCHANGED doubtful
     \/ running' \in {running, Mixed, script[x].target} /\ Fails(x)
  /\ UNCHANGED <<current, previous, starts>>

(* A deployment looks at the images of the containers; both ask the site. *)
Verify(x) ==
  /\ ScriptAt(x, "verify")
  /\ \/ /\ x = "rollback" \/ running = script[x].target
        /\ Proceed(x, "recordPrevious")
        /\ UNCHANGED doubtful
     \/ Fails(x)
  /\ UNCHANGED <<running, current, previous, starts>>

RecordPrevious(x) ==
  /\ ScriptAt(x, "recordPrevious")
  /\ \/ /\ previous' = IF script[x].before \in {Nothing, script[x].target} THEN previous ELSE script[x].before
        /\ Proceed(x, "recordCurrent") /\ UNCHANGED doubtful
     \/ Fails(x) /\ UNCHANGED previous
  /\ UNCHANGED <<running, current, starts>>

RecordCurrent(x) ==
  /\ ScriptAt(x, "recordCurrent")
  /\ \/ current' = script[x].target /\ Ends(x) /\ doubtful' = (doubtful /\ ~script[x].alone)
     \/ Fails(x) /\ UNCHANGED current
  /\ UNCHANGED <<running, previous, starts>>

(* Its own failures are ignored. *)
Undo(x) ==
  /\ ScriptAt(x, "undo")
  /\ Ends(x)
  /\ \/ running' = script[x].before /\ UNCHANGED doubtful
     \/ running' \in {running, Mixed} /\ doubtful' = TRUE
  /\ UNCHANGED <<current, previous, starts>>

(* The connection to the server or the workflow is lost.  The rollback     *)
(* writes a record in place: it may be left empty.                         *)
Torn(x, pc, file) == IF x = "rollback" /\ ScriptAt(x, pc) THEN {file, Nothing} ELSE {file}
Killed(x) ==
  /\ ~ScriptAt(x, "idle")
  /\ running' \in IF script[x].pc \in {"switch", "undo"} THEN {running, Mixed} ELSE {running}
  /\ previous' \in Torn(x, "recordPrevious", previous)
  /\ current' \in Torn(x, "recordCurrent", current)
  /\ doubtful' = (doubtful \/ ~ScriptAt(x, "prepare"))
  /\ Ends(x)
  /\ UNCHANGED starts

ReleaseNext ==
  \/ StartDeploy \/ StartRollback
  \/ \E x \in Scripts :
       Prepare(x) \/ Switch(x) \/ Verify(x) \/ RecordPrevious(x) \/ RecordCurrent(x) \/ Undo(x) \/ Killed(x)

ReleaseSpec == ReleaseInit /\ [][ReleaseNext]_releaseVars

-----------------------------------------------------------------------------
(* Once the scripts have ended, the release on record is the one that      *)
(* runs, whatever step of a deployment failed, unless a script was killed, *)
(* overlapped another, or could not go back to where it came from.       *)
RunningIsRecorded ==
  (\A x \in Scripts : ScriptAt(x, "idle")) /\ ~doubtful => running = current
=============================================================================
