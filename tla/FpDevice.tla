----------------------------- MODULE FpDevice -----------------------------
(***************************************************************************)
(* What an application sees of a device of libfprint: it is opened and     *)
(* closed, and on an open device one action at a time takes frames from    *)
(* presses of a finger and ends with one result.  The driver never calls   *)
(* this module: it is the promise behind fpi_device_open_complete,         *)
(* fpi_device_report_finger_status, fpi_device_enroll_progress and the     *)
(* completion functions of the four actions.                               *)
(***************************************************************************)
EXTENDS Integers, Sequences

CONSTANTS Picture, ENROLL_STAGES

VARIABLES
  device,         \* "closed", "opening", "open"
  doing,          \* the running action, or "nothing"
  cancelled,
  finger_status,
  progress,       \* the stages of an enrolment that were reported
  taken,          \* the frames that the running action has read
  outcome,        \* how the last action ended
  delivered       \* the frames behind its result

action == <<doing, cancelled, finger_status, progress, taken, outcome, delivered>>
vars   == <<device, action>>

Action == {"ENROLL", "VERIFY", "IDENTIFY", "CAPTURE"}

Stages == IF doing = "ENROLL" THEN ENROLL_STAGES ELSE 1

Result ==
  CASE doing = "ENROLL"   -> {"ENROLLED"}
    [] doing = "VERIFY"   -> {"MATCH", "NO_MATCH", "DATA_INVALID"}
    [] doing = "IDENTIFY" -> {"MATCH", "NO_MATCH"}
    [] doing = "CAPTURE"  -> {"IMAGE"}

-----------------------------------------------------------------------------
Open == device = "closed" /\ device' = "opening" /\ cancelled' = FALSE
        /\ UNCHANGED <<doing, finger_status, progress, taken, outcome, delivered>>

OpenEnds == device = "opening" /\ device' \in {"open", "closed"} /\ UNCHANGED action

Close == device = "open" /\ doing = "nothing" /\ device' = "closed" /\ UNCHANGED action

Start ==
  /\ device = "open" /\ doing = "nothing"
  /\ doing' \in Action
  /\ cancelled' = FALSE
  /\ finger_status' = "NEEDED"
  /\ outcome' = "none" /\ delivered' = <<>>
  /\ UNCHANGED <<device, progress, taken>>

(* The finger may rest, or come and go, before a frame is read. *)
Press ==
  /\ doing # "nothing"
  /\ finger_status' = "PRESENT"
  /\ UNCHANGED <<device, doing, cancelled, progress, taken, outcome, delivered>>

(* One frame for each stage, from a finger, and none for a cancelled action. *)
Take ==
  /\ doing # "nothing"
  /\ ~cancelled
  /\ finger_status = "PRESENT"
  /\ Len(taken) = progress
  /\ \E picture \in Picture : taken' = Append(taken, picture)
  /\ UNCHANGED <<device, doing, cancelled, finger_status, progress, outcome, delivered>>

NextStage ==
  /\ doing = "ENROLL"
  /\ Len(taken) = progress + 1
  /\ Len(taken) < Stages
  /\ progress' = progress + 1
  /\ finger_status' = "NEEDED"
  /\ UNCHANGED <<device, doing, cancelled, taken, outcome, delivered>>

(* The result of an action is made from all its frames, and from no other. *)
Finish ==
  /\ doing # "nothing"
  /\ Len(taken) = Stages
  /\ outcome' \in Result
  /\ delivered' = IF outcome' = "DATA_INVALID" THEN <<>> ELSE taken
  /\ doing' = "nothing" /\ taken' = <<>> /\ progress' = 0
  /\ finger_status' = "NONE"
  /\ UNCHANGED <<device, cancelled>>

Fail ==
  /\ doing # "nothing"
  /\ outcome' \in {"TRANSFER", "PROTO"}
  /\ delivered' = <<>>
  /\ doing' = "nothing" /\ taken' = <<>> /\ progress' = 0
  /\ UNCHANGED <<device, cancelled, finger_status>>

Cancel ==
  /\ device = "opening" \/ doing # "nothing"
  /\ ~cancelled
  /\ cancelled' = TRUE
  /\ UNCHANGED <<device, doing, finger_status, progress, taken, outcome, delivered>>

-----------------------------------------------------------------------------
Init ==
  /\ device = "closed"
  /\ doing = "nothing"
  /\ cancelled = FALSE
  /\ finger_status = "NONE"
  /\ progress = 0
  /\ taken = <<>>
  /\ outcome = "none" /\ delivered = <<>>

Next ==
  \/ Open \/ OpenEnds \/ Close \/ Start \/ Press \/ Take \/ NextStage
  \/ Finish \/ Fail \/ Cancel

Safety == Init /\ [][Next]_vars

CancelledActionEnds == cancelled /\ (Finish \/ Fail)

(* An open operation ends, a cancelled action ends, and a frame is not     *)
(* held back: the stage is reported, or the action ends.                   *)
Spec ==
  /\ Safety
  /\ WF_vars(OpenEnds)
  /\ WF_vars(CancelledActionEnds)
  /\ WF_vars(NextStage \/ Finish)
============================================================================
