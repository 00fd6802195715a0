----------------------- MODULE Ft9201CaptureHistory -----------------------
(***************************************************************************)
(* The capture machine with history variables, and the properties that     *)
(* need them.  The history never restricts a step.                         *)
(***************************************************************************)
EXTENDS Ft9201Capture

VARIABLES
  shots,      \* the good frames of this action, in the order they came
  empty,      \* polls without a finger since 0x1f and 0x1e were last written
              \* or the action began, up to EmptyCap
  dropped,    \* since then CAP_CHECK_READY dropped a press
  presses,    \* reports of a finger since the last image, up to PressCap
  discarded,  \* a frame of this stage was discarded
  unarmed     \* an image was read in this action, and 0x1f and 0x1e not
              \* written since

history == <<shots, empty, dropped, presses, discarded, unarmed>>
hvars   == <<vars, history>>

PressCap == SPURIOUS_MAX_POLLS + 2

(* Each spurious press may come one poll before the renewal would have.    *)
RenewalLimit == (SPURIOUS_MAX_POLLS + 1) * (KEEPALIVE_POLLS - 1) + 1

EmptyCap == RenewalLimit + 1

Starts == task_ssm = "NULL" /\ task_ssm' # "NULL"
Ends   == task_ssm # "NULL" /\ task_ssm' = "NULL"

(* A step of the machine that leaves the given state and does not end it. *)
Leaves(state) == task_ssm = state /\ task_ssm' \notin {state, "NULL"}

GoodFrame == Leaves("CAP_READ_IMAGE") /\ frame' # NoFrame

HistoryInit ==
  /\ Init
  /\ shots = <<>>
  /\ empty = 0
  /\ dropped = FALSE
  /\ presses = 0
  /\ discarded = FALSE
  /\ unarmed = FALSE

ObserveStart ==
  /\ shots' = <<>>
  /\ empty' = 0
  /\ dropped' = FALSE
  /\ presses' = 0
  /\ discarded' = FALSE
  /\ unarmed' = FALSE

ObserveEmpty ==
  /\ empty' = CASE Leaves("CAP_REARM_2") -> 0
                [] task_ssm = "CAP_POLL_FINGER_CHECK"
                     /\ task_ssm' # "CAP_READ_READY"
                     /\ empty < EmptyCap -> empty + 1
                [] OTHER -> empty
  /\ dropped' = CASE Leaves("CAP_REARM_2") -> FALSE
                  [] task_ssm = "CAP_CHECK_READY"
                       /\ task_ssm' = "CAP_POLL_FINGER" -> TRUE
                  [] OTHER -> dropped

ObservePresses ==
  presses' = CASE Leaves("CAP_READ_IMAGE") -> 0
               [] task_ssm = "CAP_POLL_FINGER_CHECK"
                    /\ task_ssm' = "CAP_READ_READY"
                    /\ presses < PressCap -> presses + 1
               [] OTHER -> presses

ObserveStep ==
  /\ shots' = IF GoodFrame THEN Append(shots, frame') ELSE shots
  /\ ObserveEmpty
  /\ ObservePresses
  /\ discarded' = IF Leaves("CAP_FRAME_DONE") THEN FALSE
                  ELSE discarded \/ (Leaves("CAP_READ_IMAGE") /\ ~GoodFrame)
  /\ unarmed' = CASE Leaves("CAP_READ_IMAGE") -> TRUE
                  [] Leaves("CAP_REARM_2")    -> FALSE
                  [] OTHER                    -> unarmed

HistoryNext ==
  /\ Next
  /\ \/ Starts /\ ObserveStart
     \/ ~Starts /\ ~Ends /\ task_ssm' # task_ssm /\ ObserveStep
     \/ ~Starts /\ (Ends \/ task_ssm' = task_ssm) /\ UNCHANGED history

HistorySpec == HistoryInit /\ [][HistoryNext]_hvars

(* Transfers end, delays elapse, and the main loop runs the machine. *)
HistoryFairSpec == HistorySpec /\ WF_vars(capture_run_state)

-----------------------------------------------------------------------------
(* Every good frame of an action is used exactly once and in its order: it *)
(* is in the array or in self->frame, whatever discarded frames, renewals, *)
(* failed re-arms and stages come between.                                 *)
GoodFramesAreUsedOnce ==
  task_ssm # "NULL" =>
    shots = enroll_frames \o (IF frame = NoFrame THEN <<>> ELSE <<frame>>)

(* What libfprint gets is made from the frames of this action, all of      *)
(* them: ENROLL_STAGES for an enrolment, one for the other actions.        *)
ResultsAreFromThisAction ==
  /\ outcome = "ENROLLED" =>
       delivered = shots /\ Len(shots) = ENROLL_STAGES
  /\ outcome \in {"MATCH", "NO_MATCH", "IMAGE"} =>
       delivered = shots /\ Len(shots) = 1

(* The sensor stops its detection when nobody renews it.  A report of a    *)
(* finger sets idle_polls back to zero without a renewal, but as long as   *)
(* the capture engine reads ready (no press is dropped at CAP_CHECK_READY) *)
(* the limit on spurious presses bounds that too: 0x1f and 0x1e are        *)
(* written again after at most RenewalLimit polls without a finger, which  *)
(* need not come one after the other.                                      *)
RenewedInTime == ~dropped => empty <= RenewalLimit

(* After an image, good or discarded, the action arms the sensor again     *)
(* before it polls it.                                                     *)
PollsOnlyAnArmedSensor == task_ssm = "CAP_POLL_FINGER" => ~unarmed

(* The user is asked for every press: while the machine waits for the      *)
(* press of a stage, and has discarded none of its frames, the last status *)
(* that libfprint was told is FP_FINGER_STATUS_NEEDED.                     *)
PromptedForEachStage ==
  /\ task_ssm \in {"CAP_POLL_FINGER", "CAP_POLL_FINGER_CHECK", "CAP_READ_READY",
                   "CAP_CHECK_READY", "CAP_READ_PRESENT", "CAP_CHECK_PRESENT"}
  /\ ~discarded
  => finger_status = "NEEDED"

-----------------------------------------------------------------------------
(* What the documents say.                                                 *)

(* The header: a limit stands on the case that the sensor reports a finger *)
(* and the frame behind it is not usable, for instance when the capture    *)
(* engine loses its armed state.                                           *)
PressesWithoutImageAreLimited == presses <= SPURIOUS_MAX_POLLS + 1
=============================================================================
