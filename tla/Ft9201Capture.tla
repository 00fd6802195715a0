--------------------------- MODULE Ft9201Capture ---------------------------
(***************************************************************************)
(* The capture machine of the driver: ft9201_start_capture, the states of  *)
(* capture_run_state, ft9201_frame_read_cb and capture_ssm_done.  It serves *)
(* the four actions of libfprint on an open device.                        *)
(*                                                                         *)
(* task_ssm, the steps, the constant Reply and the delays are as in        *)
(* Ft9201Activation.  A frame is a member of Picture: what the driver does *)
(* with its pixels, besides the two tests of frame_read_cb, is not here.   *)
(***************************************************************************)
EXTENDS Ft9201Protocol, Sequences

CONSTANTS
  Reply,               \* register -> the answers that a read may give
  Picture,             \* the frames with ridges that a sensor may give
  NoFrame,             \* the NULL of self->frame
  Dimensions,          \* the <<width, height>> an activation may store
  REARM_MAX_RETRY,
  KEEPALIVE_POLLS,
  SPURIOUS_MAX_POLLS,
  ENROLL_STAGES

ASSUME ReplyAssumption ==
  /\ DOMAIN Reply = Register
  /\ \A r \in Register : Reply[r] # {} /\ Reply[r] \subseteq Byte \X Byte

ASSUME PictureAssumption == NoFrame \notin Picture

(* ACTIVATE_STORE_DIM_HEIGHT lets no zero pass. *)
ASSUME DimensionAssumption ==
  Dimensions # {} /\ Dimensions \subseteq (1..255) \X (1..255)

ASSUME LimitAssumption ==
  /\ REARM_MAX_RETRY \in Nat
  /\ KEEPALIVE_POLLS \in Nat \ {0}
  /\ SPURIOUS_MAX_POLLS \in Nat
  /\ ENROLL_STAGES \in Nat \ {0}

IMG_HEADER_SIZE == 2

CaptureAction == {"ENROLL", "VERIFY", "IDENTIFY", "CAPTURE"}
Outcome == {"none", "ENROLLED", "MATCH", "NO_MATCH", "IMAGE", "DATA_INVALID",
            "TRANSFER", "PROTO"}

VARIABLES
  cancelled,       \* the cancellable of the running action is cancelled
  finger_status,   \* the last fpi_device_report_finger_status
  outcome,         \* what the last action was completed with
  delivered,       \* the frames that the outcome was made from
  sensor_width, sensor_height,
  task_ssm,
  reg_buf,
  announced,       \* the length of the last SET_BULK_TRANSFER request
  spurious_polls,
  idle_polls,
  rearm_retries,
  frame,
  action,
  enroll_frames,   \* the frames of the array, in order
  enroll_array     \* self->enroll_frames is not NULL

fpdevice   == <<cancelled, finger_status, outcome, delivered>>
dimensions == <<sensor_width, sensor_height>>
counters   == <<spurious_polls, idle_polls, rearm_retries>>
frames     == <<frame, enroll_frames, enroll_array>>
vars       == <<fpdevice, dimensions, task_ssm, reg_buf, announced, counters,
                frames, action>>

-----------------------------------------------------------------------------
(* The states of the machine that only exchange bytes with the sensor.     *)

(* <<state, register, next state>> *)
CaptureReads == {
  <<"CAP_POLL_FINGER", "INT_PORT_STATES", "CAP_POLL_FINGER_CHECK">>,
  <<"CAP_READ_READY", "CAPTURE_READY", "CAP_CHECK_READY">>,
  <<"CAP_READ_PRESENT", "FINGER_PRESENT", "CAP_CHECK_PRESENT">>,
  <<"CAP_REARM_READ", "MCU_SENSOR_STATUS", "CAP_REARM_1">>,
  <<"CAP_KEEPALIVE_VERIFY_STATUS", "MCU_SENSOR_STATUS", "CAP_KEEPALIVE_VERIFY_PRESENT">>,
  <<"CAP_KEEPALIVE_VERIFY_PRESENT", "FINGER_PRESENT", "CAP_KEEPALIVE_VERIFY_RESUMED">>,
  <<"CAP_KEEPALIVE_VERIFY_RESUMED", "MCU_SENSOR_STATUS", "CAP_KEEPALIVE_VERIFY_CHECK">> }

(* <<state, next state>> *)
CaptureWrites == {
  <<"CAP_MODE_RESET", "CAP_MODE_RESET_DELAY">>,
  <<"CAP_MODE_IN", "CAP_SET_TRANSFER">>,
  <<"CAP_REARM_1", "CAP_REARM_2">>,
  <<"CAP_REARM_2", "CAP_REARM_DELAY">>,
  <<"CAP_KEEPALIVE_WAKE_1", "CAP_KEEPALIVE_WAKE_1_DELAY">>,
  <<"CAP_KEEPALIVE_WAKE_2", "CAP_KEEPALIVE_SETTLE">> }

(* Mutant: the renewal goes straight to its verification. *)
CaptureDelays_no_renewal == {
  <<"CAP_MODE_RESET_DELAY", "CAP_MODE_IN">>,
  <<"CAP_REARM_DELAY", "CAP_KEEPALIVE_VERIFY_STATUS">>,
  <<"CAP_KEEPALIVE_WAKE_1_DELAY", "CAP_KEEPALIVE_WAKE_2">>,
  <<"CAP_KEEPALIVE_SETTLE", "CAP_KEEPALIVE_VERIFY_STATUS">> }

(* <<state, next state>> *)
CaptureDelays == {
  <<"CAP_MODE_RESET_DELAY", "CAP_MODE_IN">>,
  <<"CAP_REARM_DELAY", "CAP_KEEPALIVE_VERIFY_STATUS">>,
  <<"CAP_KEEPALIVE_WAKE_1_DELAY", "CAP_KEEPALIVE_WAKE_2">>,
  <<"CAP_KEEPALIVE_SETTLE", "CAP_REARM_READ">> }

capture_states ==
  {r[1] : r \in CaptureReads} \cup {w[1] : w \in CaptureWrites} \cup
  {d[1] : d \in CaptureDelays} \cup
  {"CAP_POLL_FINGER_CHECK", "CAP_CHECK_READY", "CAP_CHECK_PRESENT",
   "CAP_SET_TRANSFER", "CAP_READ_IMAGE", "CAP_FRAME_DONE",
   "CAP_KEEPALIVE_VERIFY_CHECK"}

fpi_ssm_jump_to_state(state) == task_ssm' = state

image_size == sensor_width * sensor_height

-----------------------------------------------------------------------------
(* The end of the machine.                                                 *)

(* Mutant: the array of an enrolment survives its action. *)
reset_task_keeps_array ==
  /\ task_ssm' = "NULL"
  /\ spurious_polls' = 0
  /\ idle_polls' = 0
  /\ rearm_retries' = 0
  /\ frame' = NoFrame
  /\ UNCHANGED <<enroll_frames, enroll_array>>

reset_task ==
  /\ task_ssm' = "NULL"
  /\ spurious_polls' = 0
  /\ idle_polls' = 0
  /\ rearm_retries' = 0
  /\ frame' = NoFrame
  /\ enroll_frames' = <<>>
  /\ enroll_array' = FALSE

capture_ssm_failed(error) ==
  /\ reset_task
  /\ outcome' = error
  /\ delivered' = <<>>

(* What a completed action reports.  A print of another sensor size, or    *)
(* one that cannot be unpacked, is an error of a verify operation and is   *)
(* left out of an identify operation.                                      *)
PossibleOutcomes ==
  CASE action = "ENROLL"   -> {"ENROLLED"}
    [] action = "VERIFY"   -> {"MATCH", "NO_MATCH", "DATA_INVALID"}
    [] action = "IDENTIFY" -> {"MATCH", "NO_MATCH"}
    [] action = "CAPTURE"  -> {"IMAGE"}

(* Mutant: the frame of the last stage is left out of the template. *)
capture_ssm_completed_without_last(array, last) ==
  /\ outcome' \in PossibleOutcomes
  /\ delivered' = IF outcome' = "DATA_INVALID" THEN <<>>
                  ELSE IF action = "ENROLL" THEN enroll_frames ELSE <<last>>
  /\ reset_task

(* array and last are enroll_frames and frame at the end of the machine.   *)
capture_ssm_completed(array, last) ==
  /\ outcome' \in PossibleOutcomes
  /\ delivered' = IF outcome' = "DATA_INVALID" THEN <<>>
                  ELSE IF action = "ENROLL" THEN array ELSE <<last>>
  /\ reset_task

-----------------------------------------------------------------------------
ReadRegister ==
  /\ ~cancelled
  /\ \E r \in CaptureReads :
       /\ task_ssm = r[1]
       /\ reg_buf' \in Reply[r[2]]
       /\ fpi_ssm_jump_to_state(r[3])
  /\ UNCHANGED <<fpdevice, dimensions, announced, counters, frames, action>>

WriteRegister ==
  /\ ~cancelled
  /\ \E w \in CaptureWrites :
       /\ task_ssm = w[1]
       /\ fpi_ssm_jump_to_state(w[2])
  /\ UNCHANGED <<fpdevice, dimensions, reg_buf, announced, counters, frames,
                 action>>

DelayElapsed ==
  /\ \E d \in CaptureDelays :
       /\ task_ssm = d[1]
       /\ fpi_ssm_jump_to_state(d[2])
  /\ UNCHANGED <<fpdevice, dimensions, reg_buf, announced, counters, frames,
                 action>>

TransferState ==
  \/ \E r \in CaptureReads : task_ssm = r[1]
  \/ \E w \in CaptureWrites : task_ssm = w[1]
  \/ task_ssm \in {"CAP_SET_TRANSFER", "CAP_READ_IMAGE"}

(* A stall, a timeout, a short bulk read, a lost device, the cancellation. *)
TransferFails ==
  /\ TransferState
  /\ capture_ssm_failed("TRANSFER")
  /\ UNCHANGED <<cancelled, finger_status, dimensions, reg_buf, announced,
                 action>>

-----------------------------------------------------------------------------
(* The wait for a finger.                                                  *)

PollFingerReported ==
  /\ task_ssm = "CAP_POLL_FINGER_CHECK"
  /\ reg_buf[1] = INT_PORT_FINGER_PRESENT
  /\ idle_polls' = 0
  /\ fpi_ssm_jump_to_state("CAP_READ_READY")
  /\ UNCHANGED <<fpdevice, dimensions, reg_buf, announced, spurious_polls,
                 rearm_retries, frames, action>>

(* Mutant: the delayed jump lands behind the poll. *)
PollFingerIdle_spins ==
  /\ task_ssm = "CAP_POLL_FINGER_CHECK"
  /\ reg_buf[1] # INT_PORT_FINGER_PRESENT
  /\ idle_polls + 1 < KEEPALIVE_POLLS
  /\ UNCHANGED vars

PollFingerIdle ==
  /\ task_ssm = "CAP_POLL_FINGER_CHECK"
  /\ reg_buf[1] # INT_PORT_FINGER_PRESENT
  /\ idle_polls + 1 < KEEPALIVE_POLLS
  /\ idle_polls' = idle_polls + 1
  /\ fpi_ssm_jump_to_state("CAP_POLL_FINGER")
  /\ UNCHANGED <<fpdevice, dimensions, reg_buf, announced, spurious_polls,
                 rearm_retries, frames, action>>

PollFingerRenew ==
  /\ task_ssm = "CAP_POLL_FINGER_CHECK"
  /\ reg_buf[1] # INT_PORT_FINGER_PRESENT
  /\ idle_polls + 1 >= KEEPALIVE_POLLS
  /\ idle_polls' = 0
  /\ fpi_ssm_jump_to_state("CAP_KEEPALIVE_WAKE_1")
  /\ UNCHANGED <<fpdevice, dimensions, reg_buf, announced, spurious_polls,
                 rearm_retries, frames, action>>

(* A press that finds 0x30 without 0xbb is dropped, and not counted. *)
CheckReady ==
  /\ task_ssm = "CAP_CHECK_READY"
  /\ \/ /\ reg_buf[1] = CAPTURE_READY_MAGIC
        /\ fpi_ssm_jump_to_state("CAP_READ_PRESENT")
     \/ /\ reg_buf[1] # CAPTURE_READY_MAGIC
        /\ fpi_ssm_jump_to_state("CAP_POLL_FINGER")
  /\ UNCHANGED <<fpdevice, dimensions, reg_buf, announced, counters, frames,
                 action>>

CheckPresentFinger ==
  /\ task_ssm = "CAP_CHECK_PRESENT"
  /\ reg_buf[1] = FINGER_PRESENT_A0
  /\ spurious_polls' = 0
  /\ finger_status' = "PRESENT"
  /\ fpi_ssm_jump_to_state("CAP_MODE_RESET")
  /\ UNCHANGED <<cancelled, outcome, delivered, dimensions, reg_buf, announced,
                 idle_polls, rearm_retries, frames, action>>

(* Mutant: the limit is tested one poll too late. *)
CheckPresentSpurious_late ==
  /\ task_ssm = "CAP_CHECK_PRESENT"
  /\ reg_buf[1] # FINGER_PRESENT_A0
  /\ spurious_polls <= SPURIOUS_MAX_POLLS
  /\ spurious_polls' = spurious_polls + 1
  /\ fpi_ssm_jump_to_state("CAP_POLL_FINGER")
  /\ UNCHANGED <<fpdevice, dimensions, reg_buf, announced, idle_polls,
                 rearm_retries, frames, action>>

CheckPresentSpurious ==
  /\ task_ssm = "CAP_CHECK_PRESENT"
  /\ reg_buf[1] # FINGER_PRESENT_A0
  /\ spurious_polls + 1 <= SPURIOUS_MAX_POLLS
  /\ spurious_polls' = spurious_polls + 1
  /\ fpi_ssm_jump_to_state("CAP_POLL_FINGER")
  /\ UNCHANGED <<fpdevice, dimensions, reg_buf, announced, idle_polls,
                 rearm_retries, frames, action>>

CheckPresentFails ==
  /\ task_ssm = "CAP_CHECK_PRESENT"
  /\ reg_buf[1] # FINGER_PRESENT_A0
  /\ spurious_polls + 1 > SPURIOUS_MAX_POLLS
  /\ capture_ssm_failed("PROTO")
  /\ UNCHANGED <<cancelled, finger_status, dimensions, reg_buf, announced,
                 action>>

-----------------------------------------------------------------------------
(* The image.                                                              *)

(* Mutant: the length is kept in a byte. *)
SetTransfer_byte ==
  /\ task_ssm = "CAP_SET_TRANSFER"
  /\ ~cancelled
  /\ announced' = (image_size + IMG_HEADER_SIZE) % 256
  /\ fpi_ssm_jump_to_state("CAP_READ_IMAGE")
  /\ UNCHANGED <<fpdevice, dimensions, reg_buf, counters, frames, action>>

(* The length goes to the sensor as a guint16. *)
SetTransfer ==
  /\ task_ssm = "CAP_SET_TRANSFER"
  /\ ~cancelled
  /\ announced' = (image_size + IMG_HEADER_SIZE) % 65536
  /\ fpi_ssm_jump_to_state("CAP_READ_IMAGE")
  /\ UNCHANGED <<fpdevice, dimensions, reg_buf, counters, frames, action>>

(* Another header than dd dd: status bytes of a busy MCU, and no frame. *)
ReadImageBadHeader ==
  /\ task_ssm = "CAP_READ_IMAGE"
  /\ ~cancelled
  /\ fpi_ssm_jump_to_state("CAP_REARM_READ")
  /\ UNCHANGED <<fpdevice, dimensions, reg_buf, announced, counters, frames,
                 action>>

(* Mutant: a discarded frame goes back to the poll at once. *)
ReadImageFlat_polls ==
  /\ task_ssm = "CAP_READ_IMAGE"
  /\ ~cancelled
  /\ frame' = NoFrame
  /\ fpi_ssm_jump_to_state("CAP_POLL_FINGER")
  /\ UNCHANGED <<fpdevice, dimensions, reg_buf, announced, counters,
                 enroll_frames, enroll_array, action>>

(* All pixels equal, which is what a frame of one pixel always is. *)
ReadImageFlat ==
  /\ task_ssm = "CAP_READ_IMAGE"
  /\ ~cancelled
  /\ frame' = NoFrame
  /\ fpi_ssm_jump_to_state("CAP_REARM_READ")
  /\ UNCHANGED <<fpdevice, dimensions, reg_buf, announced, counters,
                 enroll_frames, enroll_array, action>>

ReadImageGood ==
  /\ task_ssm = "CAP_READ_IMAGE"
  /\ ~cancelled
  /\ image_size > 1
  /\ frame' \in Picture
  /\ fpi_ssm_jump_to_state("CAP_REARM_READ")
  /\ UNCHANGED <<fpdevice, dimensions, reg_buf, announced, counters,
                 enroll_frames, enroll_array, action>>

-----------------------------------------------------------------------------
(* The arm operation is verified after a frame and after a renewal.        *)

(* Mutant: the attempt is not counted. *)
VerifyRetry_uncounted ==
  /\ task_ssm = "CAP_KEEPALIVE_VERIFY_CHECK"
  /\ ~is_mcu_busy(reg_buf)
  /\ rearm_retries < REARM_MAX_RETRY
  /\ fpi_ssm_jump_to_state("CAP_KEEPALIVE_WAKE_1")
  /\ UNCHANGED <<fpdevice, dimensions, reg_buf, announced, counters, frames,
                 action>>

VerifyRetry ==
  /\ task_ssm = "CAP_KEEPALIVE_VERIFY_CHECK"
  /\ ~is_mcu_busy(reg_buf)
  /\ rearm_retries < REARM_MAX_RETRY
  /\ rearm_retries' = rearm_retries + 1
  /\ fpi_ssm_jump_to_state("CAP_KEEPALIVE_WAKE_1")
  /\ UNCHANGED <<fpdevice, dimensions, reg_buf, announced, spurious_polls,
                 idle_polls, frames, action>>

(* Mutant: the machine always goes to the frame. *)
VerifyDone_always_frame ==
  /\ task_ssm = "CAP_KEEPALIVE_VERIFY_CHECK"
  /\ is_mcu_busy(reg_buf) \/ rearm_retries >= REARM_MAX_RETRY
  /\ rearm_retries' = 0
  /\ fpi_ssm_jump_to_state("CAP_FRAME_DONE")
  /\ UNCHANGED <<fpdevice, dimensions, reg_buf, announced, spurious_polls,
                 idle_polls, frames, action>>

(* The MCU hunts, or the driver gives up on it with a warning. *)
VerifyDone ==
  /\ task_ssm = "CAP_KEEPALIVE_VERIFY_CHECK"
  /\ is_mcu_busy(reg_buf) \/ rearm_retries >= REARM_MAX_RETRY
  /\ rearm_retries' = 0
  /\ \/ /\ frame # NoFrame
        /\ fpi_ssm_jump_to_state("CAP_FRAME_DONE")
     \/ /\ frame = NoFrame
        /\ fpi_ssm_jump_to_state("CAP_POLL_FINGER")
  /\ UNCHANGED <<fpdevice, dimensions, reg_buf, announced, spurious_polls,
                 idle_polls, frames, action>>

(* Mutant: the frame of a stage stays in self->frame. *)
FrameDoneStage_keeps_frame ==
  /\ task_ssm = "CAP_FRAME_DONE"
  /\ action = "ENROLL"
  /\ Len(enroll_frames) + 1 < ENROLL_STAGES
  /\ enroll_frames' = Append(enroll_frames, frame)
  /\ finger_status' = "NEEDED"
  /\ fpi_ssm_jump_to_state("CAP_POLL_FINGER")
  /\ UNCHANGED <<cancelled, outcome, delivered, dimensions, reg_buf, announced,
                 counters, frame, enroll_array, action>>

(* Mutant: nobody is asked for the next press. *)
FrameDoneStage_no_prompt ==
  /\ task_ssm = "CAP_FRAME_DONE"
  /\ action = "ENROLL"
  /\ Len(enroll_frames) + 1 < ENROLL_STAGES
  /\ enroll_frames' = Append(enroll_frames, frame)
  /\ frame' = NoFrame
  /\ finger_status' = "NONE"
  /\ fpi_ssm_jump_to_state("CAP_POLL_FINGER")
  /\ UNCHANGED <<cancelled, outcome, delivered, dimensions, reg_buf, announced,
                 counters, enroll_array, action>>

FrameDoneStage ==
  /\ task_ssm = "CAP_FRAME_DONE"
  /\ action = "ENROLL"
  /\ Len(enroll_frames) + 1 < ENROLL_STAGES
  /\ enroll_frames' = Append(enroll_frames, frame)
  /\ frame' = NoFrame
  /\ finger_status' = "NEEDED"
  /\ fpi_ssm_jump_to_state("CAP_POLL_FINGER")
  /\ UNCHANGED <<cancelled, outcome, delivered, dimensions, reg_buf, announced,
                 counters, enroll_array, action>>

FrameDoneComplete ==
  /\ task_ssm = "CAP_FRAME_DONE"
  /\ action = "ENROLL" => Len(enroll_frames) + 1 >= ENROLL_STAGES
  /\ capture_ssm_completed(Append(enroll_frames, frame), frame)
  /\ finger_status' = "NONE"
  /\ UNCHANGED <<cancelled, dimensions, reg_buf, announced, action>>

-----------------------------------------------------------------------------
(* The calls of libfprint: dev_enroll, dev_verify, dev_identify,           *)
(* dev_capture, and the cancellation of the action.                        *)

start_capture(new) ==
  /\ task_ssm = "NULL"
  /\ action' = new
  /\ spurious_polls' = 0
  /\ idle_polls' = 0
  /\ rearm_retries' = 0
  /\ frame' = NoFrame
  /\ finger_status' = "NEEDED"
  /\ task_ssm' = "CAP_POLL_FINGER"
  /\ cancelled' = FALSE
  /\ outcome' = "none"
  /\ delivered' = <<>>
  /\ UNCHANGED <<dimensions, reg_buf, announced>>

dev_enroll ==
  /\ start_capture("ENROLL")
  /\ enroll_frames' = <<>>
  /\ enroll_array' = TRUE

dev_other ==
  /\ \E new \in CaptureAction \ {"ENROLL"} : start_capture(new)
  /\ UNCHANGED <<enroll_frames, enroll_array>>

Cancel ==
  /\ task_ssm # "NULL"
  /\ ~cancelled
  /\ cancelled' = TRUE
  /\ UNCHANGED <<finger_status, outcome, delivered, dimensions, task_ssm,
                 reg_buf, announced, counters, frames, action>>

-----------------------------------------------------------------------------
Init ==
  /\ cancelled = FALSE
  /\ finger_status = "NONE"
  /\ outcome = "none"
  /\ delivered = <<>>
  /\ \E d \in Dimensions : sensor_width = d[1] /\ sensor_height = d[2]
  /\ task_ssm = "NULL"
  /\ reg_buf = <<MCU_STATE_BUSY, MCU_STATE_BUSY>>
  /\ announced = 0
  /\ spurious_polls = 0 /\ idle_polls = 0 /\ rearm_retries = 0
  /\ frame = NoFrame
  /\ enroll_frames = <<>>
  /\ enroll_array = FALSE
  /\ action = "CAPTURE"

capture_run_state ==
  \/ ReadRegister \/ WriteRegister \/ DelayElapsed \/ TransferFails
  \/ PollFingerReported \/ PollFingerIdle \/ PollFingerRenew
  \/ CheckReady
  \/ CheckPresentFinger \/ CheckPresentSpurious \/ CheckPresentFails
  \/ SetTransfer \/ ReadImageBadHeader \/ ReadImageFlat \/ ReadImageGood
  \/ VerifyRetry \/ VerifyDone
  \/ FrameDoneStage \/ FrameDoneComplete

Next == capture_run_state \/ dev_enroll \/ dev_other \/ Cancel

Spec == Init /\ [][Next]_vars

-----------------------------------------------------------------------------
TypeOK ==
  /\ cancelled \in BOOLEAN
  /\ finger_status \in {"NONE", "NEEDED", "PRESENT"}
  /\ outcome \in Outcome
  /\ delivered \in Seq(Picture)
  /\ sensor_width \in 1..255
  /\ sensor_height \in 1..255
  /\ task_ssm \in capture_states \cup {"NULL"}
  /\ reg_buf \in Byte \X Byte
  /\ announced \in UInt16
  /\ spurious_polls \in 0..SPURIOUS_MAX_POLLS
  /\ idle_polls \in 0..(KEEPALIVE_POLLS - 1)
  /\ rearm_retries \in 0..REARM_MAX_RETRY
  /\ frame \in Picture \cup {NoFrame}
  /\ enroll_frames \in Seq(Picture)
  /\ enroll_array \in BOOLEAN
  /\ action \in CaptureAction

(* Every way an action ends (a result, an error at any state, a print that *)
(* cannot be used) leaves nothing behind for the next one.                 *)
NothingOutlivesAnAction ==
  task_ssm = "NULL" =>
    /\ frame = NoFrame /\ enroll_frames = <<>> /\ ~enroll_array
    /\ spurious_polls = 0 /\ idle_polls = 0 /\ rearm_retries = 0

(* CAP_FRAME_DONE copies self->frame and fills the array without a test:   *)
(* the frame is there, and an enrolment has its array with a free place.   *)
FrameDoneHasItsFrame ==
  /\ task_ssm = "CAP_FRAME_DONE" => frame # NoFrame
  /\ task_ssm # "NULL" =>
       /\ enroll_array <=> action = "ENROLL"
       /\ Len(enroll_frames) < ENROLL_STAGES

(* The length that the sensor was told is the length that is read, for     *)
(* every size that an activation may store.                                *)
AnnouncedIsRead ==
  task_ssm = "CAP_READ_IMAGE" => announced = image_size + IMG_HEADER_SIZE

(* A good frame is never held back by a sensor that will not hunt again:   *)
(* the arm operation is tried a limited number of times, and then the      *)
(* frame is used, if the action did not end before.                        *)
FrameIsUsed == frame # NoFrame ~> frame = NoFrame

(* A cancelled action ends, from every state of the machine: no loop of it *)
(* goes without a transfer, and it is the transfer that sees the cancel.   *)
CancelEndsTheAction == cancelled ~> task_ssm = "NULL" \/ ~cancelled
=============================================================================
