--------------------------- MODULE Ft9201Driver ---------------------------
(***************************************************************************)
(* One device of the driver, with both of its machines on the fields that  *)
(* they share: task_ssm, reg_buf, rearm_retries, the size of the sensor    *)
(* and the cancellable.  The activation stores the size that the capture   *)
(* reads; libfprint calls close and the actions only on an open device on  *)
(* which nothing runs, and one operation at a time.                        *)
(***************************************************************************)
EXTENDS Ft9201Protocol, Sequences

CONSTANTS
  Reply, FirmwareFiles, ft9201_firmware_script,
  Picture, NoFrame,
  REARM_MAX_RETRY, AUTO_POWER_MAX_RETRY, MCU_READY_MAX_POLLS,
  KEEPALIVE_POLLS, SPURIOUS_MAX_POLLS, ENROLL_STAGES

ASSUME PictureAssumption == NoFrame \notin Picture

ASSUME StagesAssumption == ENROLL_STAGES \in Nat \ {0}

VARIABLES
  device, claimed, cancelled, open_error, task_ssm, reg_buf,
  chip_id, sensor_width, sensor_height, sensor_type,
  retry_count, fw_data, fw_step, rearm_retries, fw_reloaded,
  finger_status, outcome, delivered, announced, spurious_polls, idle_polls,
  frame, action, enroll_frames, enroll_array

Activation == INSTANCE Ft9201Activation
Capture    == INSTANCE Ft9201Capture
                WITH Dimensions <- (1..255) \X (1..255)

(* What only one of the two machines writes. *)
activation_only == <<device, claimed, open_error, chip_id, sensor_type,
                     retry_count, fw_data, fw_step, fw_reloaded>>
capture_only    == <<finger_status, outcome, delivered, announced,
                     spurious_polls, idle_polls, frame, action, enroll_frames,
                     enroll_array>>
shared == <<cancelled, task_ssm, reg_buf, sensor_width, sensor_height,
            rearm_retries>>
vars   == <<activation_only, capture_only, shared>>

-----------------------------------------------------------------------------
OpenStep  == Activation!activate_run_state /\ UNCHANGED capture_only

ActionStep == device = "open" /\ Capture!capture_run_state
              /\ UNCHANGED activation_only

dev_open == (Activation!dev_open \/ Activation!dev_open_claim_fails)
            /\ UNCHANGED capture_only

dev_close == task_ssm = "NULL" /\ Activation!dev_close /\ UNCHANGED capture_only

dev_enroll == device = "open" /\ Capture!dev_enroll /\ UNCHANGED activation_only

dev_other  == device = "open" /\ Capture!dev_other /\ UNCHANGED activation_only

Cancel ==
  \/ Activation!Cancel /\ UNCHANGED capture_only
  \/ device = "open" /\ Capture!Cancel /\ UNCHANGED activation_only

Init ==
  /\ Activation!Init
  /\ finger_status = "NONE"
  /\ outcome = "none" /\ delivered = <<>>
  /\ announced = 0
  /\ spurious_polls = 0 /\ idle_polls = 0
  /\ frame = NoFrame /\ enroll_frames = <<>> /\ enroll_array = FALSE
  /\ action = "CAPTURE"

Next == OpenStep \/ ActionStep \/ dev_open \/ dev_close \/ dev_enroll \/ dev_other \/ Cancel

Spec == Init /\ [][Next]_vars

(* The main loop runs the machine that is there. *)
FairSpec == Spec /\ WF_vars(OpenStep) /\ WF_vars(ActionStep)

-----------------------------------------------------------------------------
(* The device as libfprint is promised it: the frames of an action are     *)
(* those of the array and the one in self->frame.                          *)
Abstract == INSTANCE FpDevice WITH
  doing    <- IF device = "open" /\ task_ssm # "NULL" THEN action ELSE "nothing",
  progress <- Len(enroll_frames),
  taken    <- IF frame = NoFrame THEN enroll_frames
              ELSE Append(enroll_frames, frame)

(* Whatever the sensor and the disk give, the driver is such a device: one *)
(* frame of a finger for each stage, no frame without a finger, none lost  *)
(* or used twice, every result from exactly the frames of its action, and  *)
(* an end to every open operation and to every cancelled action            *)
(* (dev_open, capture_run_state, capture_ssm_done, activate_ssm_done).     *)
ImplementsFpDevice == Abstract!Spec

(* The two machines are one at a time: a machine that runs is that of the  *)
(* operation of the device, on an interface that the driver still has, and *)
(* the capture reads a size that this activation stored.                   *)
OneMachineOnItsInterface ==
  /\ task_ssm \in Activation!activate_states <=> device = "opening"
  /\ task_ssm \in Capture!capture_states => device = "open" /\ claimed
  /\ device = "open" => sensor_width # 0 /\ sensor_height # 0 /\ fw_data = 0
===========================================================================
