------------------------ MODULE Ft9201Driver_proofs ------------------------
(***************************************************************************)
(* The driver as a whole, for every sensor, every disk, every set of       *)
(* pictures and all limits: its machines never mix, and every step of it   *)
(* is a step of the device that libfprint is promised, or none.            *)
(***************************************************************************)
EXTENDS Ft9201Driver, TLAPS

activate_states == Activation!activate_states
capture_states  == Capture!capture_states

(* The activation states that come after the size was stored and tested. *)
Sized ==
  {"ACTIVATE_CONFIG_WRITE_22", "ACTIVATE_CONFIG_WRITE_23",
   "ACTIVATE_READ_CAPTURE_READY", "ACTIVATE_CHECK_CAPTURE_READY",
   "ACTIVATE_ARM_WRITE_01", "ACTIVATE_ARM_WRITE_41", "ACTIVATE_ARM_WRITE_30",
   "ACTIVATE_ARM_VERIFY_READ", "ACTIVATE_ARM_VERIFY_CHECK",
   "ACTIVATE_AUTO_POWER_POLL_READ", "ACTIVATE_AUTO_POWER_POLL_CHECK",
   "ACTIVATE_AUTO_POWER_SET_1", "ACTIVATE_AUTO_POWER_SET_2",
   "ACTIVATE_AUTO_POWER_DELAY", "ACTIVATE_AUTO_POWER_POLL_2_READ",
   "ACTIVATE_AUTO_POWER_POLL_2_CHECK", "ACTIVATE_AUTO_POWER_PRESENT_READ",
   "ACTIVATE_AUTO_POWER_HUNTING_READ", "ACTIVATE_AUTO_POWER_HUNTING_CHECK"}

(* The capture states between the press and its image, and before them. *)
Imaging == {"CAP_MODE_RESET", "CAP_MODE_RESET_DELAY", "CAP_MODE_IN",
            "CAP_SET_TRANSFER", "CAP_READ_IMAGE"}

Waiting == {"CAP_POLL_FINGER", "CAP_POLL_FINGER_CHECK", "CAP_READ_READY",
            "CAP_CHECK_READY", "CAP_READ_PRESENT", "CAP_CHECK_PRESENT"}

(* Which machine runs, and on what. *)
MachineInv ==
  /\ device \in {"closed", "opening", "open"}
  /\ task_ssm \in activate_states \cup capture_states \cup {"NULL"}
  /\ task_ssm \in activate_states <=> device = "opening"
  /\ task_ssm \in capture_states => device = "open"
  /\ claimed <=> device # "closed"
  /\ fw_data # 0 => device = "opening"
  /\ task_ssm \in Sized \/ device = "open" => sensor_width # 0 /\ sensor_height # 0

(* What the capture machine holds, at its states and outside of it. *)
ActionInv ==
  /\ action \in Capture!CaptureAction
  /\ frame \in Picture \cup {NoFrame}
  /\ enroll_frames \in Seq(Picture)
  /\ task_ssm \notin capture_states => frame = NoFrame /\ enroll_frames = <<>>
  /\ task_ssm \in Waiting \cup Imaging => frame = NoFrame
  /\ task_ssm \in Imaging => finger_status = "PRESENT"
  /\ task_ssm = "CAP_FRAME_DONE" => frame # NoFrame
  /\ Len(enroll_frames) < ENROLL_STAGES
  /\ action # "ENROLL" => enroll_frames = <<>>

DInv == MachineInv /\ ActionInv

-----------------------------------------------------------------------------
(* The states of the two machines are different. *)
LEMMA StatesApart ==
  /\ activate_states \cap capture_states = {}
  /\ "NULL" \notin activate_states \cup capture_states
  /\ Sized \subseteq activate_states
  /\ Waiting \cup Imaging \cup {"CAP_FRAME_DONE"} \subseteq capture_states
  BY DEF activate_states, capture_states, Sized, Waiting, Imaging,
         Activation!activate_states, Activation!RegisterReads,
         Activation!RegisterWrites, Activation!Delays,
         Capture!capture_states, Capture!CaptureReads,
         Capture!CaptureWrites, Capture!CaptureDelays

(* The rows of the activation stay in it, and before the size or behind.   *)
LEMMA ActivationReads ==
  \A r \in Activation!RegisterReads :
    r[1] \in activate_states /\ r[3] \in activate_states
      /\ (r[3] \in Sized => r[1] \in Sized)
  BY DEF activate_states, Sized, Activation!activate_states,
         Activation!RegisterReads, Activation!RegisterWrites, Activation!Delays

LEMMA ActivationWrites ==
  \A w \in Activation!RegisterWrites :
    w[1] \in activate_states /\ w[2] \in activate_states
      /\ (w[2] \in Sized => w[1] \in Sized)
  BY DEF activate_states, Sized, Activation!activate_states,
         Activation!RegisterReads, Activation!RegisterWrites, Activation!Delays

LEMMA ActivationDelays ==
  \A d \in Activation!Delays :
    d[1] \in activate_states /\ d[2] \in activate_states
      /\ (d[2] \in Sized => d[1] \in Sized)
  BY DEF activate_states, Sized, Activation!activate_states,
         Activation!RegisterReads, Activation!RegisterWrites, Activation!Delays

(* The rows of the capture stay in it.  They never lead to the frame, and  *)
(* never from elsewhere to the wait or to the image.                       *)
LEMMA CaptureReadRows ==
  \A r \in Capture!CaptureReads :
    /\ r[1] \in capture_states /\ r[3] \in capture_states
    /\ r[3] # "CAP_FRAME_DONE"
    /\ r[3] \in Waiting => r[1] \in Waiting
    /\ r[3] \in Imaging => r[1] \in Imaging
  BY DEF capture_states, Waiting, Imaging, Capture!capture_states,
         Capture!CaptureReads, Capture!CaptureWrites, Capture!CaptureDelays

LEMMA CaptureWriteRows ==
  \A w \in Capture!CaptureWrites :
    /\ w[1] \in capture_states /\ w[2] \in capture_states
    /\ w[2] # "CAP_FRAME_DONE"
    /\ w[2] \in Waiting => w[1] \in Waiting
    /\ w[2] \in Imaging => w[1] \in Imaging
  BY DEF capture_states, Waiting, Imaging, Capture!capture_states,
         Capture!CaptureReads, Capture!CaptureWrites, Capture!CaptureDelays

LEMMA CaptureDelayRows ==
  \A d \in Capture!CaptureDelays :
    /\ d[1] \in capture_states /\ d[2] \in capture_states
    /\ d[2] # "CAP_FRAME_DONE"
    /\ d[2] \in Waiting => d[1] \in Waiting
    /\ d[2] \in Imaging => d[1] \in Imaging
  BY DEF capture_states, Waiting, Imaging, Capture!capture_states,
         Capture!CaptureReads, Capture!CaptureWrites, Capture!CaptureDelays

(* The states that the machines name outside of their tables.              *)
LEMMA NamedStates ==
  /\ {"ACTIVATE_READ_MCU_STATE", "ACTIVATE_CHECK_MCU_STATE",
      "ACTIVATE_RECHECK_MCU_STATE", "ACTIVATE_WAKE_1",
      "ACTIVATE_WAIT_READY_READ", "ACTIVATE_WAIT_READY_NUDGE_1",
      "ACTIVATE_WAIT_READY_CHECK", "ACTIVATE_FW_STEP", "ACTIVATE_FW_NEXT",
      "ACTIVATE_READ_CHIP_ID_HIGH", "ACTIVATE_STORE_CHIP_ID_HIGH",
      "ACTIVATE_READ_CHIP_ID_LOW", "ACTIVATE_STORE_CHIP_ID_LOW",
      "ACTIVATE_READ_DIM_WIDTH", "ACTIVATE_STORE_DIM_WIDTH",
      "ACTIVATE_READ_DIM_HEIGHT", "ACTIVATE_STORE_DIM_HEIGHT"}
       \subseteq activate_states \ Sized
  /\ Imaging \cap Waiting = {}
  /\ {"CAP_REARM_READ", "CAP_KEEPALIVE_WAKE_1", "CAP_KEEPALIVE_VERIFY_CHECK"}
       \subseteq capture_states \ (Waiting \cup Imaging)
  /\ "CAP_FRAME_DONE" \notin Waiting \cup Imaging
  BY DEF activate_states, capture_states, Sized, Waiting, Imaging,
         Activation!activate_states, Activation!RegisterReads,
         Activation!RegisterWrites, Activation!Delays,
         Capture!capture_states, Capture!CaptureReads,
         Capture!CaptureWrites, Capture!CaptureDelays

-----------------------------------------------------------------------------
(* What a step of the open operation does to the device: it goes on, it    *)
(* fails, or it completes.                                                 *)
GoesOn ==
  /\ task_ssm' \in activate_states
  /\ UNCHANGED <<device, claimed>>
  /\ task_ssm' \in Sized =>
       \/ task_ssm \in Sized /\ UNCHANGED <<sensor_width, sensor_height>>
       \/ sensor_width' # 0 /\ sensor_height' # 0

OpenFails ==
  /\ task_ssm' = "NULL" /\ device' = "closed" /\ claimed' = FALSE
  /\ fw_data' = 0

OpenCompletes ==
  /\ task_ssm \in Sized
  /\ task_ssm' = "NULL" /\ device' = "open" /\ fw_data' = 0
  /\ UNCHANGED <<claimed, sensor_width, sensor_height>>

LEMMA OpenSteps ==
  ASSUME OpenStep
  PROVE  /\ task_ssm \in activate_states
         /\ UNCHANGED <<cancelled, capture_only>>
         /\ GoesOn \/ OpenFails \/ OpenCompletes
  <1> USE DEF Activation!session, Activation!identity
  <1>1. UNCHANGED capture_only /\ Activation!activate_run_state
    BY DEF OpenStep
  <1>2. /\ task_ssm \in activate_states
        /\ UNCHANGED cancelled
        /\ GoesOn \/ OpenFails \/ OpenCompletes
    <2>1. CASE Activation!ReadRegister
      BY <2>1, ActivationReads
      DEF Activation!ReadRegister,
          Activation!fpi_ssm_jump_to_state, GoesOn
    <2>2. CASE Activation!WriteRegister
      BY <2>2, ActivationWrites
      DEF Activation!WriteRegister,
          Activation!fpi_ssm_jump_to_state, GoesOn
    <2>3. CASE Activation!DelayElapsed
      BY <2>3, ActivationDelays
      DEF Activation!DelayElapsed,
          Activation!fpi_ssm_jump_to_state, GoesOn
    <2>4. CASE Activation!TransferFails
      BY <2>4, ActivationReads, ActivationWrites, NamedStates
      DEF Activation!TransferFails,
          Activation!TransferState, OpenFails, Activation!activate_ssm_failed
    <2>5. CASE Activation!CheckMcuState
      BY <2>5, NamedStates
      DEF Activation!CheckMcuState,
          Activation!fpi_ssm_jump_to_state, GoesOn
    <2>6. CASE Activation!RecheckMcuState
      BY <2>6, NamedStates
      DEF Activation!RecheckMcuState,
          Activation!start_download, Activation!fpi_ssm_jump_to_state, GoesOn, OpenFails, Activation!activate_ssm_failed
    <2>7. CASE Activation!FwStepEnd
      BY <2>7, NamedStates
      DEF Activation!FwStepEnd,
          Activation!fpi_ssm_jump_to_state, GoesOn
    <2>8. CASE Activation!FwStepRead
      BY <2>8, NamedStates
      DEF Activation!FwStepRead,
          Activation!fpi_ssm_jump_to_state, GoesOn
    <2>9. CASE Activation!FwStepSend
      BY <2>9, NamedStates
      DEF Activation!FwStepSend,
          Activation!fpi_ssm_jump_to_state, GoesOn
    <2>10. CASE Activation!FwStepDelay
      BY <2>10, NamedStates
      DEF Activation!FwStepDelay,
          Activation!fpi_ssm_jump_to_state, GoesOn
    <2>11. CASE Activation!FwNext
      BY <2>11, NamedStates
      DEF Activation!FwNext,
          Activation!fpi_ssm_jump_to_state, GoesOn
    <2>12. CASE Activation!WaitReadyCheck
      BY <2>12, NamedStates
      DEF Activation!WaitReadyCheck,
          Activation!PollCheck, Activation!recover_and_fail, Activation!fpi_ssm_jump_to_state, GoesOn, OpenFails, Activation!activate_ssm_failed
    <2>13. CASE Activation!AutoPowerPollCheck
      BY <2>13, StatesApart
      DEF Activation!AutoPowerPollCheck,
          Activation!PollCheck, Activation!recover_and_fail, Activation!fpi_ssm_jump_to_state, GoesOn, OpenFails, Activation!activate_ssm_failed, Sized
    <2>14. CASE Activation!AutoPowerPoll2Check
      BY <2>14, StatesApart
      DEF Activation!AutoPowerPoll2Check,
          Activation!PollCheck, Activation!recover_and_fail, Activation!fpi_ssm_jump_to_state, GoesOn, OpenFails, Activation!activate_ssm_failed, Sized
    <2>15. CASE Activation!StoreChipIdHigh
      BY <2>15, NamedStates
      DEF Activation!StoreChipIdHigh,
          Activation!fpi_ssm_jump_to_state, GoesOn
    <2>16. CASE Activation!StoreChipIdLow
      BY <2>16, NamedStates
      DEF Activation!StoreChipIdLow,
          Activation!fpi_ssm_jump_to_state, GoesOn
    <2>17. CASE Activation!StoreDimWidth
      BY <2>17, NamedStates
      DEF Activation!StoreDimWidth,
          Activation!fpi_ssm_jump_to_state, GoesOn
    <2>18. CASE Activation!StoreDimHeight
      BY <2>18, NamedStates, StatesApart
      DEF Activation!StoreDimHeight,
          Activation!recover_and_fail, Activation!fpi_ssm_jump_to_state, GoesOn, OpenFails, Activation!activate_ssm_failed, Sized
    <2>19. CASE Activation!CheckCaptureReady
      BY <2>19, StatesApart
      DEF Activation!CheckCaptureReady,
          Activation!fpi_ssm_jump_to_state, GoesOn, Sized
    <2>20. CASE Activation!ArmVerifyCheck
      BY <2>20, StatesApart
      DEF Activation!ArmVerifyCheck,
          Activation!recover_and_fail, Activation!fpi_ssm_jump_to_state, GoesOn, OpenFails, Activation!activate_ssm_failed, Sized
    <2>21. CASE Activation!HuntingBusy
      BY <2>21, StatesApart
      DEF Activation!HuntingBusy,
          Activation!activate_ssm_completed, OpenCompletes, Sized
    <2>22. CASE Activation!HuntingRearm
      BY <2>22, StatesApart
      DEF Activation!HuntingRearm,
          Activation!fpi_ssm_jump_to_state, GoesOn, Sized
    <2>23. CASE Activation!HuntingReload
      BY <2>23, NamedStates, StatesApart
      DEF Activation!HuntingReload,
          Activation!start_download, Activation!fpi_ssm_jump_to_state, GoesOn, OpenFails, Activation!activate_ssm_failed, Sized
    <2>24. CASE Activation!HuntingGiveUp
      BY <2>24, StatesApart
      DEF Activation!HuntingGiveUp,
          Activation!activate_ssm_completed, OpenCompletes, Sized
    <2> QED BY <1>1, <2>1, <2>2, <2>3, <2>4, <2>5, <2>6, <2>7, <2>8, <2>9, <2>10, <2>11, <2>12, <2>13, <2>14, <2>15, <2>16, <2>17, <2>18, <2>19, <2>20, <2>21, <2>22, <2>23, <2>24 DEF Activation!activate_run_state
  <1> QED BY <1>1, <1>2

(* What a step of a running action does to the frames and to libfprint.    *)
Quiet ==
  /\ UNCHANGED <<cancelled, finger_status, outcome, delivered, frame, enroll_frames>>
  /\ task_ssm' \in capture_states
  /\ task_ssm' \in Waiting => task_ssm \in Waiting \/ frame = NoFrame
  /\ task_ssm' \in Imaging => task_ssm \in Imaging
  /\ task_ssm' = "CAP_FRAME_DONE" => frame # NoFrame

Presses ==
  /\ task_ssm \in Waiting
  /\ task_ssm' \in Imaging
  /\ finger_status' = "PRESENT"
  /\ UNCHANGED <<cancelled, outcome, delivered, frame, enroll_frames>>

Images ==
  /\ task_ssm \in Imaging
  /\ task_ssm' \in capture_states \ (Waiting \cup Imaging \cup {"CAP_FRAME_DONE"})
  /\ frame' = NoFrame \/ (~cancelled /\ frame' \in Picture)
  /\ UNCHANGED <<cancelled, finger_status, outcome, delivered, enroll_frames>>

StageEnds ==
  /\ task_ssm = "CAP_FRAME_DONE" /\ task_ssm' \in Waiting
  /\ action = "ENROLL"
  /\ Len(enroll_frames) + 1 < ENROLL_STAGES
  /\ enroll_frames' = Append(enroll_frames, frame)
  /\ frame' = NoFrame
  /\ finger_status' = "NEEDED"
  /\ UNCHANGED <<cancelled, outcome, delivered>>

Ends ==
  /\ task_ssm' = "NULL" /\ frame' = NoFrame /\ enroll_frames' = <<>>
  /\ UNCHANGED cancelled

Completes ==
  /\ task_ssm = "CAP_FRAME_DONE"
  /\ action = "ENROLL" => Len(enroll_frames) + 1 >= ENROLL_STAGES
  /\ outcome' \in Capture!PossibleOutcomes
  /\ delivered' = IF outcome' = "DATA_INVALID" THEN <<>>
                  ELSE IF action = "ENROLL" THEN Append(enroll_frames, frame)
                  ELSE <<frame>>
  /\ finger_status' = "NONE"
  /\ Ends

ActionFails ==
  /\ outcome' \in {"TRANSFER", "PROTO"}
  /\ delivered' = <<>>
  /\ UNCHANGED finger_status
  /\ Ends

LEMMA ActionSteps ==
  ASSUME ActionStep
  PROVE  /\ device = "open" /\ task_ssm \in capture_states
         /\ UNCHANGED <<activation_only, sensor_width, sensor_height, action>>
         /\ Quiet \/ Presses \/ Images \/ StageEnds \/ Completes \/ ActionFails
  <1> USE DEF Capture!fpdevice, Capture!dimensions, Capture!counters, Capture!frames
  <1>1. device = "open" /\ UNCHANGED activation_only /\ Capture!capture_run_state
    BY DEF ActionStep
  <1>2. /\ task_ssm \in capture_states
        /\ UNCHANGED <<sensor_width, sensor_height, action>>
        /\ Quiet \/ Presses \/ Images \/ StageEnds \/ Completes \/ ActionFails
    <2>1. CASE Capture!ReadRegister
      BY <2>1, CaptureReadRows
      DEF Capture!ReadRegister, Capture!fpi_ssm_jump_to_state, Quiet
    <2>2. CASE Capture!WriteRegister
      BY <2>2, CaptureWriteRows
      DEF Capture!WriteRegister, Capture!fpi_ssm_jump_to_state, Quiet
    <2>3. CASE Capture!DelayElapsed
      BY <2>3, CaptureDelayRows
      DEF Capture!DelayElapsed, Capture!fpi_ssm_jump_to_state, Quiet
    <2>4. CASE Capture!TransferFails
      BY <2>4, CaptureReadRows, CaptureWriteRows, NamedStates, StatesApart
      DEF Capture!TransferFails, Capture!TransferState, Imaging, ActionFails, Ends, Capture!capture_ssm_failed, Capture!reset_task
    <2>5. CASE Capture!PollFingerReported
      BY <2>5, NamedStates, StatesApart
      DEF Capture!PollFingerReported, Capture!fpi_ssm_jump_to_state, Quiet, Waiting
    <2>6. CASE Capture!PollFingerIdle
      BY <2>6, NamedStates, StatesApart
      DEF Capture!PollFingerIdle, Capture!fpi_ssm_jump_to_state, Quiet, Waiting
    <2>7. CASE Capture!PollFingerRenew
      BY <2>7, NamedStates, StatesApart
      DEF Capture!PollFingerRenew, Capture!fpi_ssm_jump_to_state, Quiet, Waiting
    <2>8. CASE Capture!CheckReady
      BY <2>8, NamedStates, StatesApart
      DEF Capture!CheckReady, Capture!fpi_ssm_jump_to_state, Quiet, Waiting
    <2>9. CASE Capture!CheckPresentFinger
      BY <2>9, NamedStates, StatesApart
      DEF Capture!CheckPresentFinger, Capture!fpi_ssm_jump_to_state, Presses, Waiting, Imaging
    <2>10. CASE Capture!CheckPresentSpurious
      BY <2>10, NamedStates, StatesApart
      DEF Capture!CheckPresentSpurious, Capture!fpi_ssm_jump_to_state, Quiet, Waiting
    <2>11. CASE Capture!CheckPresentFails
      BY <2>11, NamedStates, StatesApart
      DEF Capture!CheckPresentFails, ActionFails, Ends, Capture!capture_ssm_failed, Capture!reset_task, Waiting
    <2>12. CASE Capture!SetTransfer
      BY <2>12, NamedStates, StatesApart
      DEF Capture!SetTransfer, Capture!fpi_ssm_jump_to_state, Quiet, Imaging
    <2>13. CASE Capture!ReadImageBadHeader
      BY <2>13, NamedStates, StatesApart
      DEF Capture!ReadImageBadHeader, Capture!fpi_ssm_jump_to_state, Quiet, Imaging
    <2>14. CASE Capture!ReadImageFlat
      BY <2>14, NamedStates, StatesApart
      DEF Capture!ReadImageFlat, Capture!fpi_ssm_jump_to_state, Images, Imaging
    <2>15. CASE Capture!ReadImageGood
      BY <2>15, NamedStates, StatesApart
      DEF Capture!ReadImageGood, Capture!fpi_ssm_jump_to_state, Images, Imaging
    <2>16. CASE Capture!VerifyRetry
      BY <2>16, NamedStates, StatesApart
      DEF Capture!VerifyRetry, Capture!fpi_ssm_jump_to_state, Quiet
    <2>17. CASE Capture!VerifyDone
      BY <2>17, NamedStates, StatesApart
      DEF Capture!VerifyDone, Capture!fpi_ssm_jump_to_state, Quiet, Waiting
    <2>18. CASE Capture!FrameDoneStage
      BY <2>18, NamedStates, StatesApart
      DEF Capture!FrameDoneStage, Capture!fpi_ssm_jump_to_state, StageEnds, Waiting
    <2>19. CASE Capture!FrameDoneComplete
      BY <2>19, NamedStates, StatesApart
      DEF Capture!FrameDoneComplete, Capture!capture_ssm_completed, Capture!reset_task, Completes, Ends
    <2> QED BY <1>1, <2>1, <2>2, <2>3, <2>4, <2>5, <2>6, <2>7, <2>8, <2>9, <2>10, <2>11, <2>12, <2>13, <2>14, <2>15, <2>16, <2>17, <2>18, <2>19 DEF Capture!capture_run_state
  <1> QED BY <1>1, <1>2

-----------------------------------------------------------------------------
LEMMA InitDInv == Init => DInv
  <1> SUFFICES ASSUME Init PROVE DInv
    OBVIOUS
  <1>1. MachineInv
    BY StatesApart DEF Init, Activation!Init, MachineInv
  <1>2. ActionInv
    BY StatesApart, StagesAssumption
    DEF Init, Activation!Init, ActionInv, Capture!CaptureAction
  <1> QED BY <1>1, <1>2 DEF DInv

(* The open operation has no frames, and its machine and device agree.     *)
LEMMA OpenKeepsDInv ==
  ASSUME DInv, OpenStep
  PROVE  DInv'
  <1>1. /\ task_ssm \in activate_states
        /\ UNCHANGED <<cancelled, capture_only>>
        /\ GoesOn \/ OpenFails \/ OpenCompletes
    BY OpenSteps
  <1>2. device = "opening" /\ claimed
    BY <1>1 DEF DInv, MachineInv
  <1>3. MachineInv'
    <2>1. CASE GoesOn
      BY <1>1, <1>2, <2>1, StatesApart DEF GoesOn, DInv, MachineInv
    <2>2. CASE OpenFails
      BY <2>2, StatesApart DEF OpenFails, MachineInv
    <2>3. CASE OpenCompletes
      BY <1>2, <2>3, StatesApart DEF OpenCompletes, DInv, MachineInv
    <2> QED BY <1>1, <2>1, <2>2, <2>3
  <1>4. task_ssm' \notin capture_states
    BY <1>1, StatesApart DEF GoesOn, OpenFails, OpenCompletes
  <1>5. ActionInv'
    BY <1>1, <1>4, StatesApart DEF capture_only, DInv, ActionInv
  <1> QED BY <1>3, <1>5 DEF DInv

LEMMA ActionKeepsDInv ==
  ASSUME DInv, ActionStep
  PROVE  DInv'
  <1>1. /\ device = "open" /\ task_ssm \in capture_states
        /\ UNCHANGED <<activation_only, sensor_width, sensor_height, action>>
        /\ Quiet \/ Presses \/ Images \/ StageEnds \/ Completes \/ ActionFails
    BY ActionSteps
  <1>2. task_ssm' \in capture_states \cup {"NULL"}
    BY <1>1, StatesApart
    DEF Quiet, Presses, Images, StageEnds, Completes, ActionFails, Ends
  <1>3. MachineInv'
    BY <1>1, <1>2, StatesApart DEF activation_only, DInv, MachineInv
  <1>4. ActionInv'
    <2>1. CASE Quiet
      BY <1>1, <2>1, StatesApart DEF Quiet, DInv, ActionInv
    <2>2. CASE Presses
      BY <1>1, <2>2, StatesApart, NamedStates DEF Presses, DInv, ActionInv
    <2>3. CASE Images
      BY <1>1, <2>3, StatesApart DEF Images, DInv, ActionInv
    <2>4. CASE StageEnds
      <3>1. frame \in Picture /\ enroll_frames \in Seq(Picture)
        BY <2>4 DEF StageEnds, DInv, ActionInv
      <3>2. /\ enroll_frames' \in Seq(Picture)
            /\ Len(enroll_frames') = Len(enroll_frames) + 1
        BY <2>4, <3>1 DEF StageEnds
      <3> QED BY <1>1, <2>4, <3>2, StatesApart, NamedStates
              DEF StageEnds, DInv, ActionInv
    <2>5. CASE Completes \/ ActionFails
      <3>1. task_ssm' = "NULL" /\ frame' = NoFrame /\ enroll_frames' = <<>>
        BY <2>5 DEF Completes, ActionFails, Ends
      <3>2. task_ssm' \notin capture_states
        BY <3>1, StatesApart
      <3>3. task_ssm' \notin Waiting \cup Imaging \cup {"CAP_FRAME_DONE"}
        BY <3>2, StatesApart
      <3>4. Len(enroll_frames') < ENROLL_STAGES /\ enroll_frames' \in Seq(Picture)
        BY <3>1, StagesAssumption
      <3> QED BY <1>1, <3>1, <3>2, <3>3, <3>4 DEF DInv, ActionInv
    <2> QED BY <1>1, <2>1, <2>2, <2>3, <2>4, <2>5
  <1> QED BY <1>3, <1>4 DEF DInv

LEMMA CallsKeepDInv ==
  ASSUME DInv, dev_open \/ dev_close \/ dev_enroll \/ dev_other \/ Cancel
  PROVE  DInv'
  <1> USE StatesApart, NamedStates DEF DInv, MachineInv, ActionInv, capture_only,
          activation_only
  <1>1. CASE dev_open
    <2>1. CASE Activation!dev_open
      BY <1>1, <2>1 DEF dev_open, Activation!dev_open, Activation!identity
    <2>2. CASE Activation!dev_open_claim_fails
      BY <1>1, <2>2
      DEF dev_open, Activation!dev_open_claim_fails, Activation!identity,
          Activation!image
    <2> QED BY <1>1, <2>1, <2>2 DEF dev_open
  <1>2. CASE dev_close
    BY <1>2
    DEF dev_close, Activation!dev_close, Activation!identity, Activation!image
  <1>3. CASE dev_enroll
    BY <1>3, StagesAssumption
    DEF dev_enroll, Capture!dev_enroll, Capture!start_capture,
        Capture!dimensions, Capture!CaptureAction, Waiting
  <1>4. CASE dev_other
    BY <1>4
    DEF dev_other, Capture!dev_other, Capture!start_capture,
        Capture!dimensions, Capture!CaptureAction, Waiting
  <1>5. CASE Cancel
    <2>1. CASE Activation!Cancel /\ UNCHANGED capture_only
      BY <2>1 DEF Activation!Cancel, Activation!identity, Activation!image
    <2>2. CASE device = "open" /\ Capture!Cancel /\ UNCHANGED activation_only
      BY <2>2 DEF Capture!Cancel, Capture!dimensions, Capture!frames
    <2> QED BY <1>5, <2>1, <2>2 DEF Cancel
  <1> QED BY <1>1, <1>2, <1>3, <1>4, <1>5

LEMMA NextDInv == DInv /\ [Next]_vars => DInv'
  <1> SUFFICES ASSUME DInv, [Next]_vars PROVE DInv'
    OBVIOUS
  <1>1. CASE UNCHANGED vars
    BY <1>1
    DEF vars, activation_only, capture_only, shared, DInv, MachineInv, ActionInv
  <1>2. CASE Next
    BY <1>2, OpenKeepsDInv, ActionKeepsDInv, CallsKeepDInv DEF Next
  <1> QED BY <1>1, <1>2

(* Which machine runs, and what it holds: the inductive invariant of the   *)
(* driver as a whole (activate_run_state, capture_run_state).              *)
THEOREM DriverInvariance == Spec => []DInv
  BY InitDInv, NextDInv, PTL DEF Spec

(* A machine that runs is that of the operation of the device, the capture *)
(* has a claimed interface and a size that this activation stored, and no  *)
(* image of the firmware stays behind (dev_open, activate_ssm_done,        *)
(* dev_close and the functions that start a capture).                      *)
THEOREM OneMachine == Spec => []OneMachineOnItsInterface
  <1>1. DInv => OneMachineOnItsInterface
    BY StatesApart
    DEF DInv, MachineInv, OneMachineOnItsInterface, activate_states,
        capture_states
  <1> QED BY <1>1, DriverInvariance, PTL

-----------------------------------------------------------------------------
(* The refinement.  What the promised device calls doing and taken.        *)
Doing == IF device = "open" /\ task_ssm # "NULL" THEN action ELSE "nothing"

Taken == IF frame = NoFrame THEN enroll_frames ELSE Append(enroll_frames, frame)

LEMMA InitRefines == Init => Abstract!Init
  BY DEF Init, Activation!Init, Abstract!Init

(* A running action is one of the four, and its machine is on the device.  *)
LEMMA ActionIsDone ==
  ASSUME DInv, device = "open", task_ssm \in capture_states
  PROVE  /\ Doing = action
         /\ action \in {"ENROLL", "VERIFY", "IDENTIFY", "CAPTURE"}
         /\ Doing # "nothing"
  BY StatesApart DEF DInv, ActionInv, Doing, Capture!CaptureAction

LEMMA OpenRefines ==
  ASSUME DInv, OpenStep
  PROVE  Abstract!OpenEnds \/ UNCHANGED Abstract!vars
  <1>1. /\ task_ssm \in activate_states
        /\ UNCHANGED <<cancelled, capture_only>>
        /\ GoesOn \/ OpenFails \/ OpenCompletes
    BY OpenSteps
  <1>2. device = "opening"
    BY <1>1 DEF DInv, MachineInv
  <1>3. CASE GoesOn
    BY <1>1, <1>2, <1>3
    DEF GoesOn, capture_only, Abstract!vars, Abstract!action
  <1>4. CASE OpenFails \/ OpenCompletes
    BY <1>1, <1>2, <1>4
    DEF OpenFails, OpenCompletes, capture_only, Abstract!OpenEnds, Abstract!action
  <1> QED BY <1>1, <1>3, <1>4

LEMMA ActionRefines ==
  ASSUME DInv, ActionStep
  PROVE  \/ Abstract!Press \/ Abstract!Take \/ Abstract!NextStage
         \/ Abstract!Finish \/ Abstract!Fail
         \/ UNCHANGED Abstract!vars
  <1>1. /\ device = "open" /\ task_ssm \in capture_states
        /\ UNCHANGED <<activation_only, sensor_width, sensor_height, action>>
        /\ Quiet \/ Presses \/ Images \/ StageEnds \/ Completes \/ ActionFails
    BY ActionSteps
  <1>2. DInv' /\ device' = "open"
    BY <1>1, ActionKeepsDInv DEF activation_only
  <1>3. /\ Doing = action /\ Doing # "nothing"
        /\ action \in {"ENROLL", "VERIFY", "IDENTIFY", "CAPTURE"}
    BY <1>1, ActionIsDone
  <1>4. task_ssm' \in capture_states => Doing' = action
    BY <1>1, <1>2, StatesApart DEF Doing
  <1>5. task_ssm' = "NULL" => Doing' = "nothing"
    BY DEF Doing
  <1>6. enroll_frames \in Seq(Picture) /\ frame \in Picture \cup {NoFrame}
    BY DEF DInv, ActionInv
  <1>7. CASE Quiet
    BY <1>1, <1>2, <1>3, <1>4, <1>7
    DEF Quiet, Doing, Abstract!vars, Abstract!action
  <1>8. CASE Presses
    <2>1. task_ssm' \in capture_states
      BY <1>8, StatesApart DEF Presses
    <2> QED BY <1>1, <1>2, <1>3, <1>4, <1>8, <2>1 DEF Presses, Doing, Abstract!Press
  <1>9. CASE Images
    <2>1. frame = NoFrame /\ finger_status = "PRESENT"
      BY <1>9 DEF Images, DInv, ActionInv
    <2>2. task_ssm' \in capture_states
      BY <1>9 DEF Images
    <2>3. CASE frame' = NoFrame
      BY <1>1, <1>2, <1>3, <1>4, <1>9, <2>1, <2>2, <2>3
      DEF Images, Doing, Abstract!vars, Abstract!action
    <2>4. CASE ~cancelled /\ frame' \in Picture
      <3>1. frame' # NoFrame
        BY <2>4, PictureAssumption
      <3> QED BY <1>1, <1>2, <1>3, <1>4, <1>9, <2>1, <2>2, <2>4, <3>1
              DEF Images, Doing, Abstract!Take
    <2> QED BY <1>9, <2>3, <2>4 DEF Images
  <1>10. CASE StageEnds
    <2>1. frame # NoFrame /\ frame \in Picture
      BY <1>6, <1>10 DEF StageEnds, DInv, ActionInv
    <2>2. task_ssm' \in capture_states
      BY <1>10, StatesApart DEF StageEnds
    <2>3. Len(Append(enroll_frames, frame)) = Len(enroll_frames) + 1
      BY <1>6, <2>1
    <2> QED BY <1>1, <1>2, <1>3, <1>4, <1>10, <2>1, <2>2, <2>3
            DEF StageEnds, Doing, Abstract!NextStage, Abstract!Stages
  <1>11. CASE Completes
    <2>1. frame # NoFrame /\ frame \in Picture
      BY <1>6, <1>11 DEF Completes, DInv, ActionInv
    <2>2. Taken = Append(enroll_frames, frame)
      BY <2>1 DEF Taken
    <2>3. Len(Taken) = Abstract!Stages
      <3>1. Len(Append(enroll_frames, frame)) = Len(enroll_frames) + 1
        BY <1>6, <2>1
      <3>2. CASE action = "ENROLL"
        BY <1>3, <1>6, <1>11, <2>2, <3>1, <3>2, StagesAssumption
        DEF Completes, DInv, ActionInv, Abstract!Stages, Doing
      <3>3. CASE action # "ENROLL"
        BY <1>3, <1>6, <2>2, <3>1, <3>3
        DEF DInv, ActionInv, Abstract!Stages, Doing
      <3> QED BY <3>2, <3>3
    <2>4. delivered' = IF outcome' = "DATA_INVALID" THEN <<>> ELSE Taken
      <3>1. action # "ENROLL" => Append(enroll_frames, frame) = <<frame>>
        BY <2>1 DEF DInv, ActionInv
      <3> QED BY <1>11, <2>2, <3>1 DEF Completes
    <2>5. outcome' \in Abstract!Result
      BY <1>3, <1>11
      DEF Completes, Capture!PossibleOutcomes, Abstract!Result, Doing
    <2>6. /\ Doing' = "nothing" /\ enroll_frames' = <<>> /\ frame' = NoFrame
          /\ UNCHANGED cancelled /\ finger_status' = "NONE"
      BY <1>5, <1>11 DEF Completes, Ends
    <2> QED BY <1>1, <1>2, <1>3, <2>3, <2>4, <2>5, <2>6
            DEF Abstract!Finish, Doing, Taken
  <1>12. CASE ActionFails
    <2>1. /\ Doing' = "nothing" /\ enroll_frames' = <<>> /\ frame' = NoFrame
          /\ UNCHANGED <<cancelled, finger_status>>
      BY <1>5, <1>12 DEF ActionFails, Ends
    <2> QED BY <1>1, <1>2, <1>3, <1>12, <2>1
            DEF ActionFails, Abstract!Fail, Doing
  <1> QED BY <1>1, <1>7, <1>8, <1>9, <1>10, <1>11, <1>12

LEMMA CallsRefine ==
  ASSUME DInv, dev_open \/ dev_close \/ dev_enroll \/ dev_other \/ Cancel
  PROVE  \/ Abstract!Open \/ Abstract!Close \/ Abstract!Start \/ Abstract!Cancel
         \/ UNCHANGED Abstract!vars
  <1>1. CASE dev_open
    <2>1. CASE Activation!dev_open
      BY <1>1, <2>1 DEF dev_open, Activation!dev_open, capture_only, Abstract!Open
    <2>2. CASE Activation!dev_open_claim_fails
      BY <1>1, <2>2
      DEF dev_open, Activation!dev_open_claim_fails, capture_only,
          Abstract!vars, Abstract!action
    <2> QED BY <1>1, <2>1, <2>2 DEF dev_open
  <1>2. CASE dev_close
    BY <1>2
    DEF dev_close, Activation!dev_close, capture_only, Abstract!Close,
        Abstract!action
  <1>3. CASE dev_enroll
    <2>1. device = "open" /\ task_ssm = "NULL" /\ enroll_frames = <<>> /\ frame = NoFrame
      BY <1>3, StatesApart
      DEF dev_enroll, Capture!dev_enroll, Capture!start_capture, DInv, ActionInv
    <2> QED BY <1>3, <2>1
            DEF dev_enroll, Capture!dev_enroll, Capture!start_capture,
                activation_only, Abstract!Start, Abstract!Action
  <1>4. CASE dev_other
    <2>1. device = "open" /\ task_ssm = "NULL" /\ enroll_frames = <<>> /\ frame = NoFrame
      BY <1>4, StatesApart
      DEF dev_other, Capture!dev_other, Capture!start_capture, DInv, ActionInv
    <2> QED BY <1>4, <2>1
            DEF dev_other, Capture!dev_other, Capture!start_capture,
                Capture!CaptureAction, activation_only, Abstract!Start,
                Abstract!Action
  <1>5. CASE Cancel
    <2>1. CASE Activation!Cancel /\ UNCHANGED capture_only
      BY <2>1 DEF Activation!Cancel, capture_only, Abstract!Cancel
    <2>2. CASE device = "open" /\ Capture!Cancel /\ UNCHANGED activation_only
      <3>1. task_ssm \in capture_states
        BY <2>2, StatesApart DEF Capture!Cancel, DInv, MachineInv
      <3>2. Doing # "nothing"
        BY <2>2, <3>1, ActionIsDone
      <3> QED BY <2>2, <3>2
              DEF Capture!Cancel, Capture!frames, activation_only,
                  Abstract!Cancel, Doing
    <2> QED BY <1>5, <2>1, <2>2 DEF Cancel
  <1> QED BY <1>1, <1>2, <1>3, <1>4, <1>5

(* Every step of the driver is a step of the promised device, or none.     *)
LEMMA StepRefines == DInv /\ [Next]_vars => [Abstract!Next]_(Abstract!vars)
  <1> SUFFICES ASSUME DInv, [Next]_vars
               PROVE  [Abstract!Next]_(Abstract!vars)
    OBVIOUS
  <1>1. CASE OpenStep
    BY <1>1, OpenRefines DEF Abstract!Next
  <1>2. CASE ActionStep
    BY <1>2, ActionRefines DEF Abstract!Next
  <1>3. CASE dev_open \/ dev_close \/ dev_enroll \/ dev_other \/ Cancel
    BY <1>3, CallsRefine DEF Abstract!Next
  <1>4. CASE UNCHANGED vars
    BY <1>4
    DEF vars, activation_only, capture_only, shared, Abstract!vars, Abstract!action
  <1> QED BY <1>1, <1>2, <1>3, <1>4 DEF Next

(* The safety half of ImplementsFpDevice: one frame of a finger for each   *)
(* stage, none without a finger or for a cancelled action, none lost or    *)
(* used twice, and every result from exactly the frames of its action      *)
(* (ft9201_frame_read_cb, CAP_FRAME_DONE, capture_ssm_done).               *)
THEOREM DriverIsAnFpDevice == Spec => Abstract!Safety
  BY InitRefines, StepRefines, DriverInvariance, PTL
  DEF Spec, Abstract!Safety
=============================================================================
