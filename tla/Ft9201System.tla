--------------------------- MODULE Ft9201System ---------------------------
(***************************************************************************)
(* The driver and the sensor, over the crash of either: the process of the *)
(* driver may end between any two transfers, and the sensor may lose its   *)
(* power.  A new process knows nothing, and the sensor stays in whatever   *)
(* state the old one left it (dev_close, too, leaves it as it is).         *)
(***************************************************************************)
EXTENDS Ft9201Driver

CONSTANT MaxMisses

(* The disk holds an image that the driver takes. *)
ASSUME DiskAssumption ==
  \A file \in FirmwareFiles : Activation!UsableImage(file)

(* The table ends with its only FW_END, and behind its last write of the   *)
(* code RAM it gives control to the new code.                              *)
ASSUME TableAssumption ==
  /\ Len(ft9201_firmware_script) \in Nat \ {0}
  /\ \A i \in 1..Len(ft9201_firmware_script) :
       ft9201_firmware_script[i].kind = "END"
         <=> i = Len(ft9201_firmware_script)
  /\ \E c \in 1..Len(ft9201_firmware_script) :
       /\ ft9201_firmware_script[c].kind = "OUT"
       /\ ft9201_firmware_script[c].request = "FIRMWARE_COMMIT"
       /\ \A i \in (c + 1)..Len(ft9201_firmware_script) :
            ft9201_firmware_script[i].request # "CODE_RAM_WRITE"

(* One answer may come too early: the wait for the MCU has its nudge. *)
ASSUME PollsAssumption == MCU_READY_MAX_POLLS \in Nat \ {0}

VARIABLES code, mode, armed, finger, misses

Sensor == INSTANCE Ft9201Sensor

system == <<vars, code, mode, armed, finger, misses>>

-----------------------------------------------------------------------------
(* The requests behind the steps of the machines.                          *)

Reads == Activation!RegisterReads \cup Capture!CaptureReads

Handshakes == {"ACTIVATE_WAKE_2", "ACTIVATE_WAIT_READY_NUDGE_2",
               "CAP_KEEPALIVE_WAKE_2"}
SearchWrites == {"ACTIVATE_AUTO_POWER_SET_2", "CAP_REARM_2"}

Effect ==
  IF task_ssm \in Handshakes THEN Sensor!Wakes
  ELSE IF task_ssm \in SearchWrites THEN Sensor!StartsSearch
  ELSE IF task_ssm = "ACTIVATE_ARM_WRITE_30" THEN Sensor!Arms
  ELSE IF task_ssm = "ACTIVATE_FW_STEP" /\ Activation!op.request = "CODE_RAM_WRITE"
    THEN Sensor!TakesCode
  ELSE IF task_ssm = "ACTIVATE_FW_STEP" /\ Activation!op.request = "FIRMWARE_COMMIT"
    THEN Sensor!RunsCode
  ELSE IF \E r \in Reads : task_ssm = r[1] /\ r[2] = "FINGER_PRESENT"
    THEN Sensor!ReadsPresent
  ELSE Sensor!Unmoved

Fails ==
  \/ Activation!TransferFails /\ UNCHANGED capture_only
  \/ Capture!TransferFails /\ UNCHANGED activation_only

(* A transfer that fails may have reached the sensor. *)
TransferFails == Fails /\ (Effect \/ Sensor!Unmoved)

AnswersTruly ==
  /\ \A r \in Reads : task_ssm = r[1] => reg_buf' = Sensor!Answer(r[2])
  /\ task_ssm = "CAP_READ_IMAGE" => (frame' # NoFrame <=> Sensor!GivesImage)

OpenWithSensor   == OpenStep /\ ~Fails /\ AnswersTruly /\ Effect
ActionWithSensor == ActionStep /\ ~Fails /\ AnswersTruly /\ Effect

Call == (dev_open \/ dev_close \/ dev_enroll \/ dev_other \/ Cancel)
        /\ Sensor!Unmoved

-----------------------------------------------------------------------------
(* A search and the time limits of the sensor are long against the steps   *)
(* of a machine, so they end only where the driver waits: for a call, for  *)
(* a finger, or before it has asked the sensor to wake up.                 *)
SensorWaits == task_ssm \in {"NULL", "CAP_POLL_FINGER", "ACTIVATE_READ_MCU_STATE",
                             "ACTIVATE_CHECK_MCU_STATE"}

Finger  == (Sensor!FingerComes \/ Sensor!FingerGoes) /\ UNCHANGED vars
Found   == SensorWaits /\ Sensor!FingerFound /\ UNCHANGED vars
Lapse   == SensorWaits /\ Sensor!Lapses /\ UNCHANGED vars
Settles == Sensor!PressSettles /\ UNCHANGED vars

(* A press may make the MCU busy again at each read that it is asked for,  *)
(* and outside of an open operation the engine may lose its armed state.   *)
PressReads == {"CAP_READ_READY", "CAP_READ_PRESENT", "CAP_READ_IMAGE"}

Busies  == task_ssm \in PressReads /\ Sensor!PressBusies /\ UNCHANGED vars
Disarms == /\ task_ssm \in Capture!capture_states \cup {"NULL"}
           /\ Sensor!Disarms /\ UNCHANGED vars

(* All that a new process has is what Init gives it. *)
NewProcess ==
  /\ device' = "closed" /\ claimed' = FALSE /\ cancelled' = FALSE
  /\ open_error' = "none" /\ task_ssm' = "NULL" /\ reg_buf' = <<0, 0>>
  /\ chip_id' = 0 /\ sensor_width' = 0 /\ sensor_height' = 0
  /\ sensor_type' = SENSOR_TYPE_UNKNOWN
  /\ retry_count' = 0 /\ fw_data' = 0 /\ fw_step' = 0 /\ fw_reloaded' = FALSE
  /\ rearm_retries' = 0
  /\ finger_status' = "NONE" /\ outcome' = "none" /\ delivered' = <<>>
  /\ announced' = 0 /\ spurious_polls' = 0 /\ idle_polls' = 0
  /\ frame' = NoFrame /\ enroll_frames' = <<>> /\ enroll_array' = FALSE
  /\ action' = "CAPTURE"

Crash  == NewProcess /\ Sensor!Unmoved
Replug == NewProcess /\ Sensor!LosesPower

-----------------------------------------------------------------------------
SystemInit == Init /\ Sensor!Init

SystemNext ==
  \/ OpenWithSensor \/ ActionWithSensor \/ TransferFails \/ Call
  \/ Finger \/ Found \/ Lapse \/ Settles \/ Busies \/ Disarms
  \/ Crash \/ Replug

SystemSpec == SystemInit /\ [][SystemNext]_system

(* The driver asks a press that answers. *)
AsksPress(state) ==
  task_ssm = state /\ mode = "pressed" /\ ActionWithSensor

(* The main loop runs the machine, a cancelled transfer ends, and a busy   *)
(* MCU gets done with the press.  Of the searches for a finger that stays, *)
(* one finds it; of the presses, one is polled within its half second; and *)
(* at each read of a press the MCU is not busy every time.                 *)
Fairness ==
  /\ WF_system(OpenWithSensor) /\ WF_system(ActionWithSensor)
  /\ WF_system(cancelled /\ TransferFails)
  /\ WF_system(Settles)
  /\ SF_system(Found)
  /\ \A state \in {"CAP_POLL_FINGER"} \cup PressReads : SF_system(AsksPress(state))

FairSystemSpec == SystemSpec /\ Fairness

(* From the end of an open operation on, for as long as the device stays   *)
(* open: the search has been started, or each write of 0x1e was a miss.    *)
(* Without the recovery the open was a warm one; the capture machine reads *)
(* neither fw_step nor fw_reloaded.                                        *)
OpenedInit ==
  /\ code = "whole" /\ armed = TRUE /\ finger \in BOOLEAN
  /\ fw_reloaded \in BOOLEAN
  /\ \/ mode = "hunting" /\ misses = 0
     \/ mode = "idle" /\ misses \in 1..MaxMisses /\ fw_reloaded = TRUE
  /\ device = "open" /\ claimed = TRUE /\ cancelled = FALSE
  /\ open_error = "none" /\ task_ssm = "NULL"
  /\ reg_buf = Sensor!Answer("MCU_SENSOR_STATUS") /\ chip_id = 38312
  /\ sensor_width = 96 /\ sensor_height = 96
  /\ sensor_type = SENSOR_TYPE_UNKNOWN
  /\ retry_count = 0 /\ rearm_retries = 0 /\ fw_data = 0
  /\ fw_step = IF fw_reloaded THEN Len(ft9201_firmware_script) - 1 ELSE 0
  /\ finger_status = "NONE" /\ outcome = "none" /\ delivered = <<>>
  /\ announced = 0 /\ spurious_polls = 0 /\ idle_polls = 0
  /\ frame = NoFrame /\ enroll_frames = <<>> /\ enroll_array = FALSE
  /\ action = "CAPTURE"

OpenedSpec == OpenedInit /\ [][SystemNext /\ device' = "open"]_system /\ Fairness

-----------------------------------------------------------------------------
(* With the image on the disk, only a transfer or the claim that fails     *)
(* makes an open operation fail: the activation brings the sensor back     *)
(* from every state in which a crash at any step of either machine, a      *)
(* close, a cancelled action or a loss of power can leave it               *)
(* (activate_run_state; dev_close leaves the sensor as it is).             *)
OnlyTransfersFailAnOpen == open_error \in {"none", "CLAIM", "TRANSFER"}

(* Silence is taken for an empty code RAM only when it is one: a sensor    *)
(* with its whole code is never sent it again for a sleep of its AFE       *)
(* (ACTIVATE_WAKE_*, ACTIVATE_RECHECK_MCU_STATE).                          *)
SilenceMeansNoCode ==
  [][ task_ssm = "ACTIVATE_RECHECK_MCU_STATE" /\ task_ssm' = "ACTIVATE_FW_STEP"
        => code # "whole" ]_system

(* An open operation that succeeds leaves a sensor with its code, that can *)
(* give an image and whose last write of 0x1e started the search; if not,  *)
(* a download was tried (ACTIVATE_AUTO_POWER_HUNTING_CHECK).               *)
OpenStartsTheSearch ==
  [][ device = "opening" /\ device' = "open"
        => code = "whole" /\ armed /\ (misses = 0 \/ fw_reloaded) ]_system

(* A finger that stays on an armed sensor gives its frame or the action    *)
(* ends: also when a press was dropped for a busy MCU, when its report     *)
(* stopped before the driver read it, when the search has run out, when    *)
(* the write that starts it again did not take, and after an action that   *)
(* ended before it armed the sensor (CAP_POLL_FINGER_CHECK, CAP_CHECK_*,   *)
(* the CAP_KEEPALIVE_* and CAP_REARM_* states).  An engine that loses its  *)
(* armed state is what CAP_CHECK_READY drops presses for without an end.   *)
FingerIsSeen ==
  [](device = "open" /\ task_ssm # "NULL" /\ finger /\ armed
       => <>(frame # NoFrame \/ ~finger \/ ~armed \/ task_ssm = "NULL"))
===========================================================================
