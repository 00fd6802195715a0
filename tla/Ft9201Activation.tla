------------------------- MODULE Ft9201Activation -------------------------
(***************************************************************************)
(* The activation of the driver: dev_open, the machine activate_run_state  *)
(* with its firmware download, activate_ssm_done and dev_close.            *)
(*                                                                         *)
(* task_ssm is the state that the running machine is about to execute, or  *)
(* "NULL" when no machine runs.  One action is the code of one state: for  *)
(* a transfer, from its submission to the callback that ends it.  A delay  *)
(* is an ordinary step.  The sensor is the constant Reply: a read of       *)
(* register r may give any pair of Reply[r], every time it is made, so the *)
(* model has every sensor that answers from these sets, also one that      *)
(* changes its mind, loses its power or sends a short answer.              *)
(***************************************************************************)
EXTENDS Ft9201Protocol, Sequences

CONSTANTS
  Reply,                    \* register -> the answers that a read may give
  FirmwareFiles,            \* lengths of FT9201_FIRMWARE_PATH, or NoFile
  ft9201_firmware_script,   \* the download table
  REARM_MAX_RETRY,
  AUTO_POWER_MAX_RETRY,
  MCU_READY_MAX_POLLS

NoFile == -1

OpKind == {"END", "OUT", "IN", "DELAY", "SEND_PROBE", "SEND_IMAGE"}
Op == [kind : OpKind, request : STRING, index : Nat]

ASSUME ReplyAssumption ==
  /\ DOMAIN Reply = Register
  /\ \A r \in Register : Reply[r] # {} /\ Reply[r] \subseteq Byte \X Byte

ASSUME FileAssumption == FirmwareFiles \subseteq Nat \cup {NoFile}

(* The table ends with its only FW_END. *)
ASSUME ScriptAssumption ==
  /\ ft9201_firmware_script \in Seq(Op)
  /\ Len(ft9201_firmware_script) > 0
  /\ \A i \in 1..Len(ft9201_firmware_script) :
       ft9201_firmware_script[i].kind = "END"
         <=> i = Len(ft9201_firmware_script)

(* The table sends the image once. *)
ASSUME ImageAssumption ==
  \E image_entry \in 1..Len(ft9201_firmware_script) :
    \A i \in 1..Len(ft9201_firmware_script) :
      ft9201_firmware_script[i].kind = "SEND_IMAGE" <=> i = image_entry

ASSUME LimitAssumption ==
  /\ REARM_MAX_RETRY \in Nat
  /\ AUTO_POWER_MAX_RETRY \in Nat
  /\ MCU_READY_MAX_POLLS \in Nat

VARIABLES
  device,         \* libfprint's view: "closed", "opening", "open"
  claimed,        \* the USB interface is claimed
  cancelled,      \* the cancellable of the open operation is cancelled
  open_error,     \* what fpi_device_open_complete last reported, or "none"
  task_ssm,
  reg_buf,
  chip_id, sensor_width, sensor_height, sensor_type,
  retry_count,
  fw_data,        \* length of the image in memory, 0 for NULL
  fw_step,
  rearm_retries,
  fw_reloaded

session  == <<device, claimed, cancelled, open_error>>
identity == <<chip_id, sensor_width, sensor_height, sensor_type>>
image    == <<fw_data, fw_step, fw_reloaded>>
counters == <<retry_count, rearm_retries>>
vars     == <<session, task_ssm, reg_buf, identity, image, counters>>

-----------------------------------------------------------------------------
(* The states of the machine that only exchange bytes with the sensor.     *)

(* <<state, register, next state>> *)
RegisterReads == {
  <<"ACTIVATE_READ_MCU_STATE", "MCU_SENSOR_STATUS", "ACTIVATE_CHECK_MCU_STATE">>,
  <<"ACTIVATE_REREAD_MCU_STATE", "MCU_SENSOR_STATUS", "ACTIVATE_RECHECK_MCU_STATE">>,
  <<"ACTIVATE_WAIT_READY_READ", "MCU_SENSOR_STATUS", "ACTIVATE_WAIT_READY_CHECK">>,
  <<"ACTIVATE_READ_CHIP_ID_HIGH", "CHIP_ID_HIGH", "ACTIVATE_STORE_CHIP_ID_HIGH">>,
  <<"ACTIVATE_READ_CHIP_ID_LOW", "CHIP_ID_LOW", "ACTIVATE_STORE_CHIP_ID_LOW">>,
  <<"ACTIVATE_READ_DIM_WIDTH", "SENSOR_WIDTH", "ACTIVATE_STORE_DIM_WIDTH">>,
  <<"ACTIVATE_READ_DIM_HEIGHT", "SENSOR_HEIGHT", "ACTIVATE_STORE_DIM_HEIGHT">>,
  <<"ACTIVATE_READ_CAPTURE_READY", "CAPTURE_READY", "ACTIVATE_CHECK_CAPTURE_READY">>,
  <<"ACTIVATE_ARM_VERIFY_READ", "CAPTURE_READY", "ACTIVATE_ARM_VERIFY_CHECK">>,
  <<"ACTIVATE_AUTO_POWER_POLL_READ", "MCU_SENSOR_STATUS", "ACTIVATE_AUTO_POWER_POLL_CHECK">>,
  <<"ACTIVATE_AUTO_POWER_POLL_2_READ", "MCU_SENSOR_STATUS", "ACTIVATE_AUTO_POWER_POLL_2_CHECK">>,
  <<"ACTIVATE_AUTO_POWER_PRESENT_READ", "FINGER_PRESENT", "ACTIVATE_AUTO_POWER_HUNTING_READ">>,
  <<"ACTIVATE_AUTO_POWER_HUNTING_READ", "MCU_SENSOR_STATUS", "ACTIVATE_AUTO_POWER_HUNTING_CHECK">> }

(* <<state, next state>>: the wake handshake and the register writes *)
RegisterWrites == {
  <<"ACTIVATE_WAKE_1", "ACTIVATE_WAKE_1_DELAY">>,
  <<"ACTIVATE_WAKE_2", "ACTIVATE_WAKE_2_DELAY">>,
  <<"ACTIVATE_WAIT_READY_NUDGE_1", "ACTIVATE_WAIT_READY_NUDGE_DELAY_1">>,
  <<"ACTIVATE_WAIT_READY_NUDGE_2", "ACTIVATE_WAIT_READY_NUDGE_DELAY_2">>,
  <<"ACTIVATE_CONFIG_WRITE_22", "ACTIVATE_CONFIG_WRITE_23">>,
  <<"ACTIVATE_CONFIG_WRITE_23", "ACTIVATE_READ_CAPTURE_READY">>,
  <<"ACTIVATE_ARM_WRITE_01", "ACTIVATE_ARM_WRITE_41">>,
  <<"ACTIVATE_ARM_WRITE_41", "ACTIVATE_ARM_WRITE_30">>,
  <<"ACTIVATE_ARM_WRITE_30", "ACTIVATE_ARM_VERIFY_READ">>,
  <<"ACTIVATE_AUTO_POWER_SET_1", "ACTIVATE_AUTO_POWER_SET_2">>,
  <<"ACTIVATE_AUTO_POWER_SET_2", "ACTIVATE_AUTO_POWER_DELAY">> }

(* <<state, next state>> *)
Delays == {
  <<"ACTIVATE_WAKE_1_DELAY", "ACTIVATE_WAKE_2">>,
  <<"ACTIVATE_WAKE_2_DELAY", "ACTIVATE_REREAD_MCU_STATE">>,
  <<"ACTIVATE_WAIT_READY_NUDGE_DELAY_1", "ACTIVATE_WAIT_READY_NUDGE_2">>,
  <<"ACTIVATE_WAIT_READY_NUDGE_DELAY_2", "ACTIVATE_WAIT_READY_READ">>,
  <<"ACTIVATE_AUTO_POWER_DELAY", "ACTIVATE_AUTO_POWER_POLL_2_READ">> }

activate_states ==
  {r[1] : r \in RegisterReads} \cup {w[1] : w \in RegisterWrites} \cup
  {d[1] : d \in Delays} \cup
  {"ACTIVATE_CHECK_MCU_STATE", "ACTIVATE_RECHECK_MCU_STATE",
   "ACTIVATE_FW_STEP", "ACTIVATE_FW_NEXT", "ACTIVATE_WAIT_READY_CHECK",
   "ACTIVATE_STORE_CHIP_ID_HIGH", "ACTIVATE_STORE_CHIP_ID_LOW",
   "ACTIVATE_STORE_DIM_WIDTH", "ACTIVATE_STORE_DIM_HEIGHT",
   "ACTIVATE_CHECK_CAPTURE_READY", "ACTIVATE_ARM_VERIFY_CHECK",
   "ACTIVATE_AUTO_POWER_POLL_CHECK", "ACTIVATE_AUTO_POWER_POLL_2_CHECK",
   "ACTIVATE_AUTO_POWER_HUNTING_CHECK"}

op == ft9201_firmware_script[fw_step + 1]

-----------------------------------------------------------------------------
(* How the machine ends: fpi_ssm_mark_failed and the end of the last state *)
(* both call activate_ssm_done at once.                                    *)

(* Mutant: the failed open keeps the USB interface. *)
activate_ssm_failed_keeps_claim(error) ==
  /\ task_ssm' = "NULL"
  /\ fw_data' = 0
  /\ device' = "closed"
  /\ open_error' = error
  /\ UNCHANGED <<claimed, cancelled>>

activate_ssm_failed(error) ==
  /\ task_ssm' = "NULL"
  /\ fw_data' = 0
  /\ claimed' = FALSE
  /\ device' = "closed"
  /\ open_error' = error
  /\ UNCHANGED cancelled

activate_ssm_completed ==
  /\ task_ssm' = "NULL"
  /\ fw_data' = 0
  /\ device' = "open"
  /\ UNCHANGED <<claimed, cancelled, open_error>>

(* The bus reset that comes first only touches the sensor. *)
recover_and_fail == activate_ssm_failed("PROTO")

fpi_ssm_jump_to_state(state) ==
  /\ task_ssm' = state
  /\ UNCHANGED <<session, fw_data>>

-----------------------------------------------------------------------------
(* The firmware download.                                                  *)

(* Mutant: the length need not be a multiple of the unit. *)
UsableImage_any_length(len) == len >= FW_MIN_SIZE /\ len <= FW_MAX_SIZE

UsableImage(len) ==
  len >= FW_MIN_SIZE /\ len <= FW_MAX_SIZE /\ len % FW_CHUNK_SIZE = 0

(* The image in memory after load_firmware, 0 when it returns FALSE. *)
load_firmware(file) ==
  CASE fw_data # 0                          -> fw_data
    [] fw_data = 0 /\ UsableImage(file)     -> file
    [] fw_data = 0 /\ ~UsableImage(file)    -> 0

load_error(file) == IF file = NoFile THEN "NOT_SUPPORTED" ELSE "DATA_INVALID"

(* What both users of load_firmware do with its result. *)
start_download ==
  \E file \in FirmwareFiles :
    \/ /\ load_firmware(file) # 0
       /\ fw_data' = load_firmware(file)
       /\ fw_step' = 0
       /\ task_ssm' = "ACTIVATE_FW_STEP"
       /\ UNCHANGED session
    \/ /\ load_firmware(file) = 0
       /\ activate_ssm_failed(load_error(file))
       /\ UNCHANGED fw_step

(* Mutant: after the recovery download the machine resumes where it was. *)
FwStepEnd_resumes ==
  /\ task_ssm = "ACTIVATE_FW_STEP"
  /\ op.kind = "END"
  /\ fpi_ssm_jump_to_state(IF fw_reloaded THEN "ACTIVATE_AUTO_POWER_SET_1"
                           ELSE "ACTIVATE_WAIT_READY_READ")
  /\ UNCHANGED <<reg_buf, identity, fw_step, fw_reloaded, counters>>

FwStepEnd ==
  /\ task_ssm = "ACTIVATE_FW_STEP"
  /\ op.kind = "END"
  /\ fpi_ssm_jump_to_state("ACTIVATE_WAIT_READY_READ")
  /\ UNCHANGED <<reg_buf, identity, fw_step, fw_reloaded, counters>>

FwStepRead ==
  /\ task_ssm = "ACTIVATE_FW_STEP"
  /\ op.kind = "IN"
  /\ ~cancelled
  /\ reg_buf' \in Reply["FW_IN"]
  /\ fpi_ssm_jump_to_state("ACTIVATE_FW_NEXT")
  /\ UNCHANGED <<identity, fw_step, fw_reloaded, counters>>

FwStepSend ==
  /\ task_ssm = "ACTIVATE_FW_STEP"
  /\ op.kind \in {"OUT", "SEND_PROBE", "SEND_IMAGE"}
  /\ ~cancelled
  /\ fpi_ssm_jump_to_state("ACTIVATE_FW_NEXT")
  /\ UNCHANGED <<reg_buf, identity, fw_step, fw_reloaded, counters>>

FwStepDelay ==
  /\ task_ssm = "ACTIVATE_FW_STEP"
  /\ op.kind = "DELAY"
  /\ fpi_ssm_jump_to_state("ACTIVATE_FW_NEXT")
  /\ UNCHANGED <<reg_buf, identity, fw_step, fw_reloaded, counters>>

note_sfr_read ==
  sensor_type' = IF op.kind = "IN" /\ op.request = "SFR_READ"
                    /\ op.index = SFR_CHIP_TYPE
                 THEN (reg_buf[1] \div 2) % 16
                 ELSE sensor_type

FwNext ==
  /\ task_ssm = "ACTIVATE_FW_NEXT"
  /\ note_sfr_read
  /\ fw_step' = fw_step + 1
  /\ fpi_ssm_jump_to_state("ACTIVATE_FW_STEP")
  /\ UNCHANGED <<reg_buf, chip_id, sensor_width, sensor_height, fw_reloaded,
                 counters>>

-----------------------------------------------------------------------------
(* Exchanges with the sensor.                                              *)

ReadRegister ==
  /\ ~cancelled
  /\ \E r \in RegisterReads :
       /\ task_ssm = r[1]
       /\ reg_buf' \in Reply[r[2]]
       /\ fpi_ssm_jump_to_state(r[3])
  /\ UNCHANGED <<identity, fw_step, fw_reloaded, counters>>

WriteRegister ==
  /\ ~cancelled
  /\ \E w \in RegisterWrites :
       /\ task_ssm = w[1]
       /\ fpi_ssm_jump_to_state(w[2])
  /\ UNCHANGED <<reg_buf, identity, fw_step, fw_reloaded, counters>>

DelayElapsed ==
  /\ \E d \in Delays :
       /\ task_ssm = d[1]
       /\ fpi_ssm_jump_to_state(d[2])
  /\ UNCHANGED <<reg_buf, identity, fw_step, fw_reloaded, counters>>

TransferState ==
  \/ \E r \in RegisterReads : task_ssm = r[1]
  \/ \E w \in RegisterWrites : task_ssm = w[1]
  \/ /\ task_ssm = "ACTIVATE_FW_STEP"
     /\ op.kind \in {"OUT", "IN", "SEND_PROBE", "SEND_IMAGE"}

(* A stall, a timeout, a lost device, or the cancellation. *)
TransferFails ==
  /\ TransferState
  /\ activate_ssm_failed("TRANSFER")
  /\ UNCHANGED <<reg_buf, identity, fw_step, fw_reloaded, counters>>

-----------------------------------------------------------------------------
(* Decisions on the last answer.                                           *)

(* Mutant: silence is believed without the wake handshake. *)
CheckMcuState_no_wake ==
  /\ task_ssm = "ACTIVATE_CHECK_MCU_STATE"
  /\ \/ /\ is_mcu_alive(reg_buf)
        /\ fpi_ssm_jump_to_state("ACTIVATE_WAIT_READY_READ")
     \/ /\ ~is_mcu_alive(reg_buf)
        /\ fpi_ssm_jump_to_state("ACTIVATE_RECHECK_MCU_STATE")
  /\ UNCHANGED <<reg_buf, identity, fw_step, fw_reloaded, counters>>

CheckMcuState ==
  /\ task_ssm = "ACTIVATE_CHECK_MCU_STATE"
  /\ \/ /\ is_mcu_alive(reg_buf)
        /\ fpi_ssm_jump_to_state("ACTIVATE_WAIT_READY_READ")
     \/ /\ ~is_mcu_alive(reg_buf)
        /\ fpi_ssm_jump_to_state("ACTIVATE_WAKE_1")
  /\ UNCHANGED <<reg_buf, identity, fw_step, fw_reloaded, counters>>

RecheckMcuState ==
  /\ task_ssm = "ACTIVATE_RECHECK_MCU_STATE"
  /\ \/ /\ is_mcu_alive(reg_buf)
        /\ fpi_ssm_jump_to_state("ACTIVATE_WAIT_READY_READ")
        /\ UNCHANGED fw_step
     \/ /\ ~is_mcu_alive(reg_buf)
        /\ start_download
  /\ UNCHANGED <<reg_buf, identity, fw_reloaded, counters>>

(* The three loops that wait for "a5 5a" share retry_count. *)
PollCheck(state, limit, ready, again) ==
  /\ task_ssm = state
  /\ \/ /\ is_mcu_ready(reg_buf)
        /\ retry_count' = 0
        /\ fpi_ssm_jump_to_state(ready)
     \/ /\ ~is_mcu_ready(reg_buf)
        /\ retry_count >= limit
        /\ retry_count' = 0
        /\ recover_and_fail
     \/ /\ ~is_mcu_ready(reg_buf)
        /\ retry_count < limit
        /\ retry_count' = retry_count + 1
        /\ fpi_ssm_jump_to_state(again)
  /\ UNCHANGED <<reg_buf, identity, fw_step, fw_reloaded, rearm_retries>>

(* Mutant: the jump lands behind the read and not on it. *)
WaitReadyCheck_skips_read ==
  PollCheck("ACTIVATE_WAIT_READY_CHECK", MCU_READY_MAX_POLLS,
            "ACTIVATE_STORE_CHIP_ID_HIGH", "ACTIVATE_WAIT_READY_NUDGE_1")

(* Mutant: the wait only waits, and does not disturb the search. *)
WaitReadyCheck_no_nudge ==
  PollCheck("ACTIVATE_WAIT_READY_CHECK", MCU_READY_MAX_POLLS,
            "ACTIVATE_READ_CHIP_ID_HIGH", "ACTIVATE_WAIT_READY_READ")

WaitReadyCheck ==
  PollCheck("ACTIVATE_WAIT_READY_CHECK", MCU_READY_MAX_POLLS,
            "ACTIVATE_READ_CHIP_ID_HIGH", "ACTIVATE_WAIT_READY_NUDGE_1")

(* Mutant: the success of the first loop does not reset the shared counter. *)
AutoPowerPollCheck_keeps_count ==
  /\ task_ssm = "ACTIVATE_AUTO_POWER_POLL_CHECK"
  /\ \/ /\ is_mcu_ready(reg_buf)
        /\ retry_count' = retry_count
        /\ fpi_ssm_jump_to_state("ACTIVATE_AUTO_POWER_SET_1")
     \/ /\ ~is_mcu_ready(reg_buf)
        /\ retry_count >= AUTO_POWER_MAX_RETRY
        /\ retry_count' = 0
        /\ recover_and_fail
     \/ /\ ~is_mcu_ready(reg_buf)
        /\ retry_count < AUTO_POWER_MAX_RETRY
        /\ retry_count' = retry_count + 1
        /\ fpi_ssm_jump_to_state("ACTIVATE_AUTO_POWER_POLL_READ")
  /\ UNCHANGED <<reg_buf, identity, fw_step, fw_reloaded, rearm_retries>>

AutoPowerPollCheck ==
  PollCheck("ACTIVATE_AUTO_POWER_POLL_CHECK", AUTO_POWER_MAX_RETRY,
            "ACTIVATE_AUTO_POWER_SET_1", "ACTIVATE_AUTO_POWER_POLL_READ")

AutoPowerPoll2Check ==
  PollCheck("ACTIVATE_AUTO_POWER_POLL_2_CHECK", AUTO_POWER_MAX_RETRY,
            "ACTIVATE_AUTO_POWER_PRESENT_READ", "ACTIVATE_AUTO_POWER_POLL_2_READ")

StoreChipIdHigh ==
  /\ task_ssm = "ACTIVATE_STORE_CHIP_ID_HIGH"
  /\ chip_id' = reg_buf[1] * 256
  /\ fpi_ssm_jump_to_state("ACTIVATE_READ_CHIP_ID_LOW")
  /\ UNCHANGED <<reg_buf, sensor_width, sensor_height, sensor_type, fw_step,
                 fw_reloaded, counters>>

(* The low byte of chip_id is zero here, so the | of the code is a sum. *)
StoreChipIdLow ==
  /\ task_ssm = "ACTIVATE_STORE_CHIP_ID_LOW"
  /\ chip_id' = chip_id + reg_buf[1]
  /\ fpi_ssm_jump_to_state("ACTIVATE_READ_DIM_WIDTH")
  /\ UNCHANGED <<reg_buf, sensor_width, sensor_height, sensor_type, fw_step,
                 fw_reloaded, counters>>

StoreDimWidth ==
  /\ task_ssm = "ACTIVATE_STORE_DIM_WIDTH"
  /\ sensor_width' = reg_buf[1]
  /\ fpi_ssm_jump_to_state("ACTIVATE_READ_DIM_HEIGHT")
  /\ UNCHANGED <<reg_buf, chip_id, sensor_height, sensor_type, fw_step,
                 fw_reloaded, counters>>

(* Mutant: a size of zero passes. *)
StoreDimHeight_any ==
  /\ task_ssm = "ACTIVATE_STORE_DIM_HEIGHT"
  /\ sensor_height' = reg_buf[1]
  /\ fpi_ssm_jump_to_state("ACTIVATE_CONFIG_WRITE_22")
  /\ UNCHANGED <<reg_buf, chip_id, sensor_width, sensor_type, fw_step,
                 fw_reloaded, counters>>

StoreDimHeight ==
  /\ task_ssm = "ACTIVATE_STORE_DIM_HEIGHT"
  /\ sensor_height' = reg_buf[1]
  /\ \/ /\ sensor_width = 0 \/ sensor_height' = 0
        /\ recover_and_fail
     \/ /\ sensor_width # 0 /\ sensor_height' # 0
        /\ fpi_ssm_jump_to_state("ACTIVATE_CONFIG_WRITE_22")
  /\ UNCHANGED <<reg_buf, chip_id, sensor_width, sensor_type, fw_step,
                 fw_reloaded, counters>>

(* The value goes to the log, and the driver arms the sensor all the same. *)
CheckCaptureReady ==
  /\ task_ssm = "ACTIVATE_CHECK_CAPTURE_READY"
  /\ fpi_ssm_jump_to_state("ACTIVATE_ARM_WRITE_01")
  /\ UNCHANGED <<reg_buf, identity, fw_step, fw_reloaded, counters>>

ArmVerifyCheck ==
  /\ task_ssm = "ACTIVATE_ARM_VERIFY_CHECK"
  /\ \/ /\ reg_buf[1] # CAPTURE_READY_MAGIC
        /\ recover_and_fail
     \/ /\ reg_buf[1] = CAPTURE_READY_MAGIC
        /\ fpi_ssm_jump_to_state("ACTIVATE_AUTO_POWER_POLL_READ")
  /\ UNCHANGED <<reg_buf, identity, fw_step, fw_reloaded, counters>>

-----------------------------------------------------------------------------
(* The last decision: does the sensor look for a finger?                   *)

(* Mutant: any answer of the MCU counts as the search. *)
HuntingBusy_alive ==
  /\ task_ssm = "ACTIVATE_AUTO_POWER_HUNTING_CHECK"
  /\ is_mcu_alive(reg_buf)
  /\ rearm_retries' = 0
  /\ activate_ssm_completed
  /\ UNCHANGED <<reg_buf, identity, fw_step, fw_reloaded, retry_count>>

HuntingBusy ==
  /\ task_ssm = "ACTIVATE_AUTO_POWER_HUNTING_CHECK"
  /\ is_mcu_busy(reg_buf)
  /\ rearm_retries' = 0
  /\ activate_ssm_completed
  /\ UNCHANGED <<reg_buf, identity, fw_step, fw_reloaded, retry_count>>

(* Mutant: one re-arm too many. *)
HuntingRearm_off_by_one ==
  /\ task_ssm = "ACTIVATE_AUTO_POWER_HUNTING_CHECK"
  /\ ~is_mcu_busy(reg_buf)
  /\ rearm_retries <= REARM_MAX_RETRY
  /\ rearm_retries' = rearm_retries + 1
  /\ fpi_ssm_jump_to_state("ACTIVATE_AUTO_POWER_SET_1")
  /\ UNCHANGED <<reg_buf, identity, fw_step, fw_reloaded, retry_count>>

HuntingRearm ==
  /\ task_ssm = "ACTIVATE_AUTO_POWER_HUNTING_CHECK"
  /\ ~is_mcu_busy(reg_buf)
  /\ rearm_retries < REARM_MAX_RETRY
  /\ rearm_retries' = rearm_retries + 1
  /\ fpi_ssm_jump_to_state("ACTIVATE_AUTO_POWER_SET_1")
  /\ UNCHANGED <<reg_buf, identity, fw_step, fw_reloaded, retry_count>>

(* Mutant: the recovery does not note that it ran. *)
HuntingReload_forgets ==
  /\ task_ssm = "ACTIVATE_AUTO_POWER_HUNTING_CHECK"
  /\ ~is_mcu_busy(reg_buf)
  /\ rearm_retries >= REARM_MAX_RETRY
  /\ ~fw_reloaded
  /\ rearm_retries' = 0
  /\ start_download
  /\ UNCHANGED <<reg_buf, identity, fw_reloaded, retry_count>>

(* Mutant: the recovery does not allow a new round of re-arms. *)
HuntingReload_keeps_retries ==
  /\ task_ssm = "ACTIVATE_AUTO_POWER_HUNTING_CHECK"
  /\ ~is_mcu_busy(reg_buf)
  /\ rearm_retries >= REARM_MAX_RETRY
  /\ ~fw_reloaded
  /\ fw_reloaded' = TRUE
  /\ start_download
  /\ UNCHANGED <<reg_buf, identity, counters>>

HuntingReload ==
  /\ task_ssm = "ACTIVATE_AUTO_POWER_HUNTING_CHECK"
  /\ ~is_mcu_busy(reg_buf)
  /\ rearm_retries >= REARM_MAX_RETRY
  /\ ~fw_reloaded
  /\ rearm_retries' = 0
  /\ fw_reloaded' = TRUE
  /\ start_download
  /\ UNCHANGED <<reg_buf, identity, retry_count>>

HuntingGiveUp ==
  /\ task_ssm = "ACTIVATE_AUTO_POWER_HUNTING_CHECK"
  /\ ~is_mcu_busy(reg_buf)
  /\ rearm_retries >= REARM_MAX_RETRY
  /\ fw_reloaded
  /\ rearm_retries' = 0
  /\ activate_ssm_completed
  /\ UNCHANGED <<reg_buf, identity, fw_step, fw_reloaded, retry_count>>

-----------------------------------------------------------------------------
(* The calls of libfprint.                                                 *)

dev_open ==
  /\ device = "closed"
  /\ claimed' = TRUE
  /\ device' = "opening"
  /\ cancelled' = FALSE
  /\ open_error' = "none"
  /\ retry_count' = 0
  /\ fw_step' = 0
  /\ fw_reloaded' = FALSE
  /\ task_ssm' = "ACTIVATE_READ_MCU_STATE"
  /\ UNCHANGED <<reg_buf, identity, fw_data, rearm_retries>>

dev_open_claim_fails ==
  /\ device = "closed"
  /\ open_error' = "CLAIM"
  /\ UNCHANGED <<device, claimed, cancelled, task_ssm, reg_buf, identity,
                 image, counters>>

dev_close ==
  /\ device = "open"
  /\ claimed' = FALSE
  /\ device' = "closed"
  /\ UNCHANGED <<cancelled, open_error, task_ssm, reg_buf, identity, image,
                 counters>>

Cancel ==
  /\ device = "opening"
  /\ ~cancelled
  /\ cancelled' = TRUE
  /\ UNCHANGED <<device, claimed, open_error, task_ssm, reg_buf, identity,
                 image, counters>>

-----------------------------------------------------------------------------
Init ==
  /\ device = "closed"
  /\ claimed = FALSE
  /\ cancelled = FALSE
  /\ open_error = "none"
  /\ task_ssm = "NULL"
  /\ reg_buf = <<0, 0>>
  /\ chip_id = 0 /\ sensor_width = 0 /\ sensor_height = 0
  /\ sensor_type = SENSOR_TYPE_UNKNOWN
  /\ retry_count = 0
  /\ fw_data = 0 /\ fw_step = 0 /\ fw_reloaded = FALSE
  /\ rearm_retries = 0

activate_run_state ==
  \/ ReadRegister \/ WriteRegister \/ DelayElapsed \/ TransferFails
  \/ CheckMcuState \/ RecheckMcuState
  \/ FwStepEnd \/ FwStepRead \/ FwStepSend \/ FwStepDelay \/ FwNext
  \/ WaitReadyCheck \/ AutoPowerPollCheck \/ AutoPowerPoll2Check
  \/ StoreChipIdHigh \/ StoreChipIdLow \/ StoreDimWidth \/ StoreDimHeight
  \/ CheckCaptureReady \/ ArmVerifyCheck
  \/ HuntingBusy \/ HuntingRearm \/ HuntingReload \/ HuntingGiveUp

Next ==
  \/ activate_run_state
  \/ dev_open \/ dev_open_claim_fails \/ dev_close \/ Cancel

Spec == Init /\ [][Next]_vars

(* Transfers end (every one has a timeout) and the main loop runs, so the  *)
(* machine takes its next step.  Nobody has to open, close or cancel.      *)
FairSpec == Spec /\ WF_vars(activate_run_state)

-----------------------------------------------------------------------------
TypeOK ==
  /\ device \in {"closed", "opening", "open"}
  /\ claimed \in BOOLEAN
  /\ cancelled \in BOOLEAN
  /\ open_error \in {"none", "CLAIM", "TRANSFER", "PROTO", "NOT_SUPPORTED",
                     "DATA_INVALID"}
  /\ task_ssm \in activate_states \cup {"NULL"}
  /\ reg_buf \in Byte \X Byte
  /\ chip_id \in UInt16
  /\ sensor_width \in Byte
  /\ sensor_height \in Byte
  /\ sensor_type \in Byte
  /\ retry_count \in Nat
  /\ fw_data \in Nat
  /\ fw_step \in 0..(Len(ft9201_firmware_script) - 1)
  /\ rearm_retries \in 0..REARM_MAX_RETRY
  /\ fw_reloaded \in BOOLEAN

(* The interface, the image and the machine belong to the open operation:  *)
(* every way out of it, at any state and with any error, gives back the    *)
(* interface when the open fails and the image in every case               *)
(* (activate_ssm_done, dev_open, dev_close).                               *)
OwnsOnlyWhatItUses ==
  /\ claimed <=> device # "closed"
  /\ task_ssm # "NULL" <=> device = "opening"
  /\ fw_data # 0 => device = "opening"

(* Whatever is on the disk, and however the download was reached, what the *)
(* driver streams to the code RAM is a whole number of 64-byte units within *)
(* the limits, and the table is never read past its end.                   *)
StreamsOnlyAUsableImage ==
  task_ssm \in {"ACTIVATE_FW_STEP", "ACTIVATE_FW_NEXT"} =>
    /\ fw_data \in {FW_CHUNK_SIZE * n : n \in 16..1024}
    /\ fw_step < Len(ft9201_firmware_script)
    /\ task_ssm = "ACTIVATE_FW_NEXT" => op.kind # "END"

(* Every open operation ends, whatever the sensor answers: no cycle of the *)
(* machine (polls, nudges, re-arms, the recovery download) is endless.     *)
OpenTerminates == device = "opening" ~> device # "opening"
=============================================================================
