---------------------- MODULE Ft9201ActivationHistory ----------------------
(***************************************************************************)
(* The activation with history variables, and the properties that need     *)
(* them.  The history of an open operation starts anew at each dev_open,   *)
(* only reads the variables of the driver, and never restricts a step.     *)
(***************************************************************************)
EXTENDS Ft9201Activation

VARIABLES
  answered,    \* the register whose answer is in reg_buf, or "none"
  polls,       \* answers of 0x20 seen in the present wait for "a5 5a"
  rearms,      \* times the sensor was armed again since the last download
  downloads,   \* firmware images sent in this open operation
  prepared,    \* what was done to the sensor since its code last started
  silent       \* the MCU gave no answer after a wake handshake

history == <<answered, polls, rearms, downloads, prepared, silent>>
hvars   == <<vars, history>>

(* A step that did not end the machine with an error or a completion. *)
Continues == task_ssm # "NULL" /\ task_ssm' # "NULL"

Opens == device = "closed" /\ device' = "opening"

From(states) == task_ssm \in states

WaitReads  == {"ACTIVATE_WAIT_READY_READ", "ACTIVATE_AUTO_POWER_POLL_READ",
               "ACTIVATE_AUTO_POWER_POLL_2_READ"}
WaitOthers == {"ACTIVATE_WAIT_READY_CHECK", "ACTIVATE_AUTO_POWER_POLL_CHECK",
               "ACTIVATE_AUTO_POWER_POLL_2_CHECK",
               "ACTIVATE_WAIT_READY_NUDGE_1", "ACTIVATE_WAIT_READY_NUDGE_DELAY_1",
               "ACTIVATE_WAIT_READY_NUDGE_2", "ACTIVATE_WAIT_READY_NUDGE_DELAY_2"}

SendsImage == From({"ACTIVATE_FW_STEP"}) /\ op.kind = "SEND_IMAGE"

HistoryInit ==
  /\ Init
  /\ answered = "none"
  /\ polls = 0
  /\ rearms = 0
  /\ downloads = 0
  /\ prepared = {}
  /\ silent = FALSE

ObserveOpen ==
  /\ answered' = "none"
  /\ polls' = 0
  /\ rearms' = 0
  /\ downloads' = 0
  /\ prepared' = {}
  /\ silent' = FALSE

ObserveAnswered ==
  answered' = IF From({r[1] : r \in RegisterReads})
              THEN (CHOOSE r \in RegisterReads : r[1] = task_ssm)[2]
              ELSE IF From({"ACTIVATE_FW_STEP"}) /\ op.kind = "IN"
              THEN op.request
              ELSE answered

ObservePolls ==
  polls' = CASE From(WaitReads)                 -> polls + 1
             [] From(WaitOthers)                -> polls
             [] ~From(WaitReads \cup WaitOthers) -> 0

ObserveRearms ==
  rearms' = IF From({"ACTIVATE_AUTO_POWER_HUNTING_CHECK"})
            THEN IF task_ssm' = "ACTIVATE_FW_STEP" THEN 0 ELSE rearms + 1
            ELSE rearms

(* Bound: three downloads of one open operation stand for more. *)
ObserveDownloads ==
  downloads' = IF SendsImage /\ downloads < 3 THEN downloads + 1 ELSE downloads

(* The new code knows nothing of what was written before it. *)
ObservePrepared ==
  prepared' =
    CASE SendsImage -> {}
      [] From({"ACTIVATE_WAIT_READY_CHECK"})
           /\ task_ssm' = "ACTIVATE_READ_CHIP_ID_HIGH" -> prepared \cup {"ready"}
      [] From({"ACTIVATE_STORE_DIM_HEIGHT"})  -> prepared \cup {"sized"}
      [] From({"ACTIVATE_CONFIG_WRITE_23"})   -> prepared \cup {"configured"}
      [] From({"ACTIVATE_ARM_VERIFY_CHECK"})  -> prepared \cup {"armed"}
      [] From({"ACTIVATE_AUTO_POWER_SET_2"})  -> prepared \cup {"detecting"}
      [] OTHER                                -> prepared

ObserveStep ==
  /\ ObserveAnswered /\ ObservePolls /\ ObserveRearms /\ ObserveDownloads
  /\ ObservePrepared
  /\ silent' = (silent \/ (/\ From({"ACTIVATE_RECHECK_MCU_STATE"})
                           /\ task_ssm' = "ACTIVATE_FW_STEP"))

(* An open that ends, a failed load, a close or a cancel only keeps. *)
ObserveEnd ==
  /\ silent' = (silent \/ (/\ From({"ACTIVATE_RECHECK_MCU_STATE"})
                           /\ task_ssm' = "NULL"))
  /\ UNCHANGED <<answered, polls, rearms, downloads, prepared>>

HistoryNext ==
  /\ Next
  /\ \/ Opens /\ ObserveOpen
     \/ ~Opens /\ Continues /\ task_ssm' # task_ssm /\ ObserveStep
     \/ ~Opens /\ (~Continues \/ task_ssm' = task_ssm) /\ ObserveEnd

HistorySpec == HistoryInit /\ [][HistoryNext]_hvars

(* The main loop runs the machine. *)
FairHistorySpec == HistorySpec /\ WF_hvars(activate_run_state /\ HistoryNext)

-----------------------------------------------------------------------------
(* An open device was prepared completely by the code that now runs in it: *)
(* also after the recovery download, the driver waited for a5 5a, read the *)
(* dimensions, wrote the configuration, saw 0xbb come back and started the *)
(* finger detection.                                                       *)
OpenMeansPrepared ==
  device = "open" =>
    /\ prepared = {"ready", "sized", "configured", "armed", "detecting"}
    /\ sensor_width > 0 /\ sensor_height > 0

(* The image is sent at most once because the MCU was silent and at most   *)
(* once because it did not start to hunt, never for another reason.        *)
EveryDownloadHasAReason ==
  downloads <= (IF silent THEN 1 ELSE 0) + (IF fw_reloaded THEN 1 ELSE 0)

(* reg_buf is shared scratch space: each decision is made on the answer of *)
(* the read that belongs to it, never on what an earlier read left there.  *)
ExpectedAnswer ==
  [ ACTIVATE_CHECK_MCU_STATE          |-> "MCU_SENSOR_STATUS",
    ACTIVATE_RECHECK_MCU_STATE        |-> "MCU_SENSOR_STATUS",
    ACTIVATE_WAIT_READY_CHECK         |-> "MCU_SENSOR_STATUS",
    ACTIVATE_STORE_CHIP_ID_HIGH       |-> "CHIP_ID_HIGH",
    ACTIVATE_STORE_CHIP_ID_LOW        |-> "CHIP_ID_LOW",
    ACTIVATE_STORE_DIM_WIDTH          |-> "SENSOR_WIDTH",
    ACTIVATE_STORE_DIM_HEIGHT         |-> "SENSOR_HEIGHT",
    ACTIVATE_CHECK_CAPTURE_READY      |-> "CAPTURE_READY",
    ACTIVATE_ARM_VERIFY_CHECK         |-> "CAPTURE_READY",
    ACTIVATE_AUTO_POWER_POLL_CHECK    |-> "MCU_SENSOR_STATUS",
    ACTIVATE_AUTO_POWER_POLL_2_CHECK  |-> "MCU_SENSOR_STATUS",
    ACTIVATE_AUTO_POWER_HUNTING_CHECK |-> "MCU_SENSOR_STATUS" ]

DecidesOnItsOwnAnswer ==
  /\ task_ssm \in DOMAIN ExpectedAnswer => answered = ExpectedAnswer[task_ssm]
  /\ task_ssm = "ACTIVATE_FW_NEXT" /\ op.kind = "IN" => answered = op.request

(* retry_count is shared by three loops and survives an open that fails in *)
(* one of them: a loop still gives up only after it saw its full number of *)
(* answers.                                                                *)
GivesUpOnlyAfterFullBudget ==
  [][ /\ task_ssm \in {"ACTIVATE_WAIT_READY_CHECK",
                       "ACTIVATE_AUTO_POWER_POLL_CHECK",
                       "ACTIVATE_AUTO_POWER_POLL_2_CHECK"}
      /\ task_ssm' = "NULL"
      => polls = 1 + (IF task_ssm = "ACTIVATE_WAIT_READY_CHECK"
                      THEN MCU_READY_MAX_POLLS ELSE AUTO_POWER_MAX_RETRY)
    ]_hvars

(* An open operation that ends well leaves the MCU hunting, or the driver  *)
(* armed it the full number of times again after the recovery download.    *)
IdleOnlyAfterFullRecovery ==
  [][ device = "opening" /\ device' = "open" =>
        \/ is_mcu_busy(reg_buf)
        \/ fw_reloaded /\ downloads > 0 /\ rearms = REARM_MAX_RETRY
    ]_hvars

-----------------------------------------------------------------------------
(* What the documents say of the recovery.                                 *)

(* PROTOCOL.md: the driver arms the sensor again three times, and only if  *)
(* the search still does not start it sends the firmware again.            *)
RecoveryOnlyAfterMaxRearms ==
  [][ task_ssm = "ACTIVATE_AUTO_POWER_HUNTING_CHECK" /\ fw_reloaded' # fw_reloaded
        => rearms = REARM_MAX_RETRY ]_hvars

(* The text of the error: "the sensor has no firmware loaded".             *)
NotSupportedMeansSilent == open_error = "NOT_SUPPORTED" => silent
=============================================================================
