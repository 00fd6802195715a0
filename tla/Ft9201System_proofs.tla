------------------------ MODULE Ft9201System_proofs ------------------------
(***************************************************************************)
(* The driver with its sensor, for every number of writes that do not take *)
(* in a row, all limits of the loops and every download that ends in the   *)
(* new code: from whatever state a crash leaves the sensor in, an open     *)
(* operation brings it back.                                               *)
(***************************************************************************)
EXTENDS Ft9201System, TLAPS

activate_states == Activation!activate_states
capture_states  == Capture!capture_states

(* A core with its code that is not busy answers a5 5a. *)
Awake == mode \in {"idle", "primed", "pressed"}

(* The entry behind which the new code runs. *)
commit ==
  CHOOSE c \in 1..Len(ft9201_firmware_script) :
    /\ ft9201_firmware_script[c].kind = "OUT"
    /\ ft9201_firmware_script[c].request = "FIRMWARE_COMMIT"
    /\ \A i \in (c + 1)..Len(ft9201_firmware_script) :
         ft9201_firmware_script[i].request # "CODE_RAM_WRITE"

(* The loop that waits for the MCU. *)
WaitLoop ==
  {"ACTIVATE_WAIT_READY_READ", "ACTIVATE_WAIT_READY_CHECK",
   "ACTIVATE_WAIT_READY_NUDGE_1", "ACTIVATE_WAIT_READY_NUDGE_DELAY_1",
   "ACTIVATE_WAIT_READY_NUDGE_2", "ACTIVATE_WAIT_READY_NUDGE_DELAY_2"}

(* From the end of this loop to the read that starts the search. *)
Identifying ==
  {"ACTIVATE_READ_CHIP_ID_HIGH", "ACTIVATE_STORE_CHIP_ID_HIGH",
   "ACTIVATE_READ_CHIP_ID_LOW", "ACTIVATE_STORE_CHIP_ID_LOW",
   "ACTIVATE_READ_DIM_WIDTH", "ACTIVATE_STORE_DIM_WIDTH",
   "ACTIVATE_READ_DIM_HEIGHT", "ACTIVATE_STORE_DIM_HEIGHT",
   "ACTIVATE_CONFIG_WRITE_22", "ACTIVATE_CONFIG_WRITE_23",
   "ACTIVATE_READ_CAPTURE_READY", "ACTIVATE_CHECK_CAPTURE_READY",
   "ACTIVATE_ARM_WRITE_01", "ACTIVATE_ARM_WRITE_41", "ACTIVATE_ARM_WRITE_30"}

Arming == {"ACTIVATE_ARM_VERIFY_READ", "ACTIVATE_ARM_VERIFY_CHECK"}

Powering ==
  {"ACTIVATE_AUTO_POWER_POLL_READ", "ACTIVATE_AUTO_POWER_POLL_CHECK",
   "ACTIVATE_AUTO_POWER_SET_1", "ACTIVATE_AUTO_POWER_SET_2",
   "ACTIVATE_AUTO_POWER_DELAY", "ACTIVATE_AUTO_POWER_POLL_2_READ",
   "ACTIVATE_AUTO_POWER_POLL_2_CHECK", "ACTIVATE_AUTO_POWER_PRESENT_READ"}

Hunting == {"ACTIVATE_AUTO_POWER_HUNTING_READ", "ACTIVATE_AUTO_POWER_HUNTING_CHECK"}

(* Silence after the handshake means that the code is missing. *)
WakeInv ==
  /\ task_ssm \in {"ACTIVATE_WAKE_2_DELAY", "ACTIVATE_REREAD_MCU_STATE"}
       => (code = "whole" => mode = "idle")
  /\ task_ssm = "ACTIVATE_CHECK_MCU_STATE"
       => (is_mcu_alive(reg_buf) => code = "whole")
  /\ task_ssm = "ACTIVATE_RECHECK_MCU_STATE"
       => (is_mcu_alive(reg_buf) <=> code = "whole")

(* Behind FIRMWARE_COMMIT the code is there. *)
DownloadInv ==
  /\ task_ssm = "ACTIVATE_FW_STEP" =>
       /\ fw_step \in 0..(Len(ft9201_firmware_script) - 1)
       /\ fw_step >= commit => code = "whole"
  /\ task_ssm = "ACTIVATE_FW_NEXT" =>
       /\ fw_step \in 0..(Len(ft9201_firmware_script) - 2)
       /\ fw_step + 1 >= commit => code = "whole"

(* One nudge is enough, and only this loop counts. *)
WaitInv ==
  /\ task_ssm \in WaitLoop => code = "whole" /\ retry_count \in Nat
  /\ task_ssm = "ACTIVATE_WAIT_READY_NUDGE_DELAY_2" => Awake
  /\ task_ssm = "ACTIVATE_WAIT_READY_READ" => (retry_count # 0 => Awake)
  /\ task_ssm = "ACTIVATE_WAIT_READY_CHECK" =>
       /\ retry_count # 0 => is_mcu_ready(reg_buf)
       /\ is_mcu_ready(reg_buf) => Awake
  /\ task_ssm \in activate_states \ WaitLoop => retry_count = 0

(* What the sensor answers while it is identified, armed and switched on.  *)
AnswerInv ==
  /\ task_ssm \in Identifying \cup Arming \cup Powering => code = "whole" /\ Awake
  /\ task_ssm \in {"ACTIVATE_STORE_DIM_WIDTH", "ACTIVATE_STORE_DIM_HEIGHT"}
       => reg_buf[1] # 0
  /\ task_ssm \in {"ACTIVATE_READ_DIM_HEIGHT", "ACTIVATE_STORE_DIM_HEIGHT"}
       => sensor_width # 0
  /\ task_ssm \in Arming \cup Powering \cup Hunting => armed
  /\ task_ssm = "ACTIVATE_ARM_VERIFY_CHECK" => reg_buf[1] = CAPTURE_READY_MAGIC
  /\ task_ssm \in {"ACTIVATE_AUTO_POWER_POLL_CHECK",
                   "ACTIVATE_AUTO_POWER_POLL_2_CHECK"} => is_mcu_ready(reg_buf)

(* The sensor is busy if and only if it searches, which a write that did   *)
(* not take does not make it do.                                           *)
SearchInv ==
  /\ mode \in {"asleep", "idle", "primed", "hunting", "busy", "pressed"}
  /\ mode \in {"primed", "hunting"} => misses = 0
  /\ task_ssm \in Hunting => code = "whole" /\ (Awake \/ mode = "hunting")
  /\ task_ssm = "ACTIVATE_AUTO_POWER_HUNTING_CHECK"
       => (is_mcu_busy(reg_buf) <=> mode = "hunting")

StateInv ==
  /\ task_ssm \in activate_states \cup capture_states \cup {"NULL"}
  /\ open_error \in {"none", "CLAIM", "TRANSFER"}

SInv ==
  StateInv /\ WakeInv /\ DownloadInv /\ WaitInv /\ AnswerInv /\ SearchInv

-----------------------------------------------------------------------------
(* The states that the machines name, and the tables. *)
LEMMA StatesApart ==
  /\ activate_states \cap capture_states = {}
  /\ "NULL" \notin activate_states \cup capture_states
  /\ WaitLoop \cup Identifying \cup Arming \cup Powering \cup Hunting \cup
     {"ACTIVATE_READ_MCU_STATE", "ACTIVATE_CHECK_MCU_STATE", "ACTIVATE_WAKE_1",
      "ACTIVATE_WAKE_1_DELAY", "ACTIVATE_WAKE_2", "ACTIVATE_WAKE_2_DELAY",
      "ACTIVATE_REREAD_MCU_STATE", "ACTIVATE_RECHECK_MCU_STATE",
      "ACTIVATE_FW_STEP", "ACTIVATE_FW_NEXT"} = activate_states
  BY DEF activate_states, capture_states, WaitLoop, Identifying, Arming,
         Powering, Hunting, Activation!activate_states,
         Activation!RegisterReads, Activation!RegisterWrites,
         Activation!Delays, Capture!capture_states, Capture!CaptureReads,
         Capture!CaptureWrites, Capture!CaptureDelays

(* The reads that ask whether a finger is there. *)
LEMMA PresentReads ==
  \A r \in Reads :
    /\ r[2] = "FINGER_PRESENT" =>
         r[1] \in {"ACTIVATE_AUTO_POWER_PRESENT_READ", "CAP_READ_PRESENT",
                   "CAP_KEEPALIVE_VERIFY_PRESENT"}
    /\ r[1] = "ACTIVATE_AUTO_POWER_PRESENT_READ" => r[2] = "FINGER_PRESENT"
  BY DEF Reads, Activation!RegisterReads, Capture!CaptureReads

LEMMA SomePresentRead ==
  \E r \in Reads : r[1] = "ACTIVATE_AUTO_POWER_PRESENT_READ"
  <1>1. <<"ACTIVATE_AUTO_POWER_PRESENT_READ", "FINGER_PRESENT",
          "ACTIVATE_AUTO_POWER_HUNTING_READ">> \in Reads
    BY DEF Reads, Activation!RegisterReads
  <1> QED BY <1>1

(* What a step of a machine does to the sensor. *)
Special ==
  Handshakes \cup SearchWrites \cup
  {"ACTIVATE_ARM_WRITE_30", "ACTIVATE_FW_STEP",
   "ACTIVATE_AUTO_POWER_PRESENT_READ", "CAP_READ_PRESENT",
   "CAP_KEEPALIVE_VERIFY_PRESENT"}

LEMMA EffectCases ==
  ASSUME Effect
  PROVE  /\ task_ssm \in Handshakes => Sensor!Wakes
         /\ task_ssm \in SearchWrites => Sensor!StartsSearch
         /\ task_ssm = "ACTIVATE_ARM_WRITE_30" => Sensor!Arms
         /\ task_ssm = "ACTIVATE_FW_STEP" =>
              \/ Activation!op.request = "CODE_RAM_WRITE" /\ Sensor!TakesCode
              \/ Activation!op.request = "FIRMWARE_COMMIT" /\ Sensor!RunsCode
              \/ /\ Activation!op.request \notin {"CODE_RAM_WRITE", "FIRMWARE_COMMIT"}
                 /\ Sensor!Unmoved
         /\ task_ssm = "ACTIVATE_AUTO_POWER_PRESENT_READ" => Sensor!ReadsPresent
         /\ task_ssm \notin Special => Sensor!Unmoved
  <1>1. (\E r \in Reads : task_ssm = r[1] /\ r[2] = "FINGER_PRESENT")
          => task_ssm \in Special \ (Handshakes \cup SearchWrites \cup
                           {"ACTIVATE_ARM_WRITE_30", "ACTIVATE_FW_STEP"})
    BY PresentReads DEF Special, Handshakes, SearchWrites
  <1>2. task_ssm = "ACTIVATE_AUTO_POWER_PRESENT_READ"
          => \E r \in Reads : task_ssm = r[1] /\ r[2] = "FINGER_PRESENT"
    BY PresentReads, SomePresentRead
  <1> QED BY <1>1, <1>2 DEF Effect, Special, Handshakes, SearchWrites

(* No step of either machine makes the sensor search after a write that    *)
(* did not take.                                                           *)
LEMMA EffectKeepsMisses ==
  ASSUME Effect \/ Sensor!Unmoved,
         mode \in {"asleep", "idle", "primed", "hunting", "busy", "pressed"},
         mode \in {"primed", "hunting"} => misses = 0
  PROVE  /\ mode' \in {"asleep", "idle", "primed", "hunting", "busy", "pressed"}
         /\ mode' \in {"primed", "hunting"} => misses' = 0
  BY DEF Effect, Sensor!Unmoved, Sensor!sensor, Sensor!Wakes,
         Sensor!StartsSearch, Sensor!Arms, Sensor!TakesCode, Sensor!RunsCode,
         Sensor!ReadsPresent

(* The answers that the activation decides on. *)
LEMMA Answers ==
  /\ code # "whole" \/ mode = "asleep" =>
       \A r \in Register : Sensor!Answer(r) = <<0, 0>>
  /\ code = "whole" /\ Awake =>
       /\ Sensor!Answer("MCU_SENSOR_STATUS") = <<165, 90>>
       /\ Sensor!Answer("SENSOR_WIDTH") = <<96, 96>>
       /\ Sensor!Answer("SENSOR_HEIGHT") = <<96, 0>>
       /\ armed => Sensor!Answer("CAPTURE_READY") = <<187, 0>>
  /\ code = "whole" /\ mode \in {"hunting", "busy"} =>
       Sensor!Answer("MCU_SENSOR_STATUS") = <<1, 1>>
  <1>1. code # "whole" \/ mode = "asleep"
          => \A r \in Register : Sensor!Answer(r) = <<0, 0>>
    BY DEF Sensor!Answer, Sensor!Runs
  <1>2. ASSUME code = "whole", Awake
        PROVE  /\ Sensor!Answer("MCU_SENSOR_STATUS") = <<165, 90>>
               /\ Sensor!Answer("SENSOR_WIDTH") = <<96, 96>>
               /\ Sensor!Answer("SENSOR_HEIGHT") = <<96, 0>>
               /\ armed => Sensor!Answer("CAPTURE_READY") = <<187, 0>>
    BY <1>2 DEF Sensor!Answer, Sensor!Runs, Awake, Sensor!MCU_STATE_MAGIC_A5,
           Sensor!MCU_STATE_MAGIC_5A, Sensor!CAPTURE_READY_MAGIC
  <1>3. ASSUME code = "whole", mode \in {"hunting", "busy"}
        PROVE  Sensor!Answer("MCU_SENSOR_STATUS") = <<1, 1>>
    BY <1>3 DEF Sensor!Answer, Sensor!Runs, Sensor!MCU_STATE_BUSY
  <1> QED BY <1>1, <1>2, <1>3

LEMMA CommitFacts ==
  /\ commit \in 1..(Len(ft9201_firmware_script) - 1)
  /\ ft9201_firmware_script[commit].kind = "OUT"
  /\ ft9201_firmware_script[commit].request = "FIRMWARE_COMMIT"
  /\ \A i \in (commit + 1)..Len(ft9201_firmware_script) :
       ft9201_firmware_script[i].request # "CODE_RAM_WRITE"
  <1>1. /\ commit \in 1..Len(ft9201_firmware_script)
        /\ ft9201_firmware_script[commit].kind = "OUT"
        /\ ft9201_firmware_script[commit].request = "FIRMWARE_COMMIT"
        /\ \A i \in (commit + 1)..Len(ft9201_firmware_script) :
             ft9201_firmware_script[i].request # "CODE_RAM_WRITE"
    BY TableAssumption DEF commit
  <1>2. commit # Len(ft9201_firmware_script)
    BY <1>1, TableAssumption
  <1> QED BY <1>1, <1>2, TableAssumption

(* With the image on the disk, loading it does not fail. *)
LEMMA DownloadStarts ==
  ASSUME Activation!start_download
  PROVE  /\ fw_step' = 0 /\ task_ssm' = "ACTIVATE_FW_STEP"
         /\ UNCHANGED <<device, claimed, cancelled, open_error>>
  <1>1. \A file \in FirmwareFiles : Activation!load_firmware(file) # 0
    <2> TAKE file \in FirmwareFiles
    <2>1. Activation!UsableImage(file) /\ file # 0
      BY DiskAssumption DEF Activation!UsableImage, Activation!FW_MIN_SIZE
    <2> QED BY <2>1 DEF Activation!load_firmware
  <1> QED BY <1>1 DEF Activation!start_download, Activation!session

-----------------------------------------------------------------------------
(* The rows of the tables. *)
ReadRow(at, register, next) ==
  /\ at = "ACTIVATE_READ_MCU_STATE" =>
       register = "MCU_SENSOR_STATUS" /\ next = "ACTIVATE_CHECK_MCU_STATE"
  /\ at = "ACTIVATE_REREAD_MCU_STATE" =>
       register = "MCU_SENSOR_STATUS" /\ next = "ACTIVATE_RECHECK_MCU_STATE"
  /\ at = "ACTIVATE_WAIT_READY_READ" =>
       register = "MCU_SENSOR_STATUS" /\ next = "ACTIVATE_WAIT_READY_CHECK"
  /\ at = "ACTIVATE_READ_CHIP_ID_HIGH" =>
       register = "CHIP_ID_HIGH" /\ next = "ACTIVATE_STORE_CHIP_ID_HIGH"
  /\ at = "ACTIVATE_READ_CHIP_ID_LOW" =>
       register = "CHIP_ID_LOW" /\ next = "ACTIVATE_STORE_CHIP_ID_LOW"
  /\ at = "ACTIVATE_READ_DIM_WIDTH" =>
       register = "SENSOR_WIDTH" /\ next = "ACTIVATE_STORE_DIM_WIDTH"
  /\ at = "ACTIVATE_READ_DIM_HEIGHT" =>
       register = "SENSOR_HEIGHT" /\ next = "ACTIVATE_STORE_DIM_HEIGHT"
  /\ at = "ACTIVATE_READ_CAPTURE_READY" =>
       register = "CAPTURE_READY" /\ next = "ACTIVATE_CHECK_CAPTURE_READY"
  /\ at = "ACTIVATE_ARM_VERIFY_READ" =>
       register = "CAPTURE_READY" /\ next = "ACTIVATE_ARM_VERIFY_CHECK"
  /\ at = "ACTIVATE_AUTO_POWER_POLL_READ" =>
       register = "MCU_SENSOR_STATUS" /\ next = "ACTIVATE_AUTO_POWER_POLL_CHECK"
  /\ at = "ACTIVATE_AUTO_POWER_POLL_2_READ" =>
       register = "MCU_SENSOR_STATUS" /\ next = "ACTIVATE_AUTO_POWER_POLL_2_CHECK"
  /\ at = "ACTIVATE_AUTO_POWER_PRESENT_READ" =>
       register = "FINGER_PRESENT" /\ next = "ACTIVATE_AUTO_POWER_HUNTING_READ"
  /\ at = "ACTIVATE_AUTO_POWER_HUNTING_READ" =>
       register = "MCU_SENSOR_STATUS" /\ next = "ACTIVATE_AUTO_POWER_HUNTING_CHECK"

LEMMA RowOfRead == \A r \in Activation!RegisterReads : ReadRow(r[1], r[2], r[3])
  BY DEF Activation!RegisterReads, ReadRow

WriteRow(at, next) ==
  /\ at = "ACTIVATE_WAKE_1" => next = "ACTIVATE_WAKE_1_DELAY"
  /\ at = "ACTIVATE_WAKE_2" => next = "ACTIVATE_WAKE_2_DELAY"
  /\ at = "ACTIVATE_WAIT_READY_NUDGE_1" => next = "ACTIVATE_WAIT_READY_NUDGE_DELAY_1"
  /\ at = "ACTIVATE_WAIT_READY_NUDGE_2" => next = "ACTIVATE_WAIT_READY_NUDGE_DELAY_2"
  /\ at = "ACTIVATE_CONFIG_WRITE_22" => next = "ACTIVATE_CONFIG_WRITE_23"
  /\ at = "ACTIVATE_CONFIG_WRITE_23" => next = "ACTIVATE_READ_CAPTURE_READY"
  /\ at = "ACTIVATE_ARM_WRITE_01" => next = "ACTIVATE_ARM_WRITE_41"
  /\ at = "ACTIVATE_ARM_WRITE_41" => next = "ACTIVATE_ARM_WRITE_30"
  /\ at = "ACTIVATE_ARM_WRITE_30" => next = "ACTIVATE_ARM_VERIFY_READ"
  /\ at = "ACTIVATE_AUTO_POWER_SET_1" => next = "ACTIVATE_AUTO_POWER_SET_2"
  /\ at = "ACTIVATE_AUTO_POWER_SET_2" => next = "ACTIVATE_AUTO_POWER_DELAY"

LEMMA RowOfWrite == \A w \in Activation!RegisterWrites : WriteRow(w[1], w[2])
  BY DEF Activation!RegisterWrites, WriteRow

DelayRow(at, next) ==
  /\ at = "ACTIVATE_WAKE_1_DELAY" => next = "ACTIVATE_WAKE_2"
  /\ at = "ACTIVATE_WAKE_2_DELAY" => next = "ACTIVATE_REREAD_MCU_STATE"
  /\ at = "ACTIVATE_WAIT_READY_NUDGE_DELAY_1" => next = "ACTIVATE_WAIT_READY_NUDGE_2"
  /\ at = "ACTIVATE_WAIT_READY_NUDGE_DELAY_2" => next = "ACTIVATE_WAIT_READY_READ"
  /\ at = "ACTIVATE_AUTO_POWER_DELAY" => next = "ACTIVATE_AUTO_POWER_POLL_2_READ"

LEMMA RowOfDelay == \A d \in Activation!Delays : DelayRow(d[1], d[2])
  BY DEF Activation!Delays, DelayRow

LEMMA TableStates ==
  /\ \A r \in Activation!RegisterReads : r[2] \in Register /\ r[1] \in {
       "ACTIVATE_READ_MCU_STATE", "ACTIVATE_REREAD_MCU_STATE",
       "ACTIVATE_WAIT_READY_READ", "ACTIVATE_READ_CHIP_ID_HIGH",
       "ACTIVATE_READ_CHIP_ID_LOW", "ACTIVATE_READ_DIM_WIDTH",
       "ACTIVATE_READ_DIM_HEIGHT", "ACTIVATE_READ_CAPTURE_READY",
       "ACTIVATE_ARM_VERIFY_READ", "ACTIVATE_AUTO_POWER_POLL_READ",
       "ACTIVATE_AUTO_POWER_POLL_2_READ", "ACTIVATE_AUTO_POWER_PRESENT_READ",
       "ACTIVATE_AUTO_POWER_HUNTING_READ"}
  /\ \A w \in Activation!RegisterWrites : w[1] \in {
       "ACTIVATE_WAKE_1", "ACTIVATE_WAKE_2",
       "ACTIVATE_WAIT_READY_NUDGE_1", "ACTIVATE_WAIT_READY_NUDGE_2",
       "ACTIVATE_CONFIG_WRITE_22", "ACTIVATE_CONFIG_WRITE_23",
       "ACTIVATE_ARM_WRITE_01", "ACTIVATE_ARM_WRITE_41",
       "ACTIVATE_ARM_WRITE_30", "ACTIVATE_AUTO_POWER_SET_1",
       "ACTIVATE_AUTO_POWER_SET_2"}
  /\ \A d \in Activation!Delays : d[1] \in {
       "ACTIVATE_WAKE_1_DELAY", "ACTIVATE_WAKE_2_DELAY",
       "ACTIVATE_WAIT_READY_NUDGE_DELAY_1", "ACTIVATE_WAIT_READY_NUDGE_DELAY_2",
       "ACTIVATE_AUTO_POWER_DELAY"}
  BY DEF Activation!RegisterReads, Activation!RegisterWrites, Activation!Delays,
         Register

-----------------------------------------------------------------------------
LEMMA ReadKeepsSInv ==
  ASSUME SInv, Activation!ReadRegister, AnswersTruly, Effect
  PROVE  SInv'
  <1>1. PICK r \in Activation!RegisterReads :
          /\ task_ssm = r[1] /\ task_ssm' = r[3]
          /\ UNCHANGED <<open_error, sensor_width, fw_step, retry_count>>
    BY DEF Activation!ReadRegister, Activation!fpi_ssm_jump_to_state,
           Activation!session, Activation!identity, Activation!counters
  <1>0. ReadRow(task_ssm, r[2], task_ssm')
    BY <1>1, RowOfRead, Zenon
  <1>2. reg_buf' = Sensor!Answer(r[2]) /\ r[2] \in Register
    BY <1>1, TableStates DEF AnswersTruly, Reads
  <1>3. task_ssm # "ACTIVATE_AUTO_POWER_PRESENT_READ"
          => UNCHANGED <<code, mode, armed, misses>>
    BY <1>1, TableStates, EffectCases
    DEF Special, Handshakes, SearchWrites, Sensor!Unmoved, Sensor!sensor
  <1> USE StatesApart
      DEF SInv, StateInv, WakeInv, DownloadInv, WaitInv, AnswerInv, SearchInv,
          WaitLoop, Identifying, Arming, Powering, Hunting, Awake,
          is_mcu_alive, is_mcu_ready, is_mcu_busy, MCU_STATE_MAGIC_A5,
          MCU_STATE_MAGIC_5A, MCU_STATE_BUSY, CAPTURE_READY_MAGIC
  <1>4. CASE task_ssm = "ACTIVATE_READ_MCU_STATE"
    <2>1. task_ssm' = "ACTIVATE_CHECK_MCU_STATE" /\ r[2] = "MCU_SENSOR_STATUS"
      BY <1>4, <1>0 DEF ReadRow
    <2> QED BY <1>1, <1>2, <1>3, <1>4, <2>1, Answers
            DEF Register
  <1>5. CASE task_ssm = "ACTIVATE_REREAD_MCU_STATE"
    <2>1. /\ task_ssm' = "ACTIVATE_RECHECK_MCU_STATE"
          /\ r[2] = "MCU_SENSOR_STATUS"
      BY <1>5, <1>0 DEF ReadRow
    <2> QED BY <1>1, <1>2, <1>3, <1>5, <2>1, Answers
            DEF Register
  <1>6. CASE task_ssm = "ACTIVATE_WAIT_READY_READ"
    <2>1. task_ssm' = "ACTIVATE_WAIT_READY_CHECK" /\ r[2] = "MCU_SENSOR_STATUS"
      BY <1>6, <1>0 DEF ReadRow
    <2> QED BY <1>1, <1>2, <1>3, <1>6, <2>1, Answers
            DEF Register
  <1>7. CASE task_ssm = "ACTIVATE_READ_CHIP_ID_HIGH"
    <2>1. task_ssm' = "ACTIVATE_STORE_CHIP_ID_HIGH" /\ r[2] = "CHIP_ID_HIGH"
      BY <1>7, <1>0 DEF ReadRow
    <2> QED BY <1>1, <1>2, <1>3, <1>7, <2>1, Answers
            DEF Register
  <1>8. CASE task_ssm = "ACTIVATE_READ_CHIP_ID_LOW"
    <2>1. task_ssm' = "ACTIVATE_STORE_CHIP_ID_LOW" /\ r[2] = "CHIP_ID_LOW"
      BY <1>8, <1>0 DEF ReadRow
    <2> QED BY <1>1, <1>2, <1>3, <1>8, <2>1, Answers
            DEF Register
  <1>9. CASE task_ssm = "ACTIVATE_READ_DIM_WIDTH"
    <2>1. task_ssm' = "ACTIVATE_STORE_DIM_WIDTH" /\ r[2] = "SENSOR_WIDTH"
      BY <1>9, <1>0 DEF ReadRow
    <2> QED BY <1>1, <1>2, <1>3, <1>9, <2>1, Answers
            DEF Register
  <1>10. CASE task_ssm = "ACTIVATE_READ_DIM_HEIGHT"
    <2>1. task_ssm' = "ACTIVATE_STORE_DIM_HEIGHT" /\ r[2] = "SENSOR_HEIGHT"
      BY <1>10, <1>0 DEF ReadRow
    <2> QED BY <1>1, <1>2, <1>3, <1>10, <2>1, Answers
            DEF Register
  <1>11. CASE task_ssm = "ACTIVATE_READ_CAPTURE_READY"
    <2>1. task_ssm' = "ACTIVATE_CHECK_CAPTURE_READY" /\ r[2] = "CAPTURE_READY"
      BY <1>11, <1>0 DEF ReadRow
    <2> QED BY <1>1, <1>2, <1>3, <1>11, <2>1, Answers
            DEF Register
  <1>12. CASE task_ssm = "ACTIVATE_ARM_VERIFY_READ"
    <2>1. task_ssm' = "ACTIVATE_ARM_VERIFY_CHECK" /\ r[2] = "CAPTURE_READY"
      BY <1>12, <1>0 DEF ReadRow
    <2> QED BY <1>1, <1>2, <1>3, <1>12, <2>1, Answers
            DEF Register
  <1>13. CASE task_ssm = "ACTIVATE_AUTO_POWER_POLL_READ"
    <2>1. /\ task_ssm' = "ACTIVATE_AUTO_POWER_POLL_CHECK"
          /\ r[2] = "MCU_SENSOR_STATUS"
      BY <1>13, <1>0 DEF ReadRow
    <2> QED BY <1>1, <1>2, <1>3, <1>13, <2>1, Answers
            DEF Register
  <1>14. CASE task_ssm = "ACTIVATE_AUTO_POWER_POLL_2_READ"
    <2>1. /\ task_ssm' = "ACTIVATE_AUTO_POWER_POLL_2_CHECK"
          /\ r[2] = "MCU_SENSOR_STATUS"
      BY <1>14, <1>0 DEF ReadRow
    <2> QED BY <1>1, <1>2, <1>3, <1>14, <2>1, Answers
            DEF Register
  <1>15. CASE task_ssm = "ACTIVATE_AUTO_POWER_PRESENT_READ"
    <2>1. /\ task_ssm' = "ACTIVATE_AUTO_POWER_HUNTING_READ"
          /\ r[2] = "FINGER_PRESENT"
      BY <1>15, <1>0 DEF ReadRow
    <2> QED BY <1>1, <1>2, <1>3, <1>15, <2>1, Answers, EffectCases
            DEF Sensor!ReadsPresent
  <1>16. CASE task_ssm = "ACTIVATE_AUTO_POWER_HUNTING_READ"
    <2>1. /\ task_ssm' = "ACTIVATE_AUTO_POWER_HUNTING_CHECK"
          /\ r[2] = "MCU_SENSOR_STATUS"
      BY <1>16, <1>0 DEF ReadRow
    <2> QED BY <1>1, <1>2, <1>3, <1>16, <2>1, Answers
            DEF Register
  <1> QED BY <1>1, TableStates, <1>4, <1>5, <1>6, <1>7, <1>8, <1>9, <1>10, <1>11, <1>12, <1>13, <1>14, <1>15, <1>16

LEMMA WriteKeepsSInv ==
  ASSUME SInv, Activation!WriteRegister, Effect
  PROVE  SInv'
  <1>1. PICK w \in Activation!RegisterWrites :
          /\ task_ssm = w[1] /\ task_ssm' = w[2]
          /\ UNCHANGED <<reg_buf, open_error, sensor_width, fw_step, retry_count>>
    BY DEF Activation!WriteRegister, Activation!fpi_ssm_jump_to_state,
           Activation!session, Activation!identity, Activation!counters
  <1>0. WriteRow(task_ssm, task_ssm')
    BY <1>1, RowOfWrite, Zenon
  <1>2. task_ssm \notin {"ACTIVATE_WAKE_2", "ACTIVATE_WAIT_READY_NUDGE_2",
                        "ACTIVATE_ARM_WRITE_30", "ACTIVATE_AUTO_POWER_SET_2"}
          => UNCHANGED <<code, mode, armed, misses>>
    BY <1>1, TableStates, EffectCases
    DEF Special, Handshakes, SearchWrites, Sensor!Unmoved, Sensor!sensor
  <1> USE StatesApart
      DEF SInv, StateInv, WakeInv, DownloadInv, WaitInv, AnswerInv, SearchInv,
          WaitLoop, Identifying, Arming, Powering, Hunting, Awake,
          is_mcu_alive, is_mcu_ready, is_mcu_busy, MCU_STATE_MAGIC_A5,
          MCU_STATE_MAGIC_5A, MCU_STATE_BUSY, CAPTURE_READY_MAGIC
  <1>3. CASE task_ssm = "ACTIVATE_WAKE_1"
    <2>1. task_ssm' = "ACTIVATE_WAKE_1_DELAY"
      BY <1>3, <1>0 DEF WriteRow
    <2> QED BY <1>1, <1>2, <1>3, <2>1
  <1>4. CASE task_ssm = "ACTIVATE_WAKE_2"
    <2>1. task_ssm' = "ACTIVATE_WAKE_2_DELAY"
      BY <1>4, <1>0 DEF WriteRow
    <2> QED BY <1>1, <1>2, <1>4, <2>1, EffectCases
            DEF Handshakes, Sensor!Wakes
  <1>5. CASE task_ssm = "ACTIVATE_WAIT_READY_NUDGE_1"
    <2>1. task_ssm' = "ACTIVATE_WAIT_READY_NUDGE_DELAY_1"
      BY <1>5, <1>0 DEF WriteRow
    <2> QED BY <1>1, <1>2, <1>5, <2>1
  <1>6. CASE task_ssm = "ACTIVATE_WAIT_READY_NUDGE_2"
    <2>1. task_ssm' = "ACTIVATE_WAIT_READY_NUDGE_DELAY_2"
      BY <1>6, <1>0 DEF WriteRow
    <2> QED BY <1>1, <1>2, <1>6, <2>1, EffectCases
            DEF Handshakes, Sensor!Wakes
  <1>7. CASE task_ssm = "ACTIVATE_CONFIG_WRITE_22"
    <2>1. task_ssm' = "ACTIVATE_CONFIG_WRITE_23"
      BY <1>7, <1>0 DEF WriteRow
    <2> QED BY <1>1, <1>2, <1>7, <2>1
  <1>8. CASE task_ssm = "ACTIVATE_CONFIG_WRITE_23"
    <2>1. task_ssm' = "ACTIVATE_READ_CAPTURE_READY"
      BY <1>8, <1>0 DEF WriteRow
    <2> QED BY <1>1, <1>2, <1>8, <2>1
  <1>9. CASE task_ssm = "ACTIVATE_ARM_WRITE_01"
    <2>1. task_ssm' = "ACTIVATE_ARM_WRITE_41"
      BY <1>9, <1>0 DEF WriteRow
    <2> QED BY <1>1, <1>2, <1>9, <2>1
  <1>10. CASE task_ssm = "ACTIVATE_ARM_WRITE_41"
    <2>1. task_ssm' = "ACTIVATE_ARM_WRITE_30"
      BY <1>10, <1>0 DEF WriteRow
    <2> QED BY <1>1, <1>2, <1>10, <2>1
  <1>11. CASE task_ssm = "ACTIVATE_ARM_WRITE_30"
    <2>1. task_ssm' = "ACTIVATE_ARM_VERIFY_READ"
      BY <1>11, <1>0 DEF WriteRow
    <2>2. code = "whole" /\ Awake
      BY <1>11
    <2>3. armed' /\ UNCHANGED <<code, mode, misses>>
      BY <1>11, <2>2, EffectCases DEF Sensor!Arms, Sensor!Runs
    <2> QED BY <1>1, <1>11, <2>1, <2>2, <2>3
  <1>12. CASE task_ssm = "ACTIVATE_AUTO_POWER_SET_1"
    <2>1. task_ssm' = "ACTIVATE_AUTO_POWER_SET_2"
      BY <1>12, <1>0 DEF WriteRow
    <2> QED BY <1>1, <1>2, <1>12, <2>1
  <1>13. CASE task_ssm = "ACTIVATE_AUTO_POWER_SET_2"
    <2>1. task_ssm' = "ACTIVATE_AUTO_POWER_DELAY"
      BY <1>13, <1>0 DEF WriteRow
    <2>2. code = "whole" /\ Awake
      BY <1>13
    <2>3. Sensor!StartsSearch
      BY <1>13, EffectCases, Zenon DEF SearchWrites
    <2>4. /\ UNCHANGED <<code, armed>> /\ mode' \in {"primed", "idle"}
          /\ mode' = "primed" => misses' = 0
      BY <2>2, <2>3 DEF Sensor!StartsSearch, Sensor!Runs
    <2> QED BY <1>1, <1>13, <2>1, <2>2, <2>4
  <1> QED BY <1>1, TableStates, <1>3, <1>4, <1>5, <1>6, <1>7, <1>8, <1>9, <1>10, <1>11, <1>12, <1>13

LEMMA DelayKeepsSInv ==
  ASSUME SInv, Activation!DelayElapsed, Effect
  PROVE  SInv'
  <1>1. PICK d \in Activation!Delays :
          /\ task_ssm = d[1] /\ task_ssm' = d[2]
          /\ UNCHANGED <<reg_buf, open_error, sensor_width, fw_step, retry_count>>
    BY DEF Activation!DelayElapsed, Activation!fpi_ssm_jump_to_state,
           Activation!session, Activation!identity, Activation!counters
  <1>0. DelayRow(task_ssm, task_ssm')
    BY <1>1, RowOfDelay, Zenon
  <1>2. UNCHANGED <<code, mode, armed, misses>>
    BY <1>1, TableStates, EffectCases
    DEF Special, Handshakes, SearchWrites, Sensor!Unmoved, Sensor!sensor
  <1> USE StatesApart
      DEF SInv, StateInv, WakeInv, DownloadInv, WaitInv, AnswerInv, SearchInv,
          WaitLoop, Identifying, Arming, Powering, Hunting, Awake,
          is_mcu_alive, is_mcu_ready, is_mcu_busy, MCU_STATE_MAGIC_A5,
          MCU_STATE_MAGIC_5A, MCU_STATE_BUSY, CAPTURE_READY_MAGIC
  <1>3. CASE task_ssm = "ACTIVATE_WAKE_1_DELAY"
    <2>1. task_ssm' = "ACTIVATE_WAKE_2"
      BY <1>3, <1>0 DEF DelayRow
    <2> QED BY <1>1, <1>2, <1>3, <2>1
  <1>4. CASE task_ssm = "ACTIVATE_WAKE_2_DELAY"
    <2>1. task_ssm' = "ACTIVATE_REREAD_MCU_STATE"
      BY <1>4, <1>0 DEF DelayRow
    <2> QED BY <1>1, <1>2, <1>4, <2>1
  <1>5. CASE task_ssm = "ACTIVATE_WAIT_READY_NUDGE_DELAY_1"
    <2>1. task_ssm' = "ACTIVATE_WAIT_READY_NUDGE_2"
      BY <1>5, <1>0 DEF DelayRow
    <2> QED BY <1>1, <1>2, <1>5, <2>1
  <1>6. CASE task_ssm = "ACTIVATE_WAIT_READY_NUDGE_DELAY_2"
    <2>1. task_ssm' = "ACTIVATE_WAIT_READY_READ"
      BY <1>6, <1>0 DEF DelayRow
    <2> QED BY <1>1, <1>2, <1>6, <2>1
  <1>7. CASE task_ssm = "ACTIVATE_AUTO_POWER_DELAY"
    <2>1. task_ssm' = "ACTIVATE_AUTO_POWER_POLL_2_READ"
      BY <1>7, <1>0 DEF DelayRow
    <2> QED BY <1>1, <1>2, <1>7, <2>1
  <1> QED BY <1>1, TableStates, <1>3, <1>4, <1>5, <1>6, <1>7

-----------------------------------------------------------------------------
(* The decisions: none of them fails, because the sensor answered.         *)
Unseen == UNCHANGED <<code, mode, armed, misses>>

LEMMA DecisionsAreUnseen ==
  ASSUME task_ssm \in activate_states \ Special, Effect
  PROVE  Unseen
  BY EffectCases DEF Unseen, Sensor!Unmoved, Sensor!sensor

LEMMA ChecksKeepSInv ==
  ASSUME SInv, Effect,
         \/ Activation!CheckMcuState \/ Activation!RecheckMcuState
         \/ Activation!CheckCaptureReady \/ Activation!ArmVerifyCheck
  PROVE  SInv'
  <1>1. Unseen
    <2>1. task_ssm \in {"ACTIVATE_CHECK_MCU_STATE", "ACTIVATE_RECHECK_MCU_STATE",
                       "ACTIVATE_CHECK_CAPTURE_READY", "ACTIVATE_ARM_VERIFY_CHECK"}
      BY DEF Activation!CheckMcuState, Activation!RecheckMcuState,
             Activation!CheckCaptureReady, Activation!ArmVerifyCheck
    <2> QED BY <2>1, StatesApart, DecisionsAreUnseen
            DEF Special, Handshakes, SearchWrites, Identifying, Arming
  <1> USE StatesApart
      DEF SInv, StateInv, WakeInv, DownloadInv, WaitInv, AnswerInv, SearchInv,
          WaitLoop, Identifying, Arming, Powering, Hunting, Awake,
          is_mcu_alive, is_mcu_ready, is_mcu_busy, MCU_STATE_MAGIC_A5,
          MCU_STATE_MAGIC_5A, MCU_STATE_BUSY, CAPTURE_READY_MAGIC
  <1> USE <1>1
      DEF Unseen, Activation!session, Activation!identity, Activation!counters,
          Activation!fpi_ssm_jump_to_state
  <1>2. CASE Activation!CheckMcuState
    <2>1. CASE is_mcu_alive(reg_buf)
      <3>1. /\ task_ssm' = "ACTIVATE_WAIT_READY_READ" /\ code = "whole"
            /\ UNCHANGED <<reg_buf, open_error, sensor_width, retry_count>>
            /\ retry_count = 0
        BY <1>2, <2>1
        DEF Activation!CheckMcuState, Activation!is_mcu_alive,
            Activation!is_mcu_ready, Activation!MCU_STATE_MAGIC_A5,
            Activation!MCU_STATE_MAGIC_5A, Activation!MCU_STATE_BUSY
      <3> QED BY <3>1
    <2>2. CASE ~is_mcu_alive(reg_buf)
      <3>1. /\ task_ssm' = "ACTIVATE_WAKE_1" /\ retry_count = 0
            /\ UNCHANGED <<reg_buf, open_error, sensor_width, retry_count>>
        BY <1>2, <2>2
        DEF Activation!CheckMcuState, Activation!is_mcu_alive,
            Activation!is_mcu_ready, Activation!MCU_STATE_MAGIC_A5,
            Activation!MCU_STATE_MAGIC_5A, Activation!MCU_STATE_BUSY
      <3> QED BY <3>1
    <2> QED BY <2>1, <2>2
  <1>3. CASE Activation!RecheckMcuState
    <2>1. CASE is_mcu_alive(reg_buf)
      <3>1. /\ task_ssm' = "ACTIVATE_WAIT_READY_READ" /\ code = "whole"
            /\ UNCHANGED <<reg_buf, open_error, sensor_width, retry_count>>
            /\ retry_count = 0
        BY <1>3, <2>1
        DEF Activation!RecheckMcuState, Activation!is_mcu_alive,
            Activation!is_mcu_ready, Activation!MCU_STATE_MAGIC_A5,
            Activation!MCU_STATE_MAGIC_5A, Activation!MCU_STATE_BUSY
      <3> QED BY <3>1
    <2>2. CASE ~is_mcu_alive(reg_buf)
      <3>1. /\ Activation!start_download /\ retry_count = 0
            /\ UNCHANGED <<reg_buf, sensor_width, retry_count>>
        BY <1>3, <2>2
        DEF Activation!RecheckMcuState, Activation!is_mcu_alive,
            Activation!is_mcu_ready, Activation!MCU_STATE_MAGIC_A5,
            Activation!MCU_STATE_MAGIC_5A, Activation!MCU_STATE_BUSY
      <3>2. /\ task_ssm' = "ACTIVATE_FW_STEP" /\ fw_step' = 0
            /\ UNCHANGED open_error
        BY <3>1, DownloadStarts
      <3>3. fw_step' \in 0..(Len(ft9201_firmware_script) - 1) /\ ~(fw_step' >= commit)
        BY <3>2, CommitFacts, TableAssumption
      <3> QED BY <3>1, <3>2, <3>3
    <2> QED BY <2>1, <2>2
  <1>4. CASE Activation!CheckCaptureReady
    <2>1. /\ task_ssm' = "ACTIVATE_ARM_WRITE_01" /\ code = "whole" /\ Awake
          /\ UNCHANGED <<reg_buf, open_error, sensor_width, retry_count>>
          /\ retry_count = 0
      BY <1>4 DEF Activation!CheckCaptureReady
    <2> QED BY <2>1
  <1>5. CASE Activation!ArmVerifyCheck
    <2>1. reg_buf[1] = Activation!CAPTURE_READY_MAGIC
      BY <1>5 DEF Activation!ArmVerifyCheck, Activation!CAPTURE_READY_MAGIC
    <2>2. /\ task_ssm' = "ACTIVATE_AUTO_POWER_POLL_READ" /\ code = "whole"
          /\ Awake /\ armed /\ retry_count = 0
          /\ UNCHANGED <<reg_buf, open_error, sensor_width, retry_count>>
      BY <1>5, <2>1 DEF Activation!ArmVerifyCheck
    <2> QED BY <2>2
  <1> QED BY <1>2, <1>3, <1>4, <1>5

LEMMA PollsKeepSInv ==
  ASSUME SInv, Effect,
         \/ Activation!WaitReadyCheck \/ Activation!AutoPowerPollCheck
         \/ Activation!AutoPowerPoll2Check
  PROVE  SInv'
  <1>1. Unseen
    <2>1. task_ssm \in {"ACTIVATE_WAIT_READY_CHECK", "ACTIVATE_AUTO_POWER_POLL_CHECK",
                       "ACTIVATE_AUTO_POWER_POLL_2_CHECK"}
      BY DEF Activation!WaitReadyCheck, Activation!AutoPowerPollCheck,
             Activation!AutoPowerPoll2Check, Activation!PollCheck
    <2> QED BY <2>1, StatesApart, DecisionsAreUnseen
            DEF Special, Handshakes, SearchWrites, WaitLoop, Powering
  <1>2. Activation!is_mcu_ready(reg_buf) <=> is_mcu_ready(reg_buf)
    BY DEF is_mcu_ready, Activation!is_mcu_ready, MCU_STATE_MAGIC_A5,
           MCU_STATE_MAGIC_5A, Activation!MCU_STATE_MAGIC_A5,
           Activation!MCU_STATE_MAGIC_5A
  <1> USE StatesApart
      DEF SInv, StateInv, WakeInv, DownloadInv, WaitInv, AnswerInv, SearchInv,
          WaitLoop, Identifying, Arming, Powering, Hunting, Awake,
          is_mcu_alive, is_mcu_ready, is_mcu_busy, MCU_STATE_MAGIC_A5,
          MCU_STATE_MAGIC_5A, MCU_STATE_BUSY, CAPTURE_READY_MAGIC
  <1> USE <1>1
      DEF Unseen, Activation!session, Activation!identity,
          Activation!fpi_ssm_jump_to_state
  <1>3. CASE Activation!WaitReadyCheck
    <2>1. CASE is_mcu_ready(reg_buf)
      <3>1. /\ task_ssm' = "ACTIVATE_READ_CHIP_ID_HIGH" /\ retry_count' = 0
            /\ UNCHANGED <<reg_buf, open_error, sensor_width>>
            /\ code = "whole" /\ Awake
        BY <1>2, <1>3, <2>1 DEF Activation!WaitReadyCheck, Activation!PollCheck
      <3> QED BY <3>1
    <2>2. CASE ~is_mcu_ready(reg_buf)
      <3>1. retry_count = 0 /\ code = "whole"
        BY <1>3, <2>2 DEF Activation!WaitReadyCheck, Activation!PollCheck
      <3>2. /\ task_ssm' = "ACTIVATE_WAIT_READY_NUDGE_1"
            /\ retry_count' = 1
            /\ UNCHANGED <<reg_buf, open_error, sensor_width>>
        BY <1>2, <1>3, <2>2, <3>1, PollsAssumption
        DEF Activation!WaitReadyCheck, Activation!PollCheck
      <3> QED BY <3>1, <3>2
    <2> QED BY <2>1, <2>2
  <1>4. CASE Activation!AutoPowerPollCheck
    <2>1. is_mcu_ready(reg_buf) /\ code = "whole" /\ Awake /\ armed
      BY <1>4 DEF Activation!AutoPowerPollCheck, Activation!PollCheck
    <2>2. /\ task_ssm' = "ACTIVATE_AUTO_POWER_SET_1" /\ retry_count' = 0
          /\ UNCHANGED <<reg_buf, open_error, sensor_width>>
      BY <1>2, <1>4, <2>1 DEF Activation!AutoPowerPollCheck, Activation!PollCheck
    <2> QED BY <2>1, <2>2
  <1>5. CASE Activation!AutoPowerPoll2Check
    <2>1. is_mcu_ready(reg_buf) /\ code = "whole" /\ Awake /\ armed
      BY <1>5 DEF Activation!AutoPowerPoll2Check, Activation!PollCheck
    <2>2. /\ task_ssm' = "ACTIVATE_AUTO_POWER_PRESENT_READ" /\ retry_count' = 0
          /\ UNCHANGED <<reg_buf, open_error, sensor_width>>
      BY <1>2, <1>5, <2>1 DEF Activation!AutoPowerPoll2Check, Activation!PollCheck
    <2> QED BY <2>1, <2>2
  <1> QED BY <1>3, <1>4, <1>5

LEMMA StoresKeepSInv ==
  ASSUME SInv, Effect,
         \/ Activation!StoreChipIdHigh \/ Activation!StoreChipIdLow
         \/ Activation!StoreDimWidth \/ Activation!StoreDimHeight
  PROVE  SInv'
  <1>1. task_ssm \in {"ACTIVATE_STORE_CHIP_ID_HIGH", "ACTIVATE_STORE_CHIP_ID_LOW",
                     "ACTIVATE_STORE_DIM_WIDTH", "ACTIVATE_STORE_DIM_HEIGHT"}
    BY DEF Activation!StoreChipIdHigh, Activation!StoreChipIdLow,
           Activation!StoreDimWidth, Activation!StoreDimHeight
  <1>2. Unseen
    BY <1>1, StatesApart, DecisionsAreUnseen
    DEF Special, Handshakes, SearchWrites, Identifying
  <1>3. code = "whole" /\ Awake /\ retry_count = 0
    BY <1>1, StatesApart DEF SInv, AnswerInv, WaitInv, Identifying, WaitLoop
  <1>4. /\ \/ task_ssm' \in {"ACTIVATE_READ_CHIP_ID_LOW", "ACTIVATE_READ_DIM_WIDTH",
                             "ACTIVATE_CONFIG_WRITE_22"}
           \/ task_ssm' = "ACTIVATE_READ_DIM_HEIGHT" /\ sensor_width' # 0
        /\ UNCHANGED <<open_error, retry_count>>
    <2> USE DEF Activation!fpi_ssm_jump_to_state, Activation!session,
                Activation!counters
    <2>1. CASE Activation!StoreChipIdHigh \/ Activation!StoreChipIdLow
      BY <2>1 DEF Activation!StoreChipIdHigh, Activation!StoreChipIdLow
    <2>2. CASE Activation!StoreDimWidth
      BY <2>2 DEF Activation!StoreDimWidth, SInv, AnswerInv
    <2>3. CASE Activation!StoreDimHeight
      BY <2>3 DEF Activation!StoreDimHeight, SInv, AnswerInv
    <2> QED BY <2>1, <2>2, <2>3
  <1> USE StatesApart
      DEF SInv, StateInv, WakeInv, DownloadInv, WaitInv, AnswerInv, SearchInv,
          WaitLoop, Identifying, Arming, Powering, Hunting, Awake,
          is_mcu_alive, is_mcu_ready, is_mcu_busy, MCU_STATE_MAGIC_A5,
          MCU_STATE_MAGIC_5A, MCU_STATE_BUSY, CAPTURE_READY_MAGIC
  <1> QED BY <1>2, <1>3, <1>4 DEF Unseen

(* A machine that has ended, and the machine of an action, ask nothing of  *)
(* the sensor but what every step keeps.                                   *)
LEMMA OutsideKeepsSInv ==
  ASSUME SInv, task_ssm' \in capture_states \cup {"NULL"},
         open_error' \in {"none", "CLAIM", "TRANSFER"},
         mode' \in {"asleep", "idle", "primed", "hunting", "busy", "pressed"},
         mode' \in {"primed", "hunting"} => misses' = 0
  PROVE  SInv'
  <1> USE StatesApart
      DEF SInv, StateInv, WakeInv, DownloadInv, WaitInv, AnswerInv, SearchInv,
          WaitLoop, Identifying, Arming, Powering, Hunting, Awake,
          is_mcu_alive, is_mcu_ready, is_mcu_busy, MCU_STATE_MAGIC_A5,
          MCU_STATE_MAGIC_5A, MCU_STATE_BUSY, CAPTURE_READY_MAGIC
  <1> QED OBVIOUS

LEMMA HuntingKeepsSInv ==
  ASSUME SInv, Effect,
         \/ Activation!HuntingBusy \/ Activation!HuntingRearm
         \/ Activation!HuntingReload \/ Activation!HuntingGiveUp
  PROVE  SInv'
  <1>1. task_ssm = "ACTIVATE_AUTO_POWER_HUNTING_CHECK"
    BY DEF Activation!HuntingBusy, Activation!HuntingRearm,
           Activation!HuntingReload, Activation!HuntingGiveUp
  <1>2. Unseen
    BY <1>1, StatesApart, DecisionsAreUnseen
    DEF Special, Handshakes, SearchWrites, Hunting
  <1>3. /\ code = "whole" /\ armed /\ retry_count = 0
        /\ Awake \/ mode = "hunting"
        /\ is_mcu_busy(reg_buf) <=> mode = "hunting"
        /\ mode \in {"primed", "hunting"} => misses = 0
        /\ mode \in {"asleep", "idle", "primed", "hunting", "busy", "pressed"}
        /\ open_error \in {"none", "CLAIM", "TRANSFER"}
    BY <1>1, StatesApart
    DEF SInv, StateInv, AnswerInv, WaitInv, SearchInv, Hunting, WaitLoop
  <1>4. Activation!is_mcu_busy(reg_buf) <=> is_mcu_busy(reg_buf)
    BY DEF is_mcu_busy, Activation!is_mcu_busy, MCU_STATE_BUSY,
           Activation!MCU_STATE_BUSY
  <1>5. CASE Activation!HuntingBusy \/ Activation!HuntingGiveUp
    <2>1. task_ssm' = "NULL" /\ open_error' = open_error
      BY <1>5 DEF Activation!HuntingBusy, Activation!HuntingGiveUp,
                  Activation!activate_ssm_completed
    <2> QED BY <1>2, <1>3, <2>1, OutsideKeepsSInv DEF Unseen
  <1>6. CASE Activation!HuntingRearm
    <2>1. /\ task_ssm' = "ACTIVATE_AUTO_POWER_SET_1"
          /\ UNCHANGED <<reg_buf, open_error, retry_count>>
          /\ Awake
      BY <1>3, <1>4, <1>6
      DEF Activation!HuntingRearm, Activation!fpi_ssm_jump_to_state,
          Activation!session
    <2> USE StatesApart
      DEF SInv, StateInv, WakeInv, DownloadInv, WaitInv, AnswerInv, SearchInv,
          WaitLoop, Identifying, Arming, Powering, Hunting, Awake,
          is_mcu_alive, is_mcu_ready, is_mcu_busy, MCU_STATE_MAGIC_A5,
          MCU_STATE_MAGIC_5A, MCU_STATE_BUSY, CAPTURE_READY_MAGIC
    <2> QED BY <1>2, <1>3, <2>1 DEF Unseen
  <1>7. CASE Activation!HuntingReload
    <2>1. Activation!start_download /\ UNCHANGED retry_count
      BY <1>7 DEF Activation!HuntingReload
    <2>2. task_ssm' = "ACTIVATE_FW_STEP" /\ fw_step' = 0 /\ UNCHANGED open_error
      BY <2>1, DownloadStarts
    <2>3. fw_step' \in 0..(Len(ft9201_firmware_script) - 1) /\ ~(fw_step' >= commit)
      BY <2>2, CommitFacts, TableAssumption
    <2> USE StatesApart
      DEF SInv, StateInv, WakeInv, DownloadInv, WaitInv, AnswerInv, SearchInv,
          WaitLoop, Identifying, Arming, Powering, Hunting, Awake,
          is_mcu_alive, is_mcu_ready, is_mcu_busy, MCU_STATE_MAGIC_A5,
          MCU_STATE_MAGIC_5A, MCU_STATE_BUSY, CAPTURE_READY_MAGIC
    <2> QED BY <1>2, <1>3, <2>1, <2>2, <2>3 DEF Unseen
  <1> QED BY <1>5, <1>6, <1>7

-----------------------------------------------------------------------------
(* The download.  A step of it is the entry fw_step + 1; none behind the   *)
(* entry commit writes the code RAM.                                       *)
LEMMA FwStepKeepsSInv ==
  ASSUME SInv, Effect,
         \/ Activation!FwStepEnd \/ Activation!FwStepRead
         \/ Activation!FwStepSend \/ Activation!FwStepDelay
  PROVE  SInv'
  <1>1. /\ task_ssm = "ACTIVATE_FW_STEP"
        /\ fw_step' = fw_step /\ open_error' = open_error
        /\ retry_count' = retry_count
        /\ \/ Activation!op.kind = "END" /\ task_ssm' = "ACTIVATE_WAIT_READY_READ"
           \/ Activation!op.kind # "END" /\ task_ssm' = "ACTIVATE_FW_NEXT"
    BY DEF Activation!FwStepEnd, Activation!FwStepRead, Activation!FwStepSend,
           Activation!FwStepDelay, Activation!fpi_ssm_jump_to_state,
           Activation!session, Activation!counters
  <1>2. /\ fw_step \in 0..(Len(ft9201_firmware_script) - 1)
        /\ fw_step >= commit => code = "whole"
        /\ retry_count = 0
        /\ mode \in {"asleep", "idle", "primed", "hunting", "busy", "pressed"}
        /\ mode \in {"primed", "hunting"} => misses = 0
        /\ open_error \in {"none", "CLAIM", "TRANSFER"}
    BY <1>1, StatesApart DEF SInv, StateInv, DownloadInv, WaitInv, SearchInv, WaitLoop
  <1>3. /\ mode' \in {"asleep", "idle", "primed", "hunting", "busy", "pressed"}
        /\ mode' \in {"primed", "hunting"} => misses' = 0
    BY <1>2, EffectKeepsMisses
  <1>4. Activation!op = ft9201_firmware_script[fw_step + 1]
    BY DEF Activation!op
  <1>5. /\ Activation!op.request = "FIRMWARE_COMMIT" => code' = "whole"
        /\ Activation!op.request # "CODE_RAM_WRITE" /\ code = "whole" => code' = "whole"
    BY <1>1, EffectCases DEF Sensor!TakesCode, Sensor!RunsCode, Sensor!Unmoved, Sensor!sensor
  <1>6. CASE Activation!op.kind = "END"
    <2>1. fw_step + 1 = Len(ft9201_firmware_script)
      BY <1>2, <1>4, <1>6, TableAssumption
    <2>2. fw_step >= commit /\ Activation!op.request # "CODE_RAM_WRITE"
      BY <1>2, <1>4, <2>1, CommitFacts, TableAssumption
    <2>3. code' = "whole"
      BY <1>2, <1>5, <2>2
    <2> USE StatesApart
      DEF SInv, StateInv, WakeInv, DownloadInv, WaitInv, AnswerInv, SearchInv,
          WaitLoop, Identifying, Arming, Powering, Hunting, Awake,
          is_mcu_alive, is_mcu_ready, is_mcu_busy, MCU_STATE_MAGIC_A5,
          MCU_STATE_MAGIC_5A, MCU_STATE_BUSY, CAPTURE_READY_MAGIC
    <2> QED BY <1>1, <1>2, <1>3, <1>6, <2>3
  <1>7. CASE Activation!op.kind # "END"
    <2>1. fw_step + 1 # Len(ft9201_firmware_script)
      BY <1>2, <1>4, <1>7, TableAssumption
    <2>2. fw_step' \in 0..(Len(ft9201_firmware_script) - 2)
      BY <1>1, <1>2, <2>1, TableAssumption
    <2>3. ASSUME fw_step + 1 >= commit
          PROVE  code' = "whole"
      <3>1. CASE fw_step + 1 = commit
        BY <1>4, <1>5, <3>1, CommitFacts
      <3>2. CASE fw_step + 1 # commit
        <4>1. fw_step >= commit /\ fw_step + 1 \in (commit + 1)..Len(ft9201_firmware_script)
          BY <1>2, <2>3, <3>2, CommitFacts, TableAssumption
        <4> QED BY <1>2, <1>4, <1>5, <4>1, CommitFacts
      <3> QED BY <3>1, <3>2
    <2>4. fw_step' + 1 >= commit => code' = "whole"
      BY <1>1, <2>3
    <2> USE StatesApart
      DEF SInv, StateInv, WakeInv, DownloadInv, WaitInv, AnswerInv, SearchInv,
          WaitLoop, Identifying, Arming, Powering, Hunting, Awake,
          is_mcu_alive, is_mcu_ready, is_mcu_busy, MCU_STATE_MAGIC_A5,
          MCU_STATE_MAGIC_5A, MCU_STATE_BUSY, CAPTURE_READY_MAGIC
    <2> QED BY <1>1, <1>2, <1>3, <1>7, <2>2, <2>4
  <1> QED BY <1>6, <1>7

LEMMA FwNextKeepsSInv ==
  ASSUME SInv, Effect, Activation!FwNext
  PROVE  SInv'
  <1>1. /\ task_ssm = "ACTIVATE_FW_NEXT" /\ task_ssm' = "ACTIVATE_FW_STEP"
        /\ fw_step' = fw_step + 1
        /\ UNCHANGED <<open_error, retry_count>>
    BY DEF Activation!FwNext, Activation!fpi_ssm_jump_to_state,
           Activation!session, Activation!counters
  <1>2. Unseen
    BY <1>1, StatesApart, DecisionsAreUnseen DEF Special, Handshakes, SearchWrites
  <1>3. /\ fw_step' \in 0..(Len(ft9201_firmware_script) - 1)
        /\ fw_step' >= commit => code' = "whole"
        /\ retry_count = 0
    BY <1>1, <1>2, StatesApart, TableAssumption
    DEF SInv, DownloadInv, WaitInv, WaitLoop, Unseen
  <1> USE StatesApart
      DEF SInv, StateInv, WakeInv, DownloadInv, WaitInv, AnswerInv, SearchInv,
          WaitLoop, Identifying, Arming, Powering, Hunting, Awake,
          is_mcu_alive, is_mcu_ready, is_mcu_busy, MCU_STATE_MAGIC_A5,
          MCU_STATE_MAGIC_5A, MCU_STATE_BUSY, CAPTURE_READY_MAGIC
  <1> QED BY <1>1, <1>2, <1>3 DEF Unseen

-----------------------------------------------------------------------------
LEMMA OpenKeepsSInv ==
  ASSUME SInv, OpenWithSensor, ~Fails
  PROVE  SInv'
  <1>1. /\ Activation!activate_run_state /\ UNCHANGED capture_only
        /\ AnswersTruly /\ Effect
    BY DEF OpenWithSensor, OpenStep
  <1>2. ~Activation!TransferFails
    BY <1>1 DEF Fails
  <1> QED BY <1>1, <1>2, ReadKeepsSInv, WriteKeepsSInv, DelayKeepsSInv,
            ChecksKeepSInv, PollsKeepSInv, StoresKeepSInv, HuntingKeepsSInv,
            FwStepKeepsSInv, FwNextKeepsSInv
         DEF Activation!activate_run_state

LEMMA ActionMoves ==
  ASSUME Capture!capture_run_state
  PROVE  task_ssm' \in capture_states \cup {"NULL"}
  <1> USE DEF capture_states, Capture!capture_states, Capture!CaptureReads,
          Capture!CaptureWrites, Capture!CaptureDelays,
          Capture!fpi_ssm_jump_to_state, Capture!reset_task,
          Capture!capture_ssm_failed, Capture!capture_ssm_completed
  <1>1. CASE Capture!ReadRegister \/ Capture!WriteRegister \/ Capture!DelayElapsed
    BY <1>1 DEF Capture!ReadRegister, Capture!WriteRegister, Capture!DelayElapsed
  <1>2. CASE \/ Capture!TransferFails \/ Capture!CheckPresentFails
             \/ Capture!FrameDoneComplete
    BY <1>2 DEF Capture!TransferFails, Capture!CheckPresentFails,
           Capture!FrameDoneComplete
  <1>3. CASE \/ Capture!PollFingerReported \/ Capture!PollFingerIdle
             \/ Capture!PollFingerRenew \/ Capture!CheckReady
             \/ Capture!CheckPresentFinger \/ Capture!CheckPresentSpurious
    BY <1>3 DEF Capture!PollFingerReported, Capture!PollFingerIdle,
           Capture!PollFingerRenew, Capture!CheckReady,
           Capture!CheckPresentFinger, Capture!CheckPresentSpurious
  <1>4. CASE \/ Capture!SetTransfer \/ Capture!ReadImageBadHeader
             \/ Capture!ReadImageFlat \/ Capture!ReadImageGood
             \/ Capture!VerifyRetry \/ Capture!VerifyDone \/ Capture!FrameDoneStage
    BY <1>4 DEF Capture!SetTransfer, Capture!ReadImageBadHeader,
           Capture!ReadImageFlat, Capture!ReadImageGood, Capture!VerifyRetry,
           Capture!VerifyDone, Capture!FrameDoneStage
  <1> QED BY <1>1, <1>2, <1>3, <1>4 DEF Capture!capture_run_state

LEMMA ActionKeepsSInv ==
  ASSUME SInv, ActionWithSensor
  PROVE  SInv'
  <1>1. task_ssm' \in capture_states \cup {"NULL"} /\ UNCHANGED open_error /\ Effect
    BY ActionMoves DEF ActionWithSensor, ActionStep, activation_only
  <1>2. /\ mode' \in {"asleep", "idle", "primed", "hunting", "busy", "pressed"}
        /\ mode' \in {"primed", "hunting"} => misses' = 0
    BY <1>1, EffectKeepsMisses DEF SInv, SearchInv
  <1> QED BY <1>1, <1>2, OutsideKeepsSInv DEF SInv, StateInv

LEMMA TransferFailsKeepsSInv ==
  ASSUME SInv, TransferFails
  PROVE  SInv'
  <1>1. task_ssm' = "NULL" /\ open_error' \in {"none", "CLAIM", "TRANSFER"}
    <2>1. CASE Activation!TransferFails
      BY <2>1 DEF Activation!TransferFails, Activation!activate_ssm_failed
    <2>2. CASE Capture!TransferFails /\ UNCHANGED activation_only
      BY <2>2 DEF Capture!TransferFails, Capture!capture_ssm_failed,
                  Capture!reset_task, activation_only, SInv, StateInv
    <2> QED BY <2>1, <2>2 DEF TransferFails, Fails
  <1>2. /\ mode' \in {"asleep", "idle", "primed", "hunting", "busy", "pressed"}
        /\ mode' \in {"primed", "hunting"} => misses' = 0
    BY EffectKeepsMisses DEF TransferFails, SInv, SearchInv
  <1> QED BY <1>1, <1>2, OutsideKeepsSInv

(* A call of libfprint starts or cancels a machine, and asks nothing.      *)
LEMMA CallKeepsSInv ==
  ASSUME SInv, Call
  PROVE  SInv'
  <1>1. UNCHANGED <<code, mode, armed, misses>>
    BY DEF Call, Sensor!Unmoved, Sensor!sensor
  <1>2. CASE dev_open
    <2>1. CASE Activation!dev_open
      <3>1. task_ssm' = "ACTIVATE_READ_MCU_STATE" /\ open_error' = "none" /\ retry_count' = 0
        BY <2>1 DEF Activation!dev_open
      <3> USE StatesApart
          DEF SInv, StateInv, WakeInv, DownloadInv, WaitInv, AnswerInv, SearchInv,
          WaitLoop, Identifying, Arming, Powering, Hunting, Awake,
          is_mcu_alive, is_mcu_ready, is_mcu_busy, MCU_STATE_MAGIC_A5,
          MCU_STATE_MAGIC_5A, MCU_STATE_BUSY, CAPTURE_READY_MAGIC
      <3> QED BY <1>1, <3>1
    <2>2. CASE Activation!dev_open_claim_fails
      <3>1. /\ UNCHANGED <<task_ssm, reg_buf, sensor_width, fw_step, retry_count>>
            /\ open_error' = "CLAIM"
        BY <2>2 DEF Activation!dev_open_claim_fails, Activation!identity,
                    Activation!image, Activation!counters
      <3> QED BY <1>1, <3>1
              DEF SInv, StateInv, WakeInv, DownloadInv, WaitInv, AnswerInv,
                  SearchInv, Awake
    <2> QED BY <1>2, <2>1, <2>2 DEF dev_open
  <1>3. CASE dev_close \/ Cancel
    <2>1. UNCHANGED <<task_ssm, reg_buf, sensor_width, fw_step, retry_count, open_error>>
      BY <1>3
      DEF dev_close, Activation!dev_close, Cancel, Activation!Cancel,
          Capture!Cancel, activation_only, Activation!identity,
          Activation!image, Activation!counters, Capture!dimensions
    <2> QED BY <1>1, <2>1
            DEF SInv, StateInv, WakeInv, DownloadInv, WaitInv, AnswerInv,
                SearchInv, Awake
  <1>4. CASE dev_enroll \/ dev_other
    <2>1. task_ssm' = "CAP_POLL_FINGER" /\ open_error' = open_error
      BY <1>4
      DEF dev_enroll, dev_other, Capture!dev_enroll, Capture!dev_other,
          Capture!start_capture, activation_only
    <2>2. "CAP_POLL_FINGER" \in capture_states
      BY DEF capture_states, Capture!capture_states, Capture!CaptureReads
    <2> QED BY <1>1, <2>1, <2>2, OutsideKeepsSInv DEF SInv, StateInv, SearchInv
  <1> QED BY <1>2, <1>3, <1>4 DEF Call

(* What the sensor does by itself.  It falls asleep and finds a finger     *)
(* only where the driver waits, and a press makes it busy only where the   *)
(* driver asks for the press: no press is busy while the driver identifies *)
(* the sensor, arms it and starts its search.                              *)
LEMMA SensorKeepsSInv ==
  ASSUME SInv, Finger \/ Found \/ Lapse \/ Settles \/ Busies
  PROVE  SInv'
  <1>1. UNCHANGED <<task_ssm, reg_buf, sensor_width, fw_step, retry_count,
                    open_error, code, armed, misses>>
    BY DEF Finger, Found, Lapse, Settles, Busies, vars, activation_only, shared,
           Sensor!FingerComes, Sensor!FingerGoes, Sensor!FingerFound,
           Sensor!Lapses, Sensor!PressSettles, Sensor!PressBusies, Sensor!Becomes
  <1>2. CASE Finger \/ Settles
    <2>1. \/ mode' = mode
          \/ mode \in {"pressed", "busy"} /\ mode' = "idle"
          \/ mode \in {"asleep", "busy"} /\ mode' \in {"pressed", "busy"}
      BY <1>2 DEF Finger, Settles, Sensor!FingerComes, Sensor!FingerGoes,
                  Sensor!PressSettles, Sensor!Becomes, Sensor!Press
    <2>2. /\ Awake => Awake'
          /\ mode = "idle" => mode' = "idle"
          /\ mode' = "hunting" <=> mode = "hunting"
      BY <2>1 DEF Awake
    <2>3. SearchInv'
      BY <1>1, <2>1, <2>2 DEF SInv, SearchInv
    <2>4. StateInv' /\ WakeInv' /\ DownloadInv'
      BY <1>1, <2>2 DEF SInv, StateInv, WakeInv, DownloadInv
    <2>5. WaitInv' /\ AnswerInv'
      BY <1>1, <2>2 DEF SInv, WaitInv, AnswerInv
    <2> QED BY <2>3, <2>4, <2>5 DEF SInv
  <1>3. CASE Found \/ Lapse \/ Busies
    <2>1. /\ task_ssm \in {"NULL", "ACTIVATE_READ_MCU_STATE",
                           "ACTIVATE_CHECK_MCU_STATE"} \cup capture_states
          /\ mode' \in {"pressed", "busy", "asleep"}
      BY <1>3
      DEF Found, Lapse, Busies, SensorWaits, PressReads, Sensor!FingerFound,
          Sensor!Lapses, Sensor!PressBusies, Sensor!Becomes, Sensor!Press,
          capture_states, Capture!capture_states, Capture!CaptureReads
    <2> USE StatesApart
        DEF SInv, StateInv, WakeInv, DownloadInv, WaitInv, AnswerInv, SearchInv,
          WaitLoop, Identifying, Arming, Powering, Hunting, Awake,
          is_mcu_alive, is_mcu_ready, is_mcu_busy, MCU_STATE_MAGIC_A5,
          MCU_STATE_MAGIC_5A, MCU_STATE_BUSY, CAPTURE_READY_MAGIC
    <2> QED BY <1>1, <2>1
  <1> QED BY <1>2, <1>3

(* The engine loses its armed state only outside of an open operation.     *)
LEMMA DisarmsKeepsSInv ==
  ASSUME SInv, Disarms
  PROVE  SInv'
  <1>1. /\ task_ssm' \in capture_states \cup {"NULL"}
        /\ UNCHANGED <<open_error, mode, misses>>
    BY DEF Disarms, Sensor!Disarms, vars, activation_only, shared, capture_states
  <1> QED BY <1>1, OutsideKeepsSInv DEF SInv, StateInv, SearchInv

(* A new process knows nothing, and has nothing to be wrong about.         *)
LEMMA CrashKeepsSInv ==
  ASSUME SInv, Crash \/ Replug
  PROVE  SInv'
  <1>1. task_ssm' = "NULL" /\ open_error' = "none"
    BY DEF Crash, Replug, NewProcess
  <1>2. /\ mode' \in {"asleep", "idle", "primed", "hunting", "busy", "pressed"}
        /\ mode' \in {"primed", "hunting"} => misses' = 0
    BY DEF Crash, Replug, Sensor!Unmoved, Sensor!sensor, Sensor!LosesPower,
           SInv, SearchInv
  <1> QED BY <1>1, <1>2, OutsideKeepsSInv

LEMMA InitSInv == SystemInit => SInv
  <1> SUFFICES ASSUME SystemInit PROVE SInv
    OBVIOUS
  <1>1. /\ task_ssm = "NULL" /\ open_error = "none" /\ mode = "asleep"
    BY DEF SystemInit, Init, Activation!Init, Sensor!Init
  <1> USE StatesApart
      DEF SInv, StateInv, WakeInv, DownloadInv, WaitInv, AnswerInv, SearchInv,
          WaitLoop, Identifying, Arming, Powering, Hunting, Awake,
          is_mcu_alive, is_mcu_ready, is_mcu_busy, MCU_STATE_MAGIC_A5,
          MCU_STATE_MAGIC_5A, MCU_STATE_BUSY, CAPTURE_READY_MAGIC
  <1> QED BY <1>1

LEMMA NextSInv == SInv /\ [SystemNext]_system => SInv'
  <1> SUFFICES ASSUME SInv, [SystemNext]_system PROVE SInv'
    OBVIOUS
  <1>1. CASE OpenWithSensor
    BY <1>1, OpenKeepsSInv DEF OpenWithSensor
  <1>2. CASE UNCHANGED system
    BY <1>2
    DEF system, vars, activation_only, shared, SInv, StateInv, WakeInv,
        DownloadInv, WaitInv, AnswerInv, SearchInv, Awake
  <1> QED BY <1>1, <1>2, ActionKeepsSInv, TransferFailsKeepsSInv, CallKeepsSInv,
            SensorKeepsSInv, DisarmsKeepsSInv, CrashKeepsSInv
         DEF SystemNext

(* What the driver knows of the sensor at each of its states is true of    *)
(* the sensor: the inductive invariant of the system (activate_run_state). *)
THEOREM SystemInvariance == SystemSpec => []SInv
  BY InitSInv, NextSInv, PTL DEF SystemSpec

(* From every state in which a crash at any step of either machine, a      *)
(* close, a cancelled action or a loss of power can leave the sensor, the  *)
(* activation brings it back: with the image on the disk, an open fails    *)
(* only with its transfers and its claim (activate_run_state).             *)
THEOREM OpensRecover == SystemSpec => []OnlyTransfersFailAnOpen
  <1>1. SInv => OnlyTransfersFailAnOpen
    BY DEF SInv, StateInv, OnlyTransfersFailAnOpen
  <1> QED BY <1>1, SystemInvariance, PTL

(* Silence is taken for a missing code only when the code is missing: a    *)
(* sensor that sleeps is woken up first and is not sent its code again     *)
(* (ACTIVATE_WAKE_1 to ACTIVATE_RECHECK_MCU_STATE).                        *)
THEOREM SilenceIsUnderstood == SystemSpec => SilenceMeansNoCode
  <1> DEFINE Reload == task_ssm = "ACTIVATE_RECHECK_MCU_STATE"
                         /\ task_ssm' = "ACTIVATE_FW_STEP" => code # "whole"
  <1>1. ASSUME SInv, [SystemNext]_system PROVE [Reload]_system
    <2>1. SUFFICES ASSUME SystemNext, task_ssm = "ACTIVATE_RECHECK_MCU_STATE",
                          task_ssm' = "ACTIVATE_FW_STEP"
                   PROVE  code # "whole"
      BY <1>1
    <2>2. ~is_mcu_alive(reg_buf)
      <3>1. Activation!RecheckMcuState
        <4>1. OpenWithSensor
          <5>1. ~(ActionWithSensor \/ TransferFails \/ Crash \/ Replug)
            BY <2>1, ActionMoves, StatesApart
            DEF ActionWithSensor, ActionStep, TransferFails, Fails,
                Activation!TransferFails, Activation!activate_ssm_failed,
                Capture!TransferFails, Capture!capture_ssm_failed,
                Capture!reset_task, Crash, Replug, NewProcess
          <5>2. ~(Finger \/ Found \/ Lapse \/ Settles \/ Busies \/ Disarms)
            BY <2>1 DEF Finger, Found, Lapse, Settles, Busies, Disarms, vars, shared
          <5>3. ~Call
            BY <2>1
            DEF Call, dev_open, dev_close, dev_enroll, dev_other, Cancel,
                Activation!dev_open, Activation!dev_open_claim_fails,
                Activation!dev_close, Activation!Cancel, Capture!Cancel,
                Capture!dev_enroll, Capture!dev_other, Capture!start_capture
          <5> QED BY <2>1, <5>1, <5>2, <5>3 DEF SystemNext
        <4>2. Activation!activate_run_state
          BY <4>1 DEF OpenWithSensor, OpenStep
        <4>3. ~(Activation!ReadRegister \/ Activation!WriteRegister
                  \/ Activation!DelayElapsed)
          BY <2>1, TableStates
          DEF Activation!ReadRegister, Activation!WriteRegister,
              Activation!DelayElapsed
        <4> QED BY <2>1, <4>2, <4>3
                DEF Activation!activate_run_state, Activation!TransferFails,
                    Activation!activate_ssm_failed, Activation!CheckMcuState,
                    Activation!FwStepEnd, Activation!FwStepRead,
                    Activation!FwStepSend, Activation!FwStepDelay,
                    Activation!FwNext, Activation!WaitReadyCheck,
                    Activation!AutoPowerPollCheck,
                    Activation!AutoPowerPoll2Check, Activation!PollCheck,
                    Activation!StoreChipIdHigh, Activation!StoreChipIdLow,
                    Activation!StoreDimWidth, Activation!StoreDimHeight,
                    Activation!CheckCaptureReady, Activation!ArmVerifyCheck,
                    Activation!HuntingBusy, Activation!HuntingRearm,
                    Activation!HuntingReload, Activation!HuntingGiveUp
      <3> QED BY <2>1, <3>1
              DEF Activation!RecheckMcuState, Activation!fpi_ssm_jump_to_state,
                  Activation!is_mcu_alive, Activation!is_mcu_ready,
                  is_mcu_alive, is_mcu_ready, MCU_STATE_MAGIC_A5,
                  MCU_STATE_MAGIC_5A, MCU_STATE_BUSY,
                  Activation!MCU_STATE_MAGIC_A5, Activation!MCU_STATE_MAGIC_5A,
                  Activation!MCU_STATE_BUSY
    <2> QED BY <1>1, <2>1, <2>2 DEF SInv, WakeInv
  <1>2. SystemSpec => [][Reload]_system
    BY <1>1, SystemInvariance, PTL DEF SystemSpec
  <1> QED BY <1>2 DEF SilenceMeansNoCode

(* An open operation that succeeds leaves a sensor with its code, armed,   *)
(* and its last write of 0x1e started the search; if not, the recovery     *)
(* download was tried (ACTIVATE_AUTO_POWER_HUNTING_CHECK).                 *)
THEOREM OpensStartTheSearch == SystemSpec => OpenStartsTheSearch
  <1> DEFINE Opens == device = "opening" /\ device' = "open"
                        => code = "whole" /\ armed /\ (misses = 0 \/ fw_reloaded)
  <1>1. ASSUME SInv, [SystemNext]_system PROVE [Opens]_system
    <2>1. SUFFICES ASSUME SystemNext, device = "opening", device' = "open"
                   PROVE  code = "whole" /\ armed /\ (misses = 0 \/ fw_reloaded)
      BY <1>1
    <2>2. Activation!HuntingBusy \/ Activation!HuntingGiveUp
      <3>1. OpenWithSensor
        <4>1. ~(ActionWithSensor \/ TransferFails \/ Crash \/ Replug)
          BY <2>1
          DEF ActionWithSensor, ActionStep, TransferFails, Fails,
              Activation!TransferFails, Activation!activate_ssm_failed,
              activation_only, Crash, Replug, NewProcess
        <4>2. ~(Finger \/ Found \/ Lapse \/ Settles \/ Busies \/ Disarms)
          BY <2>1 DEF Finger, Found, Lapse, Settles, Busies, Disarms, vars,
                      activation_only
        <4>3. ~Call
          BY <2>1
          DEF Call, dev_open, dev_close, dev_enroll, dev_other, Cancel,
              Activation!dev_open, Activation!dev_open_claim_fails,
              Activation!dev_close, Activation!Cancel, activation_only
        <4> QED BY <2>1, <4>1, <4>2, <4>3 DEF SystemNext
      <3>2. Activation!activate_run_state
        BY <3>1 DEF OpenWithSensor, OpenStep
      <3> USE DEF Activation!fpi_ssm_jump_to_state, Activation!session,
                  Activation!activate_ssm_failed, Activation!recover_and_fail
      <3>3. ~(Activation!RecheckMcuState \/ Activation!HuntingReload)
        BY <2>1
        DEF Activation!RecheckMcuState, Activation!HuntingReload,
            Activation!start_download
      <3>4. ~(\/ Activation!WaitReadyCheck \/ Activation!AutoPowerPollCheck
              \/ Activation!AutoPowerPoll2Check)
        BY <2>1
        DEF Activation!WaitReadyCheck, Activation!AutoPowerPollCheck,
            Activation!AutoPowerPoll2Check, Activation!PollCheck
      <3>5. ~(\/ Activation!ReadRegister \/ Activation!WriteRegister
              \/ Activation!DelayElapsed \/ Activation!TransferFails
              \/ Activation!CheckMcuState \/ Activation!CheckCaptureReady
              \/ Activation!ArmVerifyCheck \/ Activation!HuntingRearm)
        BY <2>1
        DEF Activation!ReadRegister, Activation!WriteRegister,
            Activation!DelayElapsed, Activation!TransferFails,
            Activation!CheckMcuState, Activation!CheckCaptureReady,
            Activation!ArmVerifyCheck, Activation!HuntingRearm
      <3>6. ~(\/ Activation!FwStepEnd \/ Activation!FwStepRead
              \/ Activation!FwStepSend \/ Activation!FwStepDelay
              \/ Activation!FwNext \/ Activation!StoreChipIdHigh
              \/ Activation!StoreChipIdLow \/ Activation!StoreDimWidth
              \/ Activation!StoreDimHeight)
        BY <2>1
        DEF Activation!FwStepEnd, Activation!FwStepRead, Activation!FwStepSend,
            Activation!FwStepDelay, Activation!FwNext,
            Activation!StoreChipIdHigh, Activation!StoreChipIdLow,
            Activation!StoreDimWidth, Activation!StoreDimHeight
      <3> QED BY <3>2, <3>3, <3>4, <3>5, <3>6 DEF Activation!activate_run_state
    <2>3. task_ssm = "ACTIVATE_AUTO_POWER_HUNTING_CHECK"
      BY <2>2 DEF Activation!HuntingBusy, Activation!HuntingGiveUp
    <2>4. code = "whole" /\ armed
      BY <1>1, <2>3 DEF SInv, SearchInv, AnswerInv, Hunting
    <2>5. CASE Activation!HuntingBusy
      <3>1. mode = "hunting"
        BY <1>1, <2>3, <2>5
        DEF SInv, SearchInv, Activation!HuntingBusy, Activation!is_mcu_busy,
            is_mcu_busy, MCU_STATE_BUSY, Activation!MCU_STATE_BUSY
      <3> QED BY <1>1, <2>4, <3>1 DEF SInv, SearchInv
    <2>6. CASE Activation!HuntingGiveUp
      BY <2>4, <2>6 DEF Activation!HuntingGiveUp
    <2> QED BY <2>2, <2>5, <2>6
  <1>2. SystemSpec => [][Opens]_system
    BY <1>1, SystemInvariance, PTL DEF SystemSpec
  <1> QED BY <1>2 DEF OpenStartsTheSearch
=============================================================================
