---------------------- MODULE Ft9201Activation_proofs ----------------------
(***************************************************************************)
(* Theorems about the activation and its history, for every sensor, every  *)
(* disk, every download table that sends the image once, and all limits.   *)
(***************************************************************************)
EXTENDS Ft9201ActivationHistory, TLAPS

(* What is true of the image between its load and the end of the machine,  *)
(* and of the chip id between the reads of its two bytes.                  *)
ImageInv ==
  /\ fw_data # 0 => UsableImage(fw_data)
  /\ task_ssm \in {"ACTIVATE_FW_STEP", "ACTIVATE_FW_NEXT"} => fw_data # 0
  /\ task_ssm = "ACTIVATE_FW_NEXT" => op.kind # "END"

ChipIdInv ==
  task_ssm \in {"ACTIVATE_READ_CHIP_ID_LOW", "ACTIVATE_STORE_CHIP_ID_LOW"}
    => chip_id \in {256 * high : high \in Byte}

IInv == TypeOK /\ OwnsOnlyWhatItUses /\ ImageInv /\ ChipIdInv

-----------------------------------------------------------------------------
(* What the assumption on the table says of its entries. *)
LEMMA ScriptFacts ==
  /\ Len(ft9201_firmware_script) \in Nat \ {0}
  /\ \A i \in 1..Len(ft9201_firmware_script) :
       /\ ft9201_firmware_script[i].kind \in OpKind
       /\ ft9201_firmware_script[i].kind = "END"
            <=> i = Len(ft9201_firmware_script)
  <1>1. Len(ft9201_firmware_script) \in Nat \ {0}
    BY ScriptAssumption
  <1>2. ASSUME NEW i \in 1..Len(ft9201_firmware_script)
        PROVE  ft9201_firmware_script[i] \in Op
    BY ScriptAssumption
  <1>3. ASSUME NEW i \in 1..Len(ft9201_firmware_script)
        PROVE  ft9201_firmware_script[i].kind \in OpKind
    BY <1>2 DEF Op
  <1>4. QED
    BY <1>1, <1>3, ScriptAssumption

(* The arithmetic that the driver does on the bytes of an answer. *)
LEMMA ByteArithmetic ==
  /\ \A b \in Byte : (b \div 2) % 16 \in Byte
  /\ \A h \in Byte : h * 256 = 256 * h /\ h * 256 \in UInt16
  /\ \A h \in Byte, l \in Byte : 256 * h + l \in UInt16
  BY DEF Byte, UInt16

(* The rows of the tables lead from states to states of the machine, stay  *)
(* away from the download, and reach the second byte of the chip id only   *)
(* from its read.                                                          *)
LEMMA ReadRows ==
  \A r \in RegisterReads :
    /\ r[2] \in Register
    /\ r[3] \in activate_states
    /\ r[1] # "NULL" /\ r[3] # "NULL"
    /\ r[3] \notin {"ACTIVATE_FW_STEP", "ACTIVATE_FW_NEXT", "ACTIVATE_READ_CHIP_ID_LOW"}
    /\ r[3] = "ACTIVATE_STORE_CHIP_ID_LOW" => r[1] = "ACTIVATE_READ_CHIP_ID_LOW"
  BY DEF RegisterReads, activate_states, Register

LEMMA WriteRows ==
  \A w \in RegisterWrites :
    /\ w[2] \in activate_states
    /\ w[1] # "NULL" /\ w[2] # "NULL"
    /\ w[2] \notin {"ACTIVATE_FW_STEP", "ACTIVATE_FW_NEXT",
                    "ACTIVATE_READ_CHIP_ID_LOW", "ACTIVATE_STORE_CHIP_ID_LOW"}
  BY DEF RegisterWrites, RegisterReads, Delays, activate_states

LEMMA DelayRows ==
  \A d \in Delays :
    /\ d[2] \in activate_states
    /\ d[1] # "NULL" /\ d[2] # "NULL"
    /\ d[2] \notin {"ACTIVATE_FW_STEP", "ACTIVATE_FW_NEXT",
                    "ACTIVATE_READ_CHIP_ID_LOW", "ACTIVATE_STORE_CHIP_ID_LOW"}
  BY DEF RegisterWrites, RegisterReads, Delays, activate_states

LEMMA NamedStates ==
  /\ "NULL" \notin activate_states
  /\ {"ACTIVATE_READ_MCU_STATE", "ACTIVATE_WAIT_READY_READ", "ACTIVATE_WAKE_1",
      "ACTIVATE_WAIT_READY_NUDGE_1", "ACTIVATE_READ_CHIP_ID_HIGH",
      "ACTIVATE_READ_CHIP_ID_LOW", "ACTIVATE_READ_DIM_WIDTH",
      "ACTIVATE_READ_DIM_HEIGHT", "ACTIVATE_CONFIG_WRITE_22",
      "ACTIVATE_ARM_WRITE_01", "ACTIVATE_AUTO_POWER_POLL_READ",
      "ACTIVATE_AUTO_POWER_SET_1", "ACTIVATE_AUTO_POWER_POLL_2_READ",
      "ACTIVATE_AUTO_POWER_PRESENT_READ", "ACTIVATE_FW_STEP",
      "ACTIVATE_FW_NEXT"} \subseteq activate_states
  BY DEF RegisterWrites, RegisterReads, Delays, activate_states

(* The initial state satisfies the inductive invariant. *)
LEMMA InitIInv == Init => IInv
  <1> SUFFICES ASSUME Init PROVE IInv
    OBVIOUS
  <1>1. claimed \in BOOLEAN /\ cancelled \in BOOLEAN /\ fw_reloaded \in BOOLEAN
    BY Zenon DEF Init
  <1>2. task_ssm \in activate_states \cup {"NULL"}
    BY Zenon DEF Init
  <1>3. reg_buf \in Byte \X Byte
    BY DEF Init, Byte
  <1>4. fw_step \in 0..(Len(ft9201_firmware_script) - 1)
    BY ScriptFacts DEF Init
  <1>5. TypeOK
    BY <1>1, <1>2, <1>3, <1>4, LimitAssumption
    DEF Init, TypeOK, SENSOR_TYPE_UNKNOWN, Byte, UInt16
  <1>6. OwnsOnlyWhatItUses /\ ImageInv /\ ChipIdInv
    BY DEF Init, OwnsOnlyWhatItUses, ImageInv, ChipIdInv
  <1>7. QED
    BY <1>5, <1>6 DEF IInv

-----------------------------------------------------------------------------
(* The part of TypeOK that is not about the session and the control state. *)
DataOK ==
  /\ reg_buf \in Byte \X Byte
  /\ chip_id \in UInt16
  /\ sensor_width \in Byte
  /\ sensor_height \in Byte
  /\ sensor_type \in Byte
  /\ retry_count \in Nat
  /\ fw_step \in 0..(Len(ft9201_firmware_script) - 1)
  /\ rearm_retries \in 0..REARM_MAX_RETRY
  /\ fw_reloaded \in BOOLEAN

LEMMA TypeOKGivesDataOK == TypeOK => DataOK
  BY DEF TypeOK, DataOK

(* A step that leaves the data alone keeps it typed. *)
LEMMA DataUnchanged ==
  ASSUME DataOK, UNCHANGED <<reg_buf, identity, counters, fw_step, fw_reloaded>>
  PROVE  DataOK'
  BY DEF DataOK, identity, counters

(* Moving to another state keeps the invariant, if the data stay typed and *)
(* the target is entered under its own condition.                          *)
LEMMA JumpKeepsIInv ==
  ASSUME IInv, NEW state \in activate_states, task_ssm # "NULL",
         fpi_ssm_jump_to_state(state), DataOK',
         state \in {"ACTIVATE_FW_STEP", "ACTIVATE_FW_NEXT"} => fw_data # 0,
         state = "ACTIVATE_FW_NEXT" => op'.kind # "END",
         ChipIdInv'
  PROVE  IInv'
  <1>1. TypeOK /\ OwnsOnlyWhatItUses /\ ImageInv
    BY DEF IInv
  <1>2. /\ task_ssm' = state
        /\ UNCHANGED <<device, claimed, cancelled, open_error, fw_data>>
    BY DEF fpi_ssm_jump_to_state, session
  <1>3. claimed' \in BOOLEAN /\ cancelled' \in BOOLEAN
    BY <1>1, <1>2 DEF TypeOK
  <1>4. task_ssm' \in activate_states \cup {"NULL"}
    BY <1>2
  <1>5. TypeOK'
    BY <1>1, <1>2, <1>3, <1>4 DEF TypeOK, DataOK
  <1>6. OwnsOnlyWhatItUses'
    BY <1>1, <1>2, NamedStates DEF OwnsOnlyWhatItUses
  <1>7. ImageInv'
    BY <1>1, <1>2 DEF ImageInv, UsableImage
  <1>8. QED
    BY <1>5, <1>6, <1>7 DEF IInv

(* So does the end of the machine, with an error or without one. *)
LEMMA FailureKeepsIInv ==
  ASSUME IInv, NEW error \in {"TRANSFER", "PROTO", "NOT_SUPPORTED", "DATA_INVALID"},
         activate_ssm_failed(error), DataOK'
  PROVE  IInv'
  <1>1. TypeOK /\ OwnsOnlyWhatItUses /\ ImageInv
    BY DEF IInv
  <1>2. /\ task_ssm' = "NULL" /\ fw_data' = 0 /\ claimed' = FALSE
        /\ device' = "closed" /\ open_error' = error /\ cancelled' = cancelled
    BY DEF activate_ssm_failed
  <1>3. claimed' \in BOOLEAN /\ cancelled' \in BOOLEAN
    BY <1>1, <1>2 DEF TypeOK
  <1>4. task_ssm' \in activate_states \cup {"NULL"}
    BY <1>2
  <1>5. TypeOK'
    BY <1>2, <1>3, <1>4 DEF TypeOK, DataOK
  <1>6. QED
    BY <1>2, <1>5 DEF IInv, OwnsOnlyWhatItUses, ImageInv, ChipIdInv

LEMMA CompletionKeepsIInv ==
  ASSUME IInv, task_ssm # "NULL", activate_ssm_completed, DataOK'
  PROVE  IInv'
  <1>1. TypeOK /\ OwnsOnlyWhatItUses /\ ImageInv
    BY DEF IInv
  <1>2. /\ task_ssm' = "NULL" /\ fw_data' = 0 /\ device' = "open"
        /\ UNCHANGED <<claimed, cancelled, open_error>>
    BY DEF activate_ssm_completed
  <1>3. claimed' \in BOOLEAN /\ cancelled' \in BOOLEAN
    BY <1>1, <1>2 DEF TypeOK
  <1>4. task_ssm' \in activate_states \cup {"NULL"}
    BY <1>2
  <1>5. TypeOK'
    BY <1>1, <1>2, <1>3, <1>4 DEF TypeOK, DataOK
  <1>6. claimed'
    BY <1>1, <1>2 DEF OwnsOnlyWhatItUses
  <1>7. QED
    BY <1>2, <1>5, <1>6 DEF IInv, OwnsOnlyWhatItUses, ImageInv, ChipIdInv

(* Loading gives a usable image or fails with one of its two errors. *)
LEMMA DownloadKeepsIInv ==
  ASSUME IInv, task_ssm # "NULL", start_download,
         UNCHANGED <<reg_buf, identity, retry_count>>,
         rearm_retries' \in 0..REARM_MAX_RETRY, fw_reloaded' \in BOOLEAN
  PROVE  IInv'
  <1>1. TypeOK /\ OwnsOnlyWhatItUses /\ ImageInv
    BY DEF IInv
  <1>2. PICK file \in FirmwareFiles :
          \/ /\ load_firmware(file) # 0
             /\ fw_data' = load_firmware(file)
             /\ fw_step' = 0
             /\ task_ssm' = "ACTIVATE_FW_STEP"
             /\ UNCHANGED session
          \/ /\ load_firmware(file) = 0
             /\ activate_ssm_failed(load_error(file))
             /\ UNCHANGED fw_step
    BY DEF start_download
  <1>3. fw_step' \in 0..(Len(ft9201_firmware_script) - 1)
    BY <1>1, <1>2, ScriptFacts DEF TypeOK
  <1>4. DataOK'
    BY <1>1, <1>3 DEF TypeOK, DataOK, identity
  <1>5. CASE load_firmware(file) = 0
    <2>1. load_error(file) \in {"NOT_SUPPORTED", "DATA_INVALID"}
      BY DEF load_error
    <2>2. QED
      BY <1>2, <1>4, <1>5, <2>1, FailureKeepsIInv
  <1>6. CASE load_firmware(file) # 0
    <2>1. /\ fw_data' = load_firmware(file)
          /\ task_ssm' = "ACTIVATE_FW_STEP"
          /\ UNCHANGED <<device, claimed, cancelled, open_error>>
      BY <1>2, <1>6 DEF session
    <2>2. fw_data' \in Nat \ {0} /\ UsableImage(fw_data')
      BY <1>1, <1>6, <2>1, FileAssumption
      DEF TypeOK, ImageInv, load_firmware, UsableImage, NoFile,
          FW_MIN_SIZE, FW_MAX_SIZE, FW_CHUNK_SIZE
    <2>3. claimed' \in BOOLEAN /\ cancelled' \in BOOLEAN
      BY <1>1, <2>1 DEF TypeOK
    <2>4. task_ssm' \in activate_states \cup {"NULL"}
      BY <2>1, NamedStates
    <2>5. TypeOK'
      BY <1>1, <1>4, <2>1, <2>2, <2>3, <2>4 DEF TypeOK, DataOK
    <2>6. OwnsOnlyWhatItUses'
      BY <1>1, <2>1 DEF OwnsOnlyWhatItUses
    <2>7. ImageInv' /\ ChipIdInv'
      BY <2>1, <2>2 DEF ImageInv, ChipIdInv
    <2>8. QED
      BY <2>5, <2>6, <2>7 DEF IInv
  <1>7. QED
    BY <1>5, <1>6

-----------------------------------------------------------------------------
(* The tables: exchanges with the sensor and delays. *)
LEMMA ExchangesKeepIInv ==
  ASSUME IInv, ReadRegister \/ WriteRegister \/ DelayElapsed
  PROVE  IInv'
  <1>1. DataOK /\ ChipIdInv
    BY TypeOKGivesDataOK DEF IInv
  <1>2. CASE ReadRegister
    <2>1. PICK r \in RegisterReads :
            task_ssm = r[1] /\ reg_buf' \in Reply[r[2]] /\ fpi_ssm_jump_to_state(r[3])
      BY <1>2 DEF ReadRegister
    <2>2. reg_buf' \in Byte \X Byte
      BY <2>1, ReadRows, ReplyAssumption
    <2>3. DataOK'
      BY <1>1, <1>2, <2>2 DEF ReadRegister, DataOK, identity, counters
    <2>4. ChipIdInv'
      BY <1>1, <1>2, <2>1, ReadRows
      DEF ReadRegister, ChipIdInv, identity, fpi_ssm_jump_to_state
    <2>5. QED
      BY <2>1, <2>3, <2>4, ReadRows, JumpKeepsIInv
  <1>3. CASE WriteRegister
    <2>1. PICK w \in RegisterWrites :
            task_ssm = w[1] /\ fpi_ssm_jump_to_state(w[2])
      BY <1>3 DEF WriteRegister
    <2>2. DataOK'
      BY <1>1, <1>3 DEF WriteRegister, DataOK, identity, counters
    <2>3. ChipIdInv'
      BY <2>1, WriteRows DEF ChipIdInv, fpi_ssm_jump_to_state
    <2>4. QED
      BY <2>1, <2>2, <2>3, WriteRows, JumpKeepsIInv
  <1>4. CASE DelayElapsed
    <2>1. PICK d \in Delays :
            task_ssm = d[1] /\ fpi_ssm_jump_to_state(d[2])
      BY <1>4 DEF DelayElapsed
    <2>2. DataOK'
      BY <1>1, <1>4 DEF DelayElapsed, DataOK, identity, counters
    <2>3. ChipIdInv'
      BY <2>1, DelayRows DEF ChipIdInv, fpi_ssm_jump_to_state
    <2>4. QED
      BY <2>1, <2>2, <2>3, DelayRows, JumpKeepsIInv
  <1>5. QED
    BY <1>2, <1>3, <1>4

LEMMA TransferFailsKeepsIInv ==
  ASSUME IInv, TransferFails
  PROVE  IInv'
  <1>1. DataOK
    BY TypeOKGivesDataOK DEF IInv
  <1>2. DataOK'
    BY <1>1, DataUnchanged DEF TransferFails
  <1>3. QED
    BY <1>2, FailureKeepsIInv DEF TransferFails

(* The download: its steps stay inside the table, because the last entry   *)
(* is the only FW_END and FW_STEP leaves the download there.               *)
LEMMA DownloadStepsKeepIInv ==
  ASSUME IInv, FwStepEnd \/ FwStepRead \/ FwStepSend \/ FwStepDelay \/ FwNext
  PROVE  IInv'
  <1>1. DataOK /\ ImageInv /\ TypeOK
    BY TypeOKGivesDataOK DEF IInv
  <1>2. CASE FwStepEnd
    <2>1. DataOK'
      BY <1>1, <1>2, DataUnchanged DEF FwStepEnd
    <2>2. task_ssm # "NULL" /\ fpi_ssm_jump_to_state("ACTIVATE_WAIT_READY_READ")
      BY <1>2 DEF FwStepEnd
    <2>3. ChipIdInv'
      BY <2>2 DEF ChipIdInv, fpi_ssm_jump_to_state
    <2>4. QED
      BY <2>1, <2>2, <2>3, NamedStates, JumpKeepsIInv
  <1>3. CASE FwStepRead \/ FwStepSend \/ FwStepDelay
    <2>1. /\ task_ssm = "ACTIVATE_FW_STEP"
          /\ op.kind # "END"
          /\ fpi_ssm_jump_to_state("ACTIVATE_FW_NEXT")
          /\ UNCHANGED <<identity, fw_step, fw_reloaded, counters>>
      BY <1>3 DEF FwStepRead, FwStepSend, FwStepDelay
    <2>2. reg_buf' \in Byte \X Byte
      BY <1>1, <1>3, ReplyAssumption
      DEF FwStepRead, FwStepSend, FwStepDelay, DataOK, Register
    <2>3. DataOK'
      BY <1>1, <2>1, <2>2 DEF DataOK, identity, counters
    <2>4. op'.kind # "END"
      BY <2>1 DEF op
    <2>5. ChipIdInv'
      BY <2>1 DEF ChipIdInv, fpi_ssm_jump_to_state
    <2>6. fw_data # 0
      BY <1>1, <2>1 DEF ImageInv
    <2>7. QED
      BY <2>1, <2>3, <2>4, <2>5, <2>6, NamedStates, JumpKeepsIInv
  <1>4. CASE FwNext
    <2>1. /\ task_ssm = "ACTIVATE_FW_NEXT"
          /\ note_sfr_read
          /\ fw_step' = fw_step + 1
          /\ fpi_ssm_jump_to_state("ACTIVATE_FW_STEP")
          /\ UNCHANGED <<reg_buf, chip_id, sensor_width, sensor_height,
                         fw_reloaded, counters>>
      BY <1>4 DEF FwNext
    <2>2. fw_data # 0 /\ op.kind # "END"
      BY <1>1, <2>1 DEF ImageInv
    <2>3. fw_step' \in 0..(Len(ft9201_firmware_script) - 1)
      BY <1>1, <2>1, <2>2, ScriptFacts DEF DataOK, op
    <2>4. sensor_type' \in Byte
      <3>1. reg_buf[1] \in Byte /\ sensor_type \in Byte
        BY <1>1 DEF DataOK
      <3>2. (reg_buf[1] \div 2) % 16 \in Byte
        BY <3>1, ByteArithmetic
      <3>3. QED
        BY <2>1, <3>1, <3>2 DEF note_sfr_read
    <2>5. DataOK'
      BY <1>1, <2>1, <2>3, <2>4 DEF DataOK, counters
    <2>6. ChipIdInv'
      BY <2>1 DEF ChipIdInv, fpi_ssm_jump_to_state
    <2>7. QED
      BY <2>1, <2>2, <2>5, <2>6, NamedStates, JumpKeepsIInv
  <1>5. QED
    BY <1>2, <1>3, <1>4

(* A loop that waits for a5 5a. *)
LEMMA PollCheckKeepsIInv ==
  ASSUME IInv, NEW state, NEW limit, NEW ready \in activate_states,
         NEW again \in activate_states, state # "NULL",
         PollCheck(state, limit, ready, again),
         ready \notin {"ACTIVATE_FW_STEP", "ACTIVATE_FW_NEXT",
                       "ACTIVATE_READ_CHIP_ID_LOW", "ACTIVATE_STORE_CHIP_ID_LOW"},
         again \notin {"ACTIVATE_FW_STEP", "ACTIVATE_FW_NEXT",
                       "ACTIVATE_READ_CHIP_ID_LOW", "ACTIVATE_STORE_CHIP_ID_LOW"}
  PROVE  IInv'
  <1>1. DataOK
    BY TypeOKGivesDataOK DEF IInv
  <1>2. retry_count' \in Nat
    BY <1>1 DEF PollCheck, DataOK
  <1>3. DataOK'
    BY <1>1, <1>2 DEF PollCheck, DataOK, identity
  <1>4. task_ssm # "NULL"
    BY DEF PollCheck
  <1>5. CASE recover_and_fail
    BY <1>3, <1>5, FailureKeepsIInv DEF recover_and_fail
  <1>6. CASE fpi_ssm_jump_to_state(ready)
    <2>1. ChipIdInv'
      BY <1>6 DEF ChipIdInv, fpi_ssm_jump_to_state
    <2>2. QED
      BY <1>3, <1>4, <1>6, <2>1, JumpKeepsIInv
  <1>7. CASE fpi_ssm_jump_to_state(again)
    <2>1. ChipIdInv'
      BY <1>7 DEF ChipIdInv, fpi_ssm_jump_to_state
    <2>2. QED
      BY <1>3, <1>4, <1>7, <2>1, JumpKeepsIInv
  <1>8. QED
    BY <1>5, <1>6, <1>7 DEF PollCheck

LEMMA PollChecksKeepIInv ==
  ASSUME IInv, WaitReadyCheck \/ AutoPowerPollCheck \/ AutoPowerPoll2Check
  PROVE  IInv'
  <1>1. CASE WaitReadyCheck
    BY <1>1, NamedStates, PollCheckKeepsIInv DEF WaitReadyCheck
  <1>2. CASE AutoPowerPollCheck
    BY <1>2, NamedStates, PollCheckKeepsIInv DEF AutoPowerPollCheck
  <1>3. CASE AutoPowerPoll2Check
    BY <1>3, NamedStates, PollCheckKeepsIInv DEF AutoPowerPoll2Check
  <1>4. QED
    BY <1>1, <1>2, <1>3

(* The decisions on the status, and the values taken from an answer. *)
LEMMA ChecksKeepIInv ==
  ASSUME IInv,
         CheckMcuState \/ RecheckMcuState \/ CheckCaptureReady \/ ArmVerifyCheck
  PROVE  IInv'
  <1>1. DataOK
    BY TypeOKGivesDataOK DEF IInv
  <1>2. CASE CheckMcuState
    <2>1. DataOK' /\ task_ssm # "NULL"
      BY <1>1, <1>2, DataUnchanged DEF CheckMcuState
    <2>2. ASSUME NEW s \in {"ACTIVATE_WAIT_READY_READ", "ACTIVATE_WAKE_1"},
                 fpi_ssm_jump_to_state(s)
          PROVE  IInv'
      <3>1. ChipIdInv' /\ s \in activate_states
        BY <2>2, NamedStates DEF ChipIdInv, fpi_ssm_jump_to_state
      <3>2. QED
        BY <2>1, <2>2, <3>1, JumpKeepsIInv
    <2>3. QED
      BY <1>2, <2>2 DEF CheckMcuState
  <1>3. CASE RecheckMcuState
    <2>1. /\ task_ssm # "NULL"
          /\ UNCHANGED <<reg_buf, identity, fw_reloaded, counters>>
      BY <1>3 DEF RecheckMcuState
    <2>2. CASE fpi_ssm_jump_to_state("ACTIVATE_WAIT_READY_READ") /\ UNCHANGED fw_step
      <3>1. DataOK'
        BY <1>1, <2>1, <2>2, DataUnchanged
      <3>2. ChipIdInv'
        BY <2>2 DEF ChipIdInv, fpi_ssm_jump_to_state
      <3>3. QED
        BY <2>1, <2>2, <3>1, <3>2, NamedStates, JumpKeepsIInv
    <2>3. CASE start_download
      <3>1. rearm_retries' \in 0..REARM_MAX_RETRY
        BY <1>1, <2>1 DEF DataOK, counters
      <3>2. fw_reloaded' \in BOOLEAN
        BY <1>1, <2>1 DEF DataOK
      <3>3. UNCHANGED <<reg_buf, identity, retry_count>>
        BY <2>1 DEF counters
      <3>4. QED
        BY <2>1, <2>3, <3>1, <3>2, <3>3, DownloadKeepsIInv
    <2>4. QED
      BY <1>3, <2>2, <2>3 DEF RecheckMcuState
  <1>4. CASE CheckCaptureReady
    <2>1. DataOK' /\ task_ssm # "NULL"
      BY <1>1, <1>4, DataUnchanged DEF CheckCaptureReady
    <2>2. fpi_ssm_jump_to_state("ACTIVATE_ARM_WRITE_01")
      BY <1>4 DEF CheckCaptureReady
    <2>3. ChipIdInv'
      BY <2>2 DEF ChipIdInv, fpi_ssm_jump_to_state
    <2>4. QED
      BY <2>1, <2>2, <2>3, NamedStates, JumpKeepsIInv
  <1>5. CASE ArmVerifyCheck
    <2>1. DataOK' /\ task_ssm # "NULL"
      BY <1>1, <1>5, DataUnchanged DEF ArmVerifyCheck
    <2>2. CASE recover_and_fail
      BY <2>1, <2>2, FailureKeepsIInv DEF recover_and_fail
    <2>3. CASE fpi_ssm_jump_to_state("ACTIVATE_AUTO_POWER_POLL_READ")
      <3>1. ChipIdInv'
        BY <2>3 DEF ChipIdInv, fpi_ssm_jump_to_state
      <3>2. QED
        BY <2>1, <2>3, <3>1, NamedStates, JumpKeepsIInv
    <2>4. QED
      BY <1>5, <2>2, <2>3 DEF ArmVerifyCheck
  <1>6. QED
    BY <1>2, <1>3, <1>4, <1>5

LEMMA StoresKeepIInv ==
  ASSUME IInv,
         StoreChipIdHigh \/ StoreChipIdLow \/ StoreDimWidth \/ StoreDimHeight
  PROVE  IInv'
  <1>1. DataOK /\ ChipIdInv
    BY TypeOKGivesDataOK DEF IInv
  <1>2. reg_buf[1] \in Byte
    BY <1>1 DEF DataOK
  <1>3. CASE StoreChipIdHigh
    <2>1. chip_id' \in {256 * high : high \in Byte} /\ chip_id' \in UInt16
      BY <1>2, <1>3, ByteArithmetic DEF StoreChipIdHigh
    <2>2. DataOK' /\ task_ssm # "NULL"
      BY <1>1, <1>3, <2>1 DEF StoreChipIdHigh, DataOK, counters
    <2>3. ChipIdInv'
      BY <2>1 DEF ChipIdInv
    <2>4. QED
      BY <1>3, <2>2, <2>3, NamedStates, JumpKeepsIInv DEF StoreChipIdHigh
  <1>4. CASE StoreChipIdLow
    <2>1. chip_id' \in UInt16
      BY <1>1, <1>2, <1>4, ByteArithmetic DEF StoreChipIdLow, ChipIdInv
    <2>2. DataOK' /\ task_ssm # "NULL"
      BY <1>1, <1>4, <2>1 DEF StoreChipIdLow, DataOK, counters
    <2>3. ChipIdInv'
      BY <1>4 DEF StoreChipIdLow, ChipIdInv, fpi_ssm_jump_to_state
    <2>4. QED
      BY <1>4, <2>2, <2>3, NamedStates, JumpKeepsIInv DEF StoreChipIdLow
  <1>5. CASE StoreDimWidth
    <2>1. DataOK' /\ task_ssm # "NULL"
      BY <1>1, <1>2, <1>5 DEF StoreDimWidth, DataOK, counters
    <2>2. ChipIdInv'
      BY <1>5 DEF StoreDimWidth, ChipIdInv, fpi_ssm_jump_to_state
    <2>3. QED
      BY <1>5, <2>1, <2>2, NamedStates, JumpKeepsIInv DEF StoreDimWidth
  <1>6. CASE StoreDimHeight
    <2>1. DataOK' /\ task_ssm # "NULL"
      BY <1>1, <1>2, <1>6 DEF StoreDimHeight, DataOK, counters
    <2>2. CASE recover_and_fail
      BY <2>1, <2>2, FailureKeepsIInv DEF recover_and_fail
    <2>3. CASE fpi_ssm_jump_to_state("ACTIVATE_CONFIG_WRITE_22")
      <3>1. ChipIdInv'
        BY <2>3 DEF ChipIdInv, fpi_ssm_jump_to_state
      <3>2. QED
        BY <2>1, <2>3, <3>1, NamedStates, JumpKeepsIInv
    <2>4. QED
      BY <1>6, <2>2, <2>3 DEF StoreDimHeight
  <1>7. QED
    BY <1>3, <1>4, <1>5, <1>6

LEMMA HuntingKeepsIInv ==
  ASSUME IInv, HuntingBusy \/ HuntingRearm \/ HuntingReload \/ HuntingGiveUp
  PROVE  IInv'
  <1>1. DataOK
    BY TypeOKGivesDataOK DEF IInv
  <1>2. CASE HuntingBusy \/ HuntingGiveUp
    <2>1. DataOK' /\ task_ssm # "NULL" /\ activate_ssm_completed
      BY <1>1, <1>2, LimitAssumption
      DEF HuntingBusy, HuntingGiveUp, DataOK, identity
    <2>2. QED
      BY <2>1, CompletionKeepsIInv
  <1>3. CASE HuntingRearm
    <2>1. rearm_retries' \in 0..REARM_MAX_RETRY
      BY <1>1, <1>3, LimitAssumption DEF HuntingRearm, DataOK
    <2>2. DataOK' /\ task_ssm # "NULL"
      BY <1>1, <1>3, <2>1 DEF HuntingRearm, DataOK, identity
    <2>3. ChipIdInv'
      BY <1>3 DEF HuntingRearm, ChipIdInv, fpi_ssm_jump_to_state
    <2>4. QED
      BY <1>3, <2>2, <2>3, NamedStates, JumpKeepsIInv DEF HuntingRearm
  <1>4. CASE HuntingReload
    <2>1. /\ task_ssm # "NULL"
          /\ start_download
          /\ UNCHANGED <<reg_buf, identity, retry_count>>
          /\ rearm_retries' = 0
          /\ fw_reloaded' = TRUE
      BY <1>4 DEF HuntingReload
    <2>2. rearm_retries' \in 0..REARM_MAX_RETRY /\ fw_reloaded' \in BOOLEAN
      BY <2>1, LimitAssumption
    <2>3. QED
      BY <2>1, <2>2, DownloadKeepsIInv
  <1>5. QED
    BY <1>2, <1>3, <1>4

(* The calls of libfprint, and no step at all. *)
LEMMA CallsKeepIInv ==
  ASSUME IInv,
         dev_open \/ dev_open_claim_fails \/ dev_close \/ Cancel \/ UNCHANGED vars
  PROVE  IInv'
  <1>1. TypeOK /\ DataOK /\ OwnsOnlyWhatItUses /\ ImageInv /\ ChipIdInv
    BY TypeOKGivesDataOK DEF IInv
  <1>2. CASE dev_open
    <2>1. fw_step' \in 0..(Len(ft9201_firmware_script) - 1)
      BY <1>2, ScriptFacts DEF dev_open
    <2>2. fw_reloaded' \in BOOLEAN /\ claimed' \in BOOLEAN /\ cancelled' \in BOOLEAN
      BY <1>2 DEF dev_open
    <2>3. task_ssm' \in activate_states \cup {"NULL"}
      BY <1>2, NamedStates DEF dev_open
    <2>4. TypeOK'
      BY <1>1, <1>2, <2>1, <2>2, <2>3 DEF dev_open, TypeOK, DataOK, identity
    <2>5. fw_data' = 0
      BY <1>1, <1>2 DEF dev_open, OwnsOnlyWhatItUses
    <2>6. OwnsOnlyWhatItUses' /\ ImageInv' /\ ChipIdInv'
      BY <1>2, <2>5 DEF dev_open, OwnsOnlyWhatItUses, ImageInv, ChipIdInv
    <2>7. QED
      BY <2>4, <2>6 DEF IInv
  <1>3. CASE dev_open_claim_fails
    BY <1>1, <1>3
    DEF dev_open_claim_fails, IInv, TypeOK, OwnsOnlyWhatItUses, ImageInv,
        ChipIdInv, identity, image, counters, op
  <1>4. CASE dev_close
    BY <1>1, <1>4
    DEF dev_close, IInv, TypeOK, OwnsOnlyWhatItUses, ImageInv,
        ChipIdInv, identity, image, counters, op
  <1>5. CASE Cancel
    BY <1>1, <1>5
    DEF Cancel, IInv, TypeOK, OwnsOnlyWhatItUses, ImageInv,
        ChipIdInv, identity, image, counters, op
  <1>6. CASE UNCHANGED vars
    BY <1>1, <1>6
    DEF vars, session, IInv, TypeOK, OwnsOnlyWhatItUses, ImageInv,
        ChipIdInv, identity, image, counters, op
  <1>7. QED
    BY <1>2, <1>3, <1>4, <1>5, <1>6

LEMMA NextIInv == IInv /\ [Next]_vars => IInv'
  BY ExchangesKeepIInv, TransferFailsKeepsIInv, DownloadStepsKeepIInv,
     PollChecksKeepIInv, ChecksKeepIInv, StoresKeepIInv, HuntingKeepsIInv,
     CallsKeepIInv
  DEF Next, activate_run_state

-----------------------------------------------------------------------------
(* The inductive invariant holds in every reachable state. *)
THEOREM Invariance == Spec => []IInv
  <1>1. Init => IInv
    BY InitIInv
  <1>2. IInv /\ [Next]_vars => IInv'
    BY NextIInv
  <1>3. QED
    BY <1>1, <1>2, PTL DEF Spec

(* Type correctness: among others, the table is never read past its end    *)
(* and the re-arm counter never passes its limit.                          *)
THEOREM TypeCorrectness == Spec => []TypeOK
  <1>1. IInv => TypeOK
    BY DEF IInv
  <1>2. QED
    BY <1>1, Invariance, PTL

(* Every way out of an open operation gives back what it took. *)
THEOREM Ownership == Spec => []OwnsOnlyWhatItUses
  <1>1. IInv => OwnsOnlyWhatItUses
    BY DEF IInv
  <1>2. QED
    BY <1>1, Invariance, PTL

(* Whatever the file on the disk holds at each of the two possible loads,  *)
(* only a usable image is streamed to the sensor.                          *)
THEOREM UsableImages == Spec => []StreamsOnlyAUsableImage
  <1>1. ASSUME NEW len \in Nat, UsableImage(len)
        PROVE  len \in {FW_CHUNK_SIZE * n : n \in 16..1024}
    <2>1. len = 64 * (len \div 64) /\ len \div 64 \in 16..1024
      BY <1>1 DEF UsableImage, FW_CHUNK_SIZE, FW_MIN_SIZE, FW_MAX_SIZE
    <2>2. QED
      BY <2>1 DEF FW_CHUNK_SIZE
  <1>2. IInv => StreamsOnlyAUsableImage
    BY <1>1, ScriptFacts DEF IInv, TypeOK, ImageInv, StreamsOnlyAUsableImage
  <1>3. QED
    BY <1>2, Invariance, PTL

-----------------------------------------------------------------------------
(* The history of an open operation.                                       *)

(* The states of the machine by what was done to the sensor before them:   *)
(* each set is what comes after one more preparation.                      *)
Detecting ==
  {"ACTIVATE_AUTO_POWER_DELAY", "ACTIVATE_AUTO_POWER_POLL_2_READ",
   "ACTIVATE_AUTO_POWER_POLL_2_CHECK", "ACTIVATE_AUTO_POWER_PRESENT_READ",
   "ACTIVATE_AUTO_POWER_HUNTING_READ", "ACTIVATE_AUTO_POWER_HUNTING_CHECK"}

Armed == Detecting \cup
  {"ACTIVATE_AUTO_POWER_POLL_READ", "ACTIVATE_AUTO_POWER_POLL_CHECK",
   "ACTIVATE_AUTO_POWER_SET_1", "ACTIVATE_AUTO_POWER_SET_2"}

Configured == Armed \cup
  {"ACTIVATE_READ_CAPTURE_READY", "ACTIVATE_CHECK_CAPTURE_READY",
   "ACTIVATE_ARM_WRITE_01", "ACTIVATE_ARM_WRITE_41", "ACTIVATE_ARM_WRITE_30",
   "ACTIVATE_ARM_VERIFY_READ", "ACTIVATE_ARM_VERIFY_CHECK"}

Sized == Configured \cup {"ACTIVATE_CONFIG_WRITE_22", "ACTIVATE_CONFIG_WRITE_23"}

Ready == Sized \cup
  {"ACTIVATE_READ_CHIP_ID_HIGH", "ACTIVATE_STORE_CHIP_ID_HIGH",
   "ACTIVATE_READ_CHIP_ID_LOW", "ACTIVATE_STORE_CHIP_ID_LOW",
   "ACTIVATE_READ_DIM_WIDTH", "ACTIVATE_STORE_DIM_WIDTH",
   "ACTIVATE_READ_DIM_HEIGHT", "ACTIVATE_STORE_DIM_HEIGHT"}

(* The states in which the driver still asks whether there is any code. *)
Asking ==
  {"ACTIVATE_READ_MCU_STATE", "ACTIVATE_CHECK_MCU_STATE",
   "ACTIVATE_WAKE_1", "ACTIVATE_WAKE_1_DELAY", "ACTIVATE_WAKE_2",
   "ACTIVATE_WAKE_2_DELAY", "ACTIVATE_REREAD_MCU_STATE",
   "ACTIVATE_RECHECK_MCU_STATE"}

Downloading == {"ACTIVATE_FW_STEP", "ACTIVATE_FW_NEXT"}

Preparations == {"ready", "sized", "configured", "armed", "detecting"}

(* What was prepared grows along the states, and is complete at the end.   *)
PreparedInv ==
  /\ prepared \subseteq Preparations
  /\ task_ssm \in Ready      => "ready" \in prepared
  /\ task_ssm \in Sized      => /\ "sized" \in prepared
                                /\ sensor_width # 0 /\ sensor_height # 0
  /\ task_ssm \in Configured => "configured" \in prepared
  /\ task_ssm \in Armed      => "armed" \in prepared
  /\ task_ssm \in Detecting  => "detecting" \in prepared
  /\ device = "open"         => /\ prepared = Preparations
                                /\ sensor_width # 0 /\ sensor_height # 0

(* The table entries that are behind the machine. *)
Executed == {i \in 1..Len(ft9201_firmware_script) :
               i <= (IF task_ssm = "ACTIVATE_FW_NEXT" THEN fw_step + 1 ELSE fw_step)}

ImageSent == \E i \in Executed : ft9201_firmware_script[i].kind = "SEND_IMAGE"

Reasons == (IF silent THEN 1 ELSE 0) + (IF fw_reloaded THEN 1 ELSE 0)

(* A pass through the table is paid for when it starts, and adds its image *)
(* at its one SEND_IMAGE; nothing is owed before the first decision.       *)
DownloadsInv ==
  /\ downloads \in Nat
  /\ downloads <= Reasons
  /\ task_ssm \in Asking => ~silent /\ ~fw_reloaded
  /\ task_ssm \in Downloading /\ ~ImageSent => downloads < Reasons
  /\ task_ssm \in Downloading /\ ImageSent => downloads > 0
  /\ task_ssm \notin Downloading \cup {"NULL"} /\ fw_reloaded => downloads > 0

(* The counter of a loop is the number of answers that it saw, and it is   *)
(* zero whenever no loop runs.                                             *)
LoopLimit(state) ==
  IF state \in {"ACTIVATE_AUTO_POWER_POLL_READ", "ACTIVATE_AUTO_POWER_POLL_CHECK",
                "ACTIVATE_AUTO_POWER_POLL_2_READ", "ACTIVATE_AUTO_POWER_POLL_2_CHECK"}
  THEN AUTO_POWER_MAX_RETRY ELSE MCU_READY_MAX_POLLS

LoopChecks == {"ACTIVATE_WAIT_READY_CHECK", "ACTIVATE_AUTO_POWER_POLL_CHECK",
               "ACTIVATE_AUTO_POWER_POLL_2_CHECK"}

LoopStates == WaitReads \cup WaitOthers

PollsInv ==
  /\ polls \in Nat
  /\ task_ssm \in LoopStates => retry_count <= LoopLimit(task_ssm)
  /\ task_ssm \in LoopChecks => polls = retry_count + 1
  /\ task_ssm \in LoopStates \ LoopChecks => polls = retry_count
  /\ task_ssm \notin LoopStates \cup {"NULL"} => retry_count = 0

(* After the recovery download the counter counts from zero. *)
RearmsInv ==
  task_ssm # "NULL" /\ fw_reloaded => rearms = rearm_retries

HInv == /\ PreparedInv /\ DownloadsInv /\ PollsInv /\ RearmsInv
        /\ DecidesOnItsOwnAnswer
        /\ silent \in BOOLEAN
-----------------------------------------------------------------------------
(* The moves of the machine that change nothing but task_ssm, reg_buf and  *)
(* chip_id.                                                                *)
QuietEdges ==
  {<<r[1], r[3]>> : r \in RegisterReads} \cup RegisterWrites \cup Delays \cup
  { <<"ACTIVATE_CHECK_MCU_STATE", "ACTIVATE_WAIT_READY_READ">>,
    <<"ACTIVATE_CHECK_MCU_STATE", "ACTIVATE_WAKE_1">>,
    <<"ACTIVATE_RECHECK_MCU_STATE", "ACTIVATE_WAIT_READY_READ">>,
    <<"ACTIVATE_STORE_CHIP_ID_HIGH", "ACTIVATE_READ_CHIP_ID_LOW">>,
    <<"ACTIVATE_STORE_CHIP_ID_LOW", "ACTIVATE_READ_DIM_WIDTH">>,
    <<"ACTIVATE_CHECK_CAPTURE_READY", "ACTIVATE_ARM_WRITE_01">>,
    <<"ACTIVATE_ARM_VERIFY_CHECK", "ACTIVATE_AUTO_POWER_POLL_READ">> }

QuietMove ==
  /\ <<task_ssm, task_ssm'>> \in QuietEdges
  /\ UNCHANGED <<device, sensor_width, sensor_height, fw_step, fw_reloaded, counters>>

(* No two reads start at the same state, and each leads to the decision    *)
(* that expects its register.                                              *)
LEMMA ReadsDiffer ==
  \A r1, r2 \in RegisterReads : r1[1] = r2[1] => r1[2] = r2[2]
  BY DEF RegisterReads

LEMMA ReadsAreExpected ==
  \A r \in RegisterReads :
    r[3] \in DOMAIN ExpectedAnswer => r[2] = ExpectedAnswer[r[3]]
  BY DEF RegisterReads, ExpectedAnswer

(* Only reads lead to a decision. *)
LEMMA OnlyReadsLeadToDecisions ==
  /\ \A e \in RegisterWrites \cup Delays : e[2] \notin DOMAIN ExpectedAnswer
  /\ {"ACTIVATE_WAIT_READY_READ", "ACTIVATE_WAKE_1", "ACTIVATE_READ_CHIP_ID_LOW",
      "ACTIVATE_READ_DIM_WIDTH", "ACTIVATE_ARM_WRITE_01",
      "ACTIVATE_AUTO_POWER_POLL_READ", "ACTIVATE_FW_STEP", "ACTIVATE_FW_NEXT",
      "ACTIVATE_READ_CHIP_ID_HIGH", "ACTIVATE_WAIT_READY_NUDGE_1",
      "ACTIVATE_AUTO_POWER_SET_1", "ACTIVATE_AUTO_POWER_PRESENT_READ",
      "ACTIVATE_AUTO_POWER_POLL_2_READ", "ACTIVATE_READ_DIM_HEIGHT",
      "ACTIVATE_CONFIG_WRITE_22", "ACTIVATE_READ_MCU_STATE", "NULL"}
       \cap DOMAIN ExpectedAnswer = {}
  BY DEF RegisterWrites, Delays, ExpectedAnswer

(* How the quiet moves lie to the sets of states. *)
LEMMA QuietStates ==
  \A e \in QuietEdges :
    /\ e[1] # e[2] /\ e[1] # "NULL" /\ e[2] # "NULL"
    /\ e[1] \notin Downloading /\ e[2] \notin Downloading
    /\ e[2] \in Asking => e[1] \in Asking
  BY DEF QuietEdges, RegisterReads, RegisterWrites, Delays, Downloading, Asking

LEMMA QuietPreparations ==
  \A e \in QuietEdges :
    /\ e[2] \in Ready      => e[1] \in Ready
    /\ e[2] \in Sized      => e[1] \in Sized
    /\ e[2] \in Configured => e[1] \in Configured \cup {"ACTIVATE_CONFIG_WRITE_23"}
    /\ e[2] \in Armed      => e[1] \in Armed \cup {"ACTIVATE_ARM_VERIFY_CHECK"}
    /\ e[2] \in Detecting  => e[1] \in Detecting \cup {"ACTIVATE_AUTO_POWER_SET_2"}
  BY DEF QuietEdges, RegisterReads, RegisterWrites, Delays,
         Ready, Sized, Configured, Armed, Detecting

LEMMA QuietLoops ==
  \A e \in QuietEdges :
    /\ e[1] \notin LoopChecks
    /\ e[2] \in LoopChecks <=> e[1] \in WaitReads
    /\ e[1] \in LoopStates => /\ e[2] \in LoopStates
                             /\ LoopLimit(e[2]) = LoopLimit(e[1])
  BY DEF QuietEdges, RegisterReads, RegisterWrites, Delays, LoopStates,
         LoopChecks, LoopLimit, WaitReads, WaitOthers

-----------------------------------------------------------------------------
(* What a step does to the variables that the invariant is about: every    *)
(* step is of one of these kinds (StepKinds).                              *)
LoopEndEdges ==
  { <<"ACTIVATE_WAIT_READY_CHECK", "ACTIVATE_READ_CHIP_ID_HIGH">>,
    <<"ACTIVATE_AUTO_POWER_POLL_CHECK", "ACTIVATE_AUTO_POWER_SET_1">>,
    <<"ACTIVATE_AUTO_POWER_POLL_2_CHECK", "ACTIVATE_AUTO_POWER_PRESENT_READ">> }

LoopAgainEdges ==
  { <<"ACTIVATE_WAIT_READY_CHECK", "ACTIVATE_WAIT_READY_NUDGE_1">>,
    <<"ACTIVATE_AUTO_POWER_POLL_CHECK", "ACTIVATE_AUTO_POWER_POLL_READ">>,
    <<"ACTIVATE_AUTO_POWER_POLL_2_CHECK", "ACTIVATE_AUTO_POWER_POLL_2_READ">> }

LoopEnds ==
  /\ <<task_ssm, task_ssm'>> \in LoopEndEdges
  /\ retry_count' = 0
  /\ UNCHANGED <<device, sensor_width, sensor_height, fw_step, fw_reloaded, rearm_retries>>

LoopGoesOn ==
  /\ <<task_ssm, task_ssm'>> \in LoopAgainEdges
  /\ retry_count < LoopLimit(task_ssm)
  /\ retry_count' = retry_count + 1
  /\ UNCHANGED <<device, sensor_width, sensor_height, fw_step, fw_reloaded, rearm_retries>>

StoresSize ==
  /\ \/ task_ssm = "ACTIVATE_STORE_DIM_WIDTH" /\ task_ssm' = "ACTIVATE_READ_DIM_HEIGHT"
     \/ /\ task_ssm = "ACTIVATE_STORE_DIM_HEIGHT"
        /\ task_ssm' = "ACTIVATE_CONFIG_WRITE_22"
        /\ sensor_width' # 0 /\ sensor_height' # 0
  /\ UNCHANGED <<device, fw_step, fw_reloaded, counters>>

DownloadStarts ==
  /\ task_ssm' = "ACTIVATE_FW_STEP"
  /\ fw_step' = 0
  /\ \/ task_ssm = "ACTIVATE_RECHECK_MCU_STATE" /\ fw_reloaded' = fw_reloaded
     \/ /\ task_ssm = "ACTIVATE_AUTO_POWER_HUNTING_CHECK"
        /\ ~fw_reloaded /\ fw_reloaded' = TRUE
        /\ rearm_retries' = 0
  /\ UNCHANGED <<device, retry_count>>

EntryRuns ==
  /\ task_ssm = "ACTIVATE_FW_STEP" /\ task_ssm' = "ACTIVATE_FW_NEXT"
  /\ UNCHANGED <<device, fw_step, fw_reloaded, counters>>

EntryIsDone ==
  /\ task_ssm = "ACTIVATE_FW_NEXT" /\ task_ssm' = "ACTIVATE_FW_STEP"
  /\ fw_step' = fw_step + 1
  /\ UNCHANGED <<device, fw_reloaded, counters>>

DownloadEnds ==
  /\ task_ssm = "ACTIVATE_FW_STEP" /\ task_ssm' = "ACTIVATE_WAIT_READY_READ"
  /\ op.kind = "END"
  /\ UNCHANGED <<device, fw_step, fw_reloaded, counters>>

ArmsAgain ==
  /\ task_ssm = "ACTIVATE_AUTO_POWER_HUNTING_CHECK"
  /\ task_ssm' = "ACTIVATE_AUTO_POWER_SET_1"
  /\ rearm_retries' = rearm_retries + 1
  /\ UNCHANGED <<device, sensor_width, sensor_height, fw_step, fw_reloaded, retry_count>>

Moves ==
  \/ QuietMove \/ LoopEnds \/ LoopGoesOn \/ StoresSize \/ DownloadStarts
  \/ EntryRuns \/ EntryIsDone \/ DownloadEnds \/ ArmsAgain

OpenFails ==
  /\ task_ssm # "NULL" /\ task_ssm' = "NULL"
  /\ device' = "closed"
  /\ fw_reloaded => fw_reloaded'

OpenSucceeds ==
  /\ task_ssm = "ACTIVATE_AUTO_POWER_HUNTING_CHECK" /\ task_ssm' = "NULL"
  /\ device' = "open"
  /\ UNCHANGED <<sensor_width, sensor_height, fw_reloaded>>

Rests ==
  /\ device' \in {device, "closed"}
  /\ UNCHANGED <<task_ssm, sensor_width, sensor_height, fw_step, fw_reloaded, counters>>

LEMMA QuietSteps ==
  ASSUME \/ ReadRegister \/ WriteRegister \/ DelayElapsed \/ CheckMcuState
         \/ RecheckMcuState /\ is_mcu_alive(reg_buf)
         \/ StoreChipIdHigh \/ StoreChipIdLow \/ CheckCaptureReady
         \/ ArmVerifyCheck /\ reg_buf[1] = CAPTURE_READY_MAGIC
  PROVE  QuietMove
  <1> USE DEF QuietMove, fpi_ssm_jump_to_state, session, identity, counters
  <1>1. CASE ReadRegister
    <2>1. PICK r \in RegisterReads : task_ssm = r[1] /\ fpi_ssm_jump_to_state(r[3])
      BY <1>1 DEF ReadRegister
    <2>2. <<task_ssm, task_ssm'>> \in QuietEdges
      BY <2>1 DEF QuietEdges
    <2>3. QED
      BY <1>1, <2>1, <2>2 DEF ReadRegister
  <1>2. CASE WriteRegister
    <2>1. PICK w \in RegisterWrites : task_ssm = w[1] /\ fpi_ssm_jump_to_state(w[2])
      BY <1>2 DEF WriteRegister
    <2>2. <<task_ssm, task_ssm'>> = w
      BY <2>1 DEF RegisterWrites
    <2>3. <<task_ssm, task_ssm'>> \in QuietEdges
      BY <2>2 DEF QuietEdges
    <2>4. QED
      BY <1>2, <2>1, <2>3 DEF WriteRegister
  <1>3. CASE DelayElapsed
    <2>1. PICK d \in Delays : task_ssm = d[1] /\ fpi_ssm_jump_to_state(d[2])
      BY <1>3 DEF DelayElapsed
    <2>2. <<task_ssm, task_ssm'>> = d
      BY <2>1 DEF Delays
    <2>3. <<task_ssm, task_ssm'>> \in QuietEdges
      BY <2>2 DEF QuietEdges
    <2>4. QED
      BY <1>3, <2>1, <2>3 DEF DelayElapsed
  <1>4. CASE CheckMcuState
    BY <1>4 DEF CheckMcuState, QuietEdges
  <1>5. CASE RecheckMcuState /\ is_mcu_alive(reg_buf)
    BY <1>5 DEF RecheckMcuState, QuietEdges
  <1>6. CASE StoreChipIdHigh \/ StoreChipIdLow
    BY <1>6 DEF StoreChipIdHigh, StoreChipIdLow, QuietEdges
  <1>7. CASE CheckCaptureReady
    BY <1>7 DEF CheckCaptureReady, QuietEdges
  <1>8. CASE ArmVerifyCheck /\ reg_buf[1] = CAPTURE_READY_MAGIC
    BY <1>8 DEF ArmVerifyCheck, QuietEdges
  <1>9. QED
    BY <1>1, <1>2, <1>3, <1>4, <1>5, <1>6, <1>7, <1>8

LEMMA LoopSteps ==
  ASSUME IInv, WaitReadyCheck \/ AutoPowerPollCheck \/ AutoPowerPoll2Check
  PROVE  LoopEnds \/ LoopGoesOn \/ OpenFails
  <1> USE DEF PollCheck, fpi_ssm_jump_to_state, recover_and_fail,
              activate_ssm_failed, session, identity
  <1>1. CASE WaitReadyCheck
    BY <1>1 DEF WaitReadyCheck, LoopEnds, LoopGoesOn, OpenFails, LoopEndEdges,
                LoopAgainEdges, LoopLimit
  <1>2. CASE AutoPowerPollCheck
    BY <1>2 DEF AutoPowerPollCheck, LoopEnds, LoopGoesOn, OpenFails, LoopEndEdges,
                LoopAgainEdges, LoopLimit
  <1>3. CASE AutoPowerPoll2Check
    BY <1>3 DEF AutoPowerPoll2Check, LoopEnds, LoopGoesOn, OpenFails, LoopEndEdges,
                LoopAgainEdges, LoopLimit
  <1>4. QED
    BY <1>1, <1>2, <1>3

LEMMA DownloadSteps ==
  ASSUME FwStepEnd \/ FwStepRead \/ FwStepSend \/ FwStepDelay \/ FwNext
  PROVE  EntryRuns \/ EntryIsDone \/ DownloadEnds
  <1> USE DEF fpi_ssm_jump_to_state, session, counters
  <1>1. CASE FwStepEnd
    BY <1>1 DEF FwStepEnd, DownloadEnds
  <1>2. CASE FwStepRead \/ FwStepSend \/ FwStepDelay
    BY <1>2 DEF FwStepRead, FwStepSend, FwStepDelay, EntryRuns
  <1>3. CASE FwNext
    BY <1>3 DEF FwNext, EntryIsDone
  <1>4. QED
    BY <1>1, <1>2, <1>3

LEMMA OtherSteps ==
  ASSUME \/ RecheckMcuState /\ ~is_mcu_alive(reg_buf)
         \/ ArmVerifyCheck /\ reg_buf[1] # CAPTURE_READY_MAGIC
         \/ StoreDimWidth \/ StoreDimHeight \/ TransferFails
         \/ HuntingBusy \/ HuntingRearm \/ HuntingReload \/ HuntingGiveUp
  PROVE  DownloadStarts \/ StoresSize \/ ArmsAgain \/ OpenFails \/ OpenSucceeds
  <1> USE DEF fpi_ssm_jump_to_state, session, counters, identity, start_download,
              activate_ssm_failed, activate_ssm_completed, recover_and_fail
  <1>1. CASE RecheckMcuState /\ ~is_mcu_alive(reg_buf)
    BY <1>1 DEF RecheckMcuState, DownloadStarts, OpenFails
  <1>2. CASE ArmVerifyCheck /\ reg_buf[1] # CAPTURE_READY_MAGIC
    BY <1>2 DEF ArmVerifyCheck, OpenFails
  <1>3. CASE StoreDimWidth \/ StoreDimHeight
    BY <1>3 DEF StoreDimWidth, StoreDimHeight, StoresSize, OpenFails
  <1>4. CASE TransferFails
    <2>1. task_ssm # "NULL"
      BY <1>4, ReadRows, WriteRows DEF TransferFails, TransferState
    <2>2. QED
      BY <1>4, <2>1 DEF TransferFails, OpenFails
  <1>5. CASE HuntingBusy \/ HuntingGiveUp
    BY <1>5 DEF HuntingBusy, HuntingGiveUp, OpenSucceeds
  <1>6. CASE HuntingRearm
    BY <1>6 DEF HuntingRearm, ArmsAgain
  <1>7. CASE HuntingReload
    BY <1>7 DEF HuntingReload, DownloadStarts, OpenFails
  <1>8. QED
    BY <1>1, <1>2, <1>3, <1>4, <1>5, <1>6, <1>7

(* Every step is of one of the kinds. *)
LEMMA StepKinds ==
  ASSUME IInv, Next
  PROVE  dev_open \/ Moves \/ OpenFails \/ OpenSucceeds \/ Rests
  <1>1. CASE dev_open_claim_fails \/ dev_close \/ Cancel
    BY <1>1 DEF dev_open_claim_fails, dev_close, Cancel, Rests, identity, image, counters
  <1>2. CASE activate_run_state
    BY <1>2, QuietSteps, LoopSteps, DownloadSteps, OtherSteps
    DEF activate_run_state, Moves
  <1>3. QED
    BY <1>1, <1>2 DEF Next

(* A move of the machine is one to another state of it. *)
LEMMA MovesMove ==
  ASSUME Moves
  PROVE  task_ssm # "NULL" /\ task_ssm' # "NULL" /\ task_ssm' # task_ssm
         /\ device' = device
  <1>1. CASE QuietMove
    BY <1>1, QuietStates DEF QuietMove
  <1>2. CASE ~QuietMove
    BY <1>2 DEF Moves, LoopEnds, LoopGoesOn, LoopEndEdges, LoopAgainEdges,
                StoresSize, DownloadStarts, EntryRuns, EntryIsDone, DownloadEnds, ArmsAgain
  <1>3. QED
    BY <1>1, <1>2

(* Which part of the history a step extends. *)
LEMMA WhatIsObserved ==
  ASSUME IInv, HistoryNext
  PROVE  \/ dev_open /\ ObserveOpen
         \/ Moves /\ ObserveStep
         \/ (OpenFails \/ OpenSucceeds \/ Rests) /\ ObserveEnd
  <1>1. CASE dev_open
    BY <1>1 DEF HistoryNext, Opens, dev_open
  <1>2. CASE Moves
    BY <1>2, MovesMove DEF HistoryNext, Opens, Continues
  <1>3. CASE OpenFails \/ OpenSucceeds \/ Rests
    <2>1. ~Opens
      BY <1>3 DEF Opens, OpenFails, OpenSucceeds, Rests
    <2>2. ~Continues \/ task_ssm' = task_ssm
      BY <1>3 DEF Continues, OpenFails, OpenSucceeds, Rests
    <2>3. QED
      BY <1>3, <2>1, <2>2 DEF HistoryNext
  <1>4. QED
    BY <1>1, <1>2, <1>3, StepKinds DEF HistoryNext

-----------------------------------------------------------------------------
(* Each part of the invariant is kept by the moves, and by the rest. *)
LEMMA PreparedStays ==
  ASSUME IInv, PreparedInv, Moves, ObservePrepared
  PROVE  PreparedInv'
  <1> USE DEF PreparedInv
  <1>1. device' = device /\ task_ssm # "NULL" /\ device # "open"
    BY MovesMove DEF IInv, OwnsOnlyWhatItUses
  <1>2. prepared' \subseteq Preparations
    BY DEF ObservePrepared, Preparations
  <1>3. CASE QuietMove
    <2>1. PICK e \in QuietEdges : e[1] = task_ssm /\ e[2] = task_ssm'
      BY <1>3 DEF QuietMove
    <2>2. ~SendsImage
      BY <2>1, QuietStates DEF SendsImage, From, Downloading
    <2>3. prepared \subseteq prepared'
      BY <2>2 DEF ObservePrepared
    <2>4. task_ssm = "ACTIVATE_CONFIG_WRITE_23" => "configured" \in prepared'
      BY <2>2 DEF ObservePrepared, From
    <2>5. task_ssm = "ACTIVATE_ARM_VERIFY_CHECK" => "armed" \in prepared'
      BY <2>2 DEF ObservePrepared, From
    <2>6. task_ssm = "ACTIVATE_AUTO_POWER_SET_2" => "detecting" \in prepared'
      BY <2>2 DEF ObservePrepared, From
    <2>7. UNCHANGED <<sensor_width, sensor_height>>
      BY <1>3 DEF QuietMove
    <2>8. QED
      BY <1>1, <1>2, <2>1, <2>3, <2>4, <2>5, <2>6, <2>7, QuietPreparations
  <1>4. CASE LoopEnds \/ LoopGoesOn
    BY <1>1, <1>2, <1>4
    DEF LoopEnds, LoopGoesOn, LoopEndEdges, LoopAgainEdges, ObservePrepared, From,
        SendsImage, Ready, Sized, Configured, Armed, Detecting
  <1>5. CASE StoresSize \/ ArmsAgain
    BY <1>1, <1>2, <1>5
    DEF StoresSize, ArmsAgain, ObservePrepared, From, SendsImage,
        Ready, Sized, Configured, Armed, Detecting
  <1>6. CASE DownloadStarts \/ EntryRuns \/ EntryIsDone \/ DownloadEnds
    BY <1>1, <1>2, <1>6
    DEF DownloadStarts, EntryRuns, EntryIsDone, DownloadEnds,
        Ready, Sized, Configured, Armed, Detecting
  <1>7. QED
    BY <1>3, <1>4, <1>5, <1>6 DEF Moves

LEMMA PollsStay ==
  ASSUME IInv, PollsInv, Moves, ObservePolls
  PROVE  PollsInv'
  <1> USE DEF PollsInv
  <1>1. retry_count \in Nat /\ MCU_READY_MAX_POLLS \in Nat /\ AUTO_POWER_MAX_RETRY \in Nat
    BY LimitAssumption DEF IInv, TypeOK
  <1>2. task_ssm # "NULL" /\ task_ssm' # "NULL"
    BY MovesMove
  <1>3. WaitReads \cap WaitOthers = {}
    BY DEF WaitReads, WaitOthers
  <1>4. polls' \in Nat
    BY <1>3 DEF ObservePolls, From
  <1>5. CASE QuietMove
    <2>1. PICK e \in QuietEdges : e[1] = task_ssm /\ e[2] = task_ssm'
      BY <1>5 DEF QuietMove
    <2>2. retry_count' = retry_count
      BY <1>5 DEF QuietMove, counters
    <2>3. task_ssm \notin LoopChecks
      BY <2>1, QuietLoops
    <2>4. CASE task_ssm \in WaitReads
      <3>1. polls' = polls + 1 /\ polls = retry_count /\ retry_count <= LoopLimit(task_ssm)
        BY <1>3, <2>3, <2>4 DEF ObservePolls, From, LoopStates
      <3>2. task_ssm' \in LoopChecks /\ task_ssm' \in LoopStates
            /\ LoopLimit(task_ssm') = LoopLimit(task_ssm)
        BY <2>1, <2>4, QuietLoops DEF LoopStates
      <3>3. QED
        BY <1>4, <2>2, <3>1, <3>2
    <2>5. CASE task_ssm \in WaitOthers /\ task_ssm \notin WaitReads
      <3>1. polls' = polls /\ polls = retry_count /\ retry_count <= LoopLimit(task_ssm)
        BY <1>3, <2>3, <2>5 DEF ObservePolls, From, LoopStates
      <3>2. task_ssm' \notin LoopChecks /\ task_ssm' \in LoopStates
            /\ LoopLimit(task_ssm') = LoopLimit(task_ssm)
        BY <2>1, <2>5, QuietLoops DEF LoopStates
      <3>3. QED
        BY <1>4, <2>2, <3>1, <3>2
    <2>6. CASE task_ssm \notin LoopStates
      <3>1. polls' = 0 /\ retry_count = 0
        BY <1>2, <2>6 DEF ObservePolls, From, LoopStates
      <3>2. task_ssm' \notin LoopChecks
        BY <2>1, <2>6, QuietLoops DEF LoopStates
      <3>3. retry_count' <= LoopLimit(task_ssm')
        BY <1>1, <2>2, <3>1 DEF LoopLimit
      <3>4. QED
        BY <2>2, <3>1, <3>2, <3>3
    <2>7. QED
      BY <2>4, <2>5, <2>6 DEF LoopStates
  <1>6. CASE LoopEnds
    BY <1>1, <1>4, <1>6
    DEF LoopEnds, LoopEndEdges, LoopStates, LoopChecks, WaitReads, WaitOthers
  <1>7. CASE LoopGoesOn
    <2>1. /\ task_ssm \in LoopChecks /\ task_ssm \notin WaitReads /\ task_ssm \in WaitOthers
          /\ task_ssm' \in LoopStates \ LoopChecks
          /\ LoopLimit(task_ssm') = LoopLimit(task_ssm)
      BY <1>7 DEF LoopGoesOn, LoopAgainEdges, LoopStates, LoopChecks, LoopLimit,
                  WaitReads, WaitOthers
    <2>2. polls' = polls /\ polls = retry_count + 1
      BY <2>1 DEF ObservePolls, From
    <2>3. retry_count' = retry_count + 1 /\ retry_count < LoopLimit(task_ssm)
      BY <1>7 DEF LoopGoesOn
    <2>4. LoopLimit(task_ssm) \in Nat
      BY <1>1 DEF LoopLimit
    <2>5. QED
      BY <1>1, <1>2, <1>4, <2>1, <2>2, <2>3, <2>4
  <1>8. CASE \/ StoresSize \/ DownloadStarts \/ EntryRuns \/ EntryIsDone
             \/ DownloadEnds \/ ArmsAgain
    <2>1. /\ task_ssm \notin LoopStates
          /\ task_ssm' \notin LoopChecks
          /\ retry_count' = retry_count
      BY <1>8 DEF StoresSize, DownloadStarts, EntryRuns, EntryIsDone, DownloadEnds,
                  ArmsAgain, LoopStates, LoopChecks, WaitReads, WaitOthers, counters
    <2>2. polls' = 0 /\ retry_count' = 0
      BY <1>2, <2>1 DEF ObservePolls, From, LoopStates
    <2>3. retry_count' <= LoopLimit(task_ssm')
      BY <1>1, <2>2 DEF LoopLimit
    <2>4. QED
      BY <2>1, <2>2, <2>3
  <1>9. QED
    BY <1>5, <1>6, <1>7, <1>8 DEF Moves

LEMMA RearmsStay ==
  ASSUME IInv, DownloadsInv, RearmsInv, Moves, ObserveRearms
  PROVE  RearmsInv'
  <1> USE DEF RearmsInv, ObserveRearms, From
  <1>1. task_ssm # "NULL"
    BY MovesMove
  <1>2. CASE QuietMove
    <2>1. task_ssm # "ACTIVATE_AUTO_POWER_HUNTING_CHECK"
      BY <1>2 DEF QuietMove, QuietEdges, RegisterReads, RegisterWrites, Delays
    <2>2. QED
      BY <1>1, <1>2, <2>1 DEF QuietMove, counters
  <1>3. CASE LoopEnds \/ LoopGoesOn
    BY <1>1, <1>3 DEF LoopEnds, LoopGoesOn, LoopEndEdges, LoopAgainEdges
  <1>4. CASE DownloadStarts
    <2>1. task_ssm = "ACTIVATE_RECHECK_MCU_STATE" => ~fw_reloaded'
      BY <1>4 DEF DownloadStarts, DownloadsInv, Asking
    <2>2. QED
      BY <1>1, <1>4, <2>1 DEF DownloadStarts
  <1>5. CASE StoresSize \/ EntryRuns \/ EntryIsDone \/ DownloadEnds \/ ArmsAgain
    BY <1>1, <1>5
    DEF StoresSize, EntryRuns, EntryIsDone, DownloadEnds, ArmsAgain, counters
  <1>6. QED
    BY <1>2, <1>3, <1>4, <1>5 DEF Moves

(* The entry of the image lies before the last one, and there is no other. *)
LEMMA OneImageEntry ==
  \E image_entry \in 1..(Len(ft9201_firmware_script) - 1) :
    \A i \in 1..Len(ft9201_firmware_script) :
      ft9201_firmware_script[i].kind = "SEND_IMAGE" <=> i = image_entry
  <1>1. PICK image_entry \in 1..Len(ft9201_firmware_script) :
          \A i \in 1..Len(ft9201_firmware_script) :
            ft9201_firmware_script[i].kind = "SEND_IMAGE" <=> i = image_entry
    BY ImageAssumption
  <1>2. image_entry # Len(ft9201_firmware_script)
    BY <1>1, ScriptFacts
  <1>3. image_entry \in 1..(Len(ft9201_firmware_script) - 1)
    BY <1>2, ScriptFacts
  <1>4. QED
    BY <1>1, <1>3

(* So the image is behind the machine when the entry is. *)
LEMMA ImageIsBehind ==
  ASSUME IInv, NEW image_entry \in 1..(Len(ft9201_firmware_script) - 1),
         \A i \in 1..Len(ft9201_firmware_script) :
           ft9201_firmware_script[i].kind = "SEND_IMAGE" <=> i = image_entry
  PROVE  /\ task_ssm = "ACTIVATE_FW_NEXT" => (ImageSent <=> image_entry <= fw_step + 1)
         /\ task_ssm # "ACTIVATE_FW_NEXT" => (ImageSent <=> image_entry <= fw_step)
         /\ op.kind = "SEND_IMAGE" <=> fw_step + 1 = image_entry
         /\ op.kind = "END" <=> fw_step + 1 = Len(ft9201_firmware_script)
  <1>1. Len(ft9201_firmware_script) \in Nat \ {0} /\ fw_step \in 0..(Len(ft9201_firmware_script) - 1)
    BY ScriptFacts DEF IInv, TypeOK
  <1>2. ImageSent <=> image_entry \in Executed
    BY <1>1 DEF ImageSent, Executed
  <1>3. fw_step + 1 \in 1..Len(ft9201_firmware_script)
    BY <1>1
  <1>4. QED
    BY <1>1, <1>2, <1>3, ScriptFacts DEF Executed, op

LEMMA DownloadsStay ==
  ASSUME IInv, DownloadsInv, silent \in BOOLEAN, Moves, ObserveStep
  PROVE  DownloadsInv'
  <1> USE DEF Downloading
  <1>1. PICK image_entry \in 1..(Len(ft9201_firmware_script) - 1) :
          \A i \in 1..Len(ft9201_firmware_script) :
            ft9201_firmware_script[i].kind = "SEND_IMAGE" <=> i = image_entry
    BY OneImageEntry
  <1>2. /\ fw_step \in Nat /\ image_entry \in Nat \ {0}
        /\ Len(ft9201_firmware_script) \in Nat
        /\ image_entry < Len(ft9201_firmware_script)
        /\ silent \in BOOLEAN /\ fw_reloaded \in BOOLEAN
        /\ downloads \in Nat /\ Reasons \in Nat /\ Reasons <= 2
        /\ downloads <= Reasons
    BY ScriptFacts DEF IInv, TypeOK, DownloadsInv, Reasons
  <1>3. task_ssm # "NULL" /\ task_ssm' # "NULL"
    BY MovesMove
  <1>4. CASE QuietMove \/ LoopEnds \/ LoopGoesOn \/ StoresSize \/ ArmsAgain
    <2>1. /\ task_ssm \notin Downloading /\ task_ssm' \notin Downloading
          /\ task_ssm' \in Asking => task_ssm \in Asking
          /\ fw_reloaded' = fw_reloaded
      <3>1. CASE QuietMove
        BY <3>1, QuietStates DEF QuietMove
      <3>2. CASE LoopEnds \/ LoopGoesOn \/ StoresSize \/ ArmsAgain
        BY <3>2 DEF LoopEnds, LoopGoesOn, LoopEndEdges, LoopAgainEdges, StoresSize,
                    ArmsAgain, Asking
      <3>3. QED
        BY <1>4, <3>1, <3>2
    <2>2. downloads' = downloads /\ silent' = silent
      BY <1>2, <2>1 DEF ObserveStep, ObserveDownloads, SendsImage, From
    <2>3. Reasons' = Reasons
      BY <2>1, <2>2 DEF Reasons
    <2>4. QED
      BY <1>3, <2>1, <2>2, <2>3 DEF DownloadsInv
  <1>5. CASE DownloadStarts
    <2>1. downloads' = downloads
      BY <1>5 DEF DownloadStarts, ObserveStep, ObserveDownloads, SendsImage, From
    <2>2. Reasons' = Reasons + 1
      <3>1. CASE task_ssm = "ACTIVATE_RECHECK_MCU_STATE"
        <4>1. ~silent /\ ~fw_reloaded
          BY <3>1 DEF DownloadsInv, Asking
        <4>2. silent' = TRUE /\ fw_reloaded' = fw_reloaded
          BY <1>5, <3>1 DEF DownloadStarts, ObserveStep, From
        <4>3. QED
          BY <4>1, <4>2 DEF Reasons
      <3>2. CASE task_ssm = "ACTIVATE_AUTO_POWER_HUNTING_CHECK"
        <4>1. ~fw_reloaded /\ fw_reloaded' = TRUE
          BY <1>5, <3>2 DEF DownloadStarts
        <4>2. silent' = silent
          BY <1>2, <3>2 DEF ObserveStep, From
        <4>3. QED
          BY <1>2, <4>1, <4>2 DEF Reasons
      <3>3. QED
        BY <1>5, <3>1, <3>2 DEF DownloadStarts
    <2>3. ~ImageSent'
      BY <1>2, <1>5 DEF DownloadStarts, ImageSent, Executed
    <2>4. QED
      BY <1>2, <1>5, <2>1, <2>2, <2>3 DEF DownloadStarts, DownloadsInv, Asking
  <1>6. CASE EntryRuns
    <2>1. /\ task_ssm = "ACTIVATE_FW_STEP" /\ task_ssm' = "ACTIVATE_FW_NEXT"
          /\ fw_step' = fw_step /\ fw_reloaded' = fw_reloaded /\ silent' = silent
      BY <1>2, <1>6 DEF EntryRuns, ObserveStep, From
    <2>2. Reasons' = Reasons
      BY <2>1 DEF Reasons
    <2>3. /\ ImageSent <=> image_entry <= fw_step
          /\ op.kind = "SEND_IMAGE" <=> fw_step + 1 = image_entry
      BY <1>1, <2>1, ImageIsBehind
    <2>4. ImageSent' <=> image_entry <= fw_step + 1
      <3>1. fw_step' \in Nat /\ Len(ft9201_firmware_script) \in Nat
        BY <1>2, <2>1
      <3>2. ImageSent' <=> image_entry \in Executed'
        BY <1>1, <3>1 DEF ImageSent, Executed
      <3>3. image_entry \in Executed' <=> image_entry <= fw_step + 1
        BY <1>2, <2>1 DEF Executed
      <3>4. QED
        BY <3>2, <3>3
    <2>5. downloads' = IF fw_step + 1 = image_entry /\ downloads < 3
                       THEN downloads + 1 ELSE downloads
      BY <2>1, <2>3 DEF ObserveStep, ObserveDownloads, SendsImage, From
    <2>6. QED
      BY <1>2, <2>1, <2>2, <2>3, <2>4, <2>5 DEF DownloadsInv, Asking
  <1>7. CASE EntryIsDone
    <2>1. /\ task_ssm = "ACTIVATE_FW_NEXT" /\ task_ssm' = "ACTIVATE_FW_STEP"
          /\ fw_step' = fw_step + 1 /\ fw_reloaded' = fw_reloaded
          /\ silent' = silent /\ downloads' = downloads
      BY <1>2, <1>7 DEF EntryIsDone, ObserveStep, ObserveDownloads, SendsImage, From
    <2>2. Reasons' = Reasons
      BY <2>1 DEF Reasons
    <2>3. Executed' = Executed
      BY <2>1 DEF Executed
    <2>4. ImageSent' <=> ImageSent
      BY <2>3 DEF ImageSent
    <2>5. QED
      BY <1>2, <2>1, <2>2, <2>4 DEF DownloadsInv, Asking
  <1>8. CASE DownloadEnds
    <2>1. /\ task_ssm = "ACTIVATE_FW_STEP" /\ task_ssm' = "ACTIVATE_WAIT_READY_READ"
          /\ op.kind = "END"
          /\ fw_reloaded' = fw_reloaded /\ silent' = silent /\ downloads' = downloads
      BY <1>2, <1>8 DEF DownloadEnds, ObserveStep, ObserveDownloads, SendsImage, From
    <2>2. Reasons' = Reasons
      BY <2>1 DEF Reasons
    <2>3. ImageSent
      BY <1>1, <1>2, <2>1, ImageIsBehind
    <2>4. QED
      BY <1>2, <2>1, <2>2, <2>3 DEF DownloadsInv, Asking
  <1>9. QED
    BY <1>4, <1>5, <1>6, <1>7, <1>8 DEF Moves

(* An answer stays the expected one until the decision is made on it. *)
LEMMA AnswersStay ==
  ASSUME DecidesOnItsOwnAnswer, Next, Moves, ObserveStep
  PROVE  DecidesOnItsOwnAnswer'
  <1>1. CASE ReadRegister
    <2>1. PICK r \in RegisterReads : task_ssm = r[1] /\ task_ssm' = r[3]
      BY <1>1 DEF ReadRegister, fpi_ssm_jump_to_state
    <2>2. (CHOOSE q \in RegisterReads : q[1] = task_ssm)[2] = r[2]
      BY <2>1, ReadsDiffer
    <2>3. answered' = r[2]
      BY <2>1, <2>2 DEF ObserveStep, ObserveAnswered, From
    <2>4. task_ssm' # "ACTIVATE_FW_NEXT"
      BY <2>1, ReadRows
    <2>5. QED
      BY <2>1, <2>3, <2>4, ReadsAreExpected DEF DecidesOnItsOwnAnswer
  <1>2. CASE FwStepRead \/ FwStepSend \/ FwStepDelay
    <2>1. /\ task_ssm = "ACTIVATE_FW_STEP" /\ task_ssm' = "ACTIVATE_FW_NEXT"
          /\ fw_step' = fw_step
      BY <1>2 DEF FwStepRead, FwStepSend, FwStepDelay, fpi_ssm_jump_to_state
    <2>2. \A r \in RegisterReads : r[1] # task_ssm
      BY <2>1 DEF RegisterReads
    <2>3. op.kind = "IN" => answered' = op.request
      BY <2>1, <2>2 DEF ObserveStep, ObserveAnswered, From
    <2>4. op' = op
      BY <2>1 DEF op
    <2>5. QED
      BY <2>1, <2>3, <2>4, OnlyReadsLeadToDecisions DEF DecidesOnItsOwnAnswer
  <1>3. ASSUME ~ReadRegister, ~(FwStepRead \/ FwStepSend \/ FwStepDelay)
        PROVE  task_ssm' \notin DOMAIN ExpectedAnswer /\ task_ssm' # "ACTIVATE_FW_NEXT"
    <2>1. CASE WriteRegister \/ DelayElapsed
      <3>1. PICK e \in RegisterWrites \cup Delays : task_ssm' = e[2]
        BY <2>1 DEF WriteRegister, DelayElapsed, fpi_ssm_jump_to_state
      <3>2. QED
        BY <3>1, WriteRows, DelayRows, OnlyReadsLeadToDecisions
    <2>2. CASE WaitReadyCheck \/ AutoPowerPollCheck \/ AutoPowerPoll2Check
      BY <2>2, MovesMove, OnlyReadsLeadToDecisions
      DEF WaitReadyCheck, AutoPowerPollCheck, AutoPowerPoll2Check, PollCheck,
          fpi_ssm_jump_to_state, recover_and_fail, activate_ssm_failed
    <2>3. CASE CheckMcuState \/ RecheckMcuState \/ CheckCaptureReady \/ ArmVerifyCheck
      BY <2>3, MovesMove, OnlyReadsLeadToDecisions
      DEF CheckMcuState, RecheckMcuState, CheckCaptureReady, ArmVerifyCheck,
          fpi_ssm_jump_to_state, start_download, recover_and_fail, activate_ssm_failed
    <2>4. CASE StoreChipIdHigh \/ StoreChipIdLow \/ StoreDimWidth \/ StoreDimHeight
      BY <2>4, MovesMove, OnlyReadsLeadToDecisions
      DEF StoreChipIdHigh, StoreChipIdLow, StoreDimWidth, StoreDimHeight,
          fpi_ssm_jump_to_state, recover_and_fail, activate_ssm_failed
    <2>5. CASE HuntingBusy \/ HuntingRearm \/ HuntingReload \/ HuntingGiveUp
      BY <2>5, MovesMove, OnlyReadsLeadToDecisions
      DEF HuntingBusy, HuntingRearm, HuntingReload, HuntingGiveUp,
          fpi_ssm_jump_to_state, start_download, activate_ssm_failed,
          activate_ssm_completed
    <2>6. CASE FwStepEnd \/ FwNext \/ TransferFails
      BY <2>6, MovesMove, OnlyReadsLeadToDecisions
      DEF FwStepEnd, FwNext, TransferFails, fpi_ssm_jump_to_state, activate_ssm_failed
    <2>7. ~(dev_open \/ dev_open_claim_fails \/ dev_close \/ Cancel)
      BY MovesMove DEF dev_open, dev_open_claim_fails, dev_close, Cancel
    <2>8. QED
      BY <1>3, <2>1, <2>2, <2>3, <2>4, <2>5, <2>6, <2>7 DEF Next, activate_run_state
  <1>4. QED
    BY <1>1, <1>2, <1>3 DEF DecidesOnItsOwnAnswer

LEMMA SilentIsBoolean ==
  ASSUME silent \in BOOLEAN, ObserveOpen \/ ObserveStep \/ ObserveEnd
  PROVE  silent' \in BOOLEAN
  <1>1. CASE ObserveOpen
    BY <1>1, Zenon DEF ObserveOpen
  <1>2. CASE ObserveStep
    BY <1>2, Zenon DEF ObserveStep
  <1>3. CASE ObserveEnd
    BY <1>3, Zenon DEF ObserveEnd
  <1>4. QED
    BY <1>1, <1>2, <1>3

LEMMA OpeningKeepsHInv ==
  ASSUME dev_open, ObserveOpen
  PROVE  PreparedInv' /\ DownloadsInv' /\ PollsInv' /\ RearmsInv' /\ DecidesOnItsOwnAnswer'
  <1> USE DEF dev_open, ObserveOpen
  <1>1. PreparedInv'
    BY DEF PreparedInv, Ready, Sized, Configured, Armed, Detecting
  <1>2. DownloadsInv'
    <2>1. silent' = FALSE /\ fw_reloaded' = FALSE /\ downloads' = 0
      OBVIOUS
    <2>2. Reasons' = 0
      BY <2>1 DEF Reasons
    <2>3. QED
      BY <2>1, <2>2 DEF DownloadsInv, Downloading
  <1>3. PollsInv'
    BY LimitAssumption DEF PollsInv, LoopStates, LoopChecks, LoopLimit, WaitReads, WaitOthers
  <1>4. RearmsInv'
    BY DEF RearmsInv
  <1>5. DecidesOnItsOwnAnswer'
    BY OnlyReadsLeadToDecisions DEF DecidesOnItsOwnAnswer
  <1>6. QED
    BY <1>1, <1>2, <1>3, <1>4, <1>5

LEMMA EndsKeepHInv ==
  ASSUME IInv, IInv', HInv, OpenFails \/ OpenSucceeds \/ Rests, ObserveEnd
  PROVE  PreparedInv' /\ DownloadsInv' /\ PollsInv' /\ RearmsInv' /\ DecidesOnItsOwnAnswer'
  <1>1. /\ PreparedInv /\ DownloadsInv /\ PollsInv /\ RearmsInv
        /\ DecidesOnItsOwnAnswer
        /\ silent \in BOOLEAN
    BY DEF HInv
  <1>2. UNCHANGED <<answered, polls, rearms, downloads, prepared>>
    BY DEF ObserveEnd
  <1>3. CASE OpenFails \/ OpenSucceeds
    <2>1. task_ssm' = "NULL" /\ task_ssm # "NULL" /\ device' \in {"open", "closed"}
      BY <1>3 DEF OpenFails, OpenSucceeds
    <2>2. PreparedInv'
      <3>1. CASE OpenFails
        BY <1>1, <1>2, <3>1
        DEF OpenFails, PreparedInv, Ready, Sized, Configured, Armed, Detecting
      <3>2. CASE OpenSucceeds
        <4>1. prepared = Preparations /\ sensor_width # 0 /\ sensor_height # 0
          BY <1>1, <3>2
          DEF OpenSucceeds, PreparedInv, Ready, Sized, Configured, Armed, Detecting,
              Preparations
        <4>2. QED
          BY <1>2, <2>1, <3>2, <4>1
          DEF OpenSucceeds, PreparedInv, Ready, Sized, Configured, Armed, Detecting
      <3>3. QED
        BY <1>3, <3>1, <3>2
    <2>3. DownloadsInv'
      <3>1. silent => silent'
        BY <1>1 DEF ObserveEnd
      <3>2. fw_reloaded => fw_reloaded'
        BY <1>3 DEF OpenFails, OpenSucceeds
      <3>3. Reasons <= Reasons' /\ Reasons \in Nat /\ Reasons' \in Nat
        BY <3>1, <3>2 DEF Reasons
      <3>4. QED
        BY <1>1, <1>2, <2>1, <3>3 DEF DownloadsInv, Asking, Downloading
    <2>4. PollsInv'
      BY <1>1, <1>2, <2>1
      DEF PollsInv, LoopStates, LoopChecks, WaitReads, WaitOthers
    <2>5. RearmsInv'
      BY <2>1 DEF RearmsInv
    <2>6. DecidesOnItsOwnAnswer'
      BY <2>1, OnlyReadsLeadToDecisions DEF DecidesOnItsOwnAnswer
    <2>7. QED
      BY <2>2, <2>3, <2>4, <2>5, <2>6
  <1>4. CASE Rests
    <2>1. /\ UNCHANGED <<task_ssm, sensor_width, sensor_height, fw_step, fw_reloaded,
                         retry_count, rearm_retries>>
          /\ device' \in {device, "closed"}
      BY <1>4 DEF Rests, counters
    <2>2. silent' = silent
      BY <1>1, <2>1 DEF ObserveEnd, From
    <2>3. PreparedInv'
      BY <1>1, <1>2, <2>1 DEF PreparedInv
    <2>4. DownloadsInv'
      BY <1>1, <1>2, <2>1, <2>2 DEF DownloadsInv, Reasons, ImageSent, Executed
    <2>5. PollsInv' /\ RearmsInv' /\ DecidesOnItsOwnAnswer'
      BY <1>1, <1>2, <2>1
      DEF PollsInv, RearmsInv, DecidesOnItsOwnAnswer, LoopLimit, op
    <2>6. QED
      BY <2>3, <2>4, <2>5
  <1>5. QED
    BY <1>3, <1>4

LEMMA InitHInv == HistoryInit => HInv
  <1> SUFFICES ASSUME HistoryInit PROVE HInv
    OBVIOUS
  <1> USE DEF HistoryInit, Init
  <1>1. PreparedInv
    BY DEF PreparedInv, Ready, Sized, Configured, Armed, Detecting
  <1>2. DownloadsInv
    <2>1. silent = FALSE /\ fw_reloaded = FALSE /\ downloads = 0 /\ task_ssm = "NULL"
      OBVIOUS
    <2>2. Reasons = 0
      BY <2>1 DEF Reasons
    <2>3. QED
      BY <2>1, <2>2 DEF DownloadsInv, Downloading, Asking
  <1>3. PollsInv /\ RearmsInv
    BY DEF PollsInv, RearmsInv, LoopStates, LoopChecks, WaitReads, WaitOthers
  <1>4. DecidesOnItsOwnAnswer
    BY OnlyReadsLeadToDecisions DEF DecidesOnItsOwnAnswer
  <1>5. silent \in BOOLEAN
    BY Zenon
  <1>6. QED
    BY <1>1, <1>2, <1>3, <1>4, <1>5 DEF HInv

LEMMA NextKeepsHInv ==
  ASSUME IInv, IInv', HInv, HistoryNext
  PROVE  HInv'
  <1>1. Next
    BY DEF HistoryNext
  <1>2. silent' \in BOOLEAN
    BY WhatIsObserved, SilentIsBoolean DEF HInv
  <1>3. CASE Moves /\ ObserveStep
    <2>1. PreparedInv' /\ PollsInv' /\ RearmsInv'
      BY <1>3, PreparedStays, PollsStay, RearmsStay DEF HInv, ObserveStep
    <2>2. DownloadsInv' /\ DecidesOnItsOwnAnswer'
      BY <1>1, <1>3, DownloadsStay, AnswersStay DEF HInv
    <2>3. QED
      BY <1>2, <2>1, <2>2 DEF HInv
  <1>4. QED
    BY <1>2, <1>3, WhatIsObserved, OpeningKeepsHInv, EndsKeepHInv DEF HInv

LEMMA StutterKeepsHInv ==
  ASSUME HInv, UNCHANGED hvars
  PROVE  HInv'
  BY DEF HInv, hvars, vars, history, session, identity, image, counters,
         PreparedInv, DownloadsInv, PollsInv, RearmsInv, DecidesOnItsOwnAnswer,
         LoopLimit, Reasons, ImageSent, Executed, op

(* A check of a loop is left by the loop alone, and the machine completes  *)
(* only at its last decision.                                              *)
LEMMA OnlyLoopsLeaveTheirChecks ==
  ASSUME IInv, Next, task_ssm \in LoopChecks, task_ssm' # task_ssm
  PROVE  WaitReadyCheck \/ AutoPowerPollCheck \/ AutoPowerPoll2Check
  <1> USE DEF LoopChecks
  <1>1. ~(ReadRegister \/ WriteRegister \/ DelayElapsed)
    BY DEF ReadRegister, WriteRegister, DelayElapsed, RegisterReads, RegisterWrites, Delays
  <1>2. ~TransferFails
    BY DEF TransferFails, TransferState, RegisterReads, RegisterWrites
  <1>3. ~(\/ FwStepEnd \/ FwStepRead \/ FwStepSend \/ FwStepDelay \/ FwNext
          \/ CheckMcuState \/ RecheckMcuState \/ CheckCaptureReady \/ ArmVerifyCheck)
    BY DEF FwStepEnd, FwStepRead, FwStepSend, FwStepDelay, FwNext, CheckMcuState,
           RecheckMcuState, CheckCaptureReady, ArmVerifyCheck
  <1>4. ~(\/ StoreChipIdHigh \/ StoreChipIdLow \/ StoreDimWidth \/ StoreDimHeight
          \/ HuntingBusy \/ HuntingRearm \/ HuntingReload \/ HuntingGiveUp)
    BY DEF StoreChipIdHigh, StoreChipIdLow, StoreDimWidth, StoreDimHeight,
           HuntingBusy, HuntingRearm, HuntingReload, HuntingGiveUp
  <1>5. ~(dev_open \/ dev_open_claim_fails \/ dev_close \/ Cancel)
    BY DEF dev_open, dev_open_claim_fails, dev_close, Cancel, IInv, OwnsOnlyWhatItUses
  <1>6. QED
    BY <1>1, <1>2, <1>3, <1>4, <1>5 DEF Next, activate_run_state

LEMMA OnlyHuntingCompletes ==
  ASSUME IInv, Next, OpenSucceeds, device = "opening", ~is_mcu_busy(reg_buf)
  PROVE  HuntingGiveUp
  <1>1. /\ task_ssm = "ACTIVATE_AUTO_POWER_HUNTING_CHECK" /\ task_ssm' = "NULL"
        /\ device' = "open"
    BY DEF OpenSucceeds
  <1>2. ~(ReadRegister \/ WriteRegister \/ DelayElapsed)
    BY <1>1 DEF ReadRegister, WriteRegister, DelayElapsed, RegisterReads,
                RegisterWrites, Delays
  <1>3. ~(TransferFails \/ HuntingReload \/ HuntingRearm \/ HuntingBusy)
    BY <1>1 DEF TransferFails, HuntingReload, HuntingRearm, HuntingBusy, start_download,
                activate_ssm_failed, fpi_ssm_jump_to_state, session
  <1>4. ~(\/ FwStepEnd \/ FwStepRead \/ FwStepSend \/ FwStepDelay \/ FwNext
          \/ CheckMcuState \/ RecheckMcuState \/ CheckCaptureReady \/ ArmVerifyCheck
          \/ WaitReadyCheck \/ AutoPowerPollCheck \/ AutoPowerPoll2Check)
    BY <1>1 DEF FwStepEnd, FwStepRead, FwStepSend, FwStepDelay, FwNext, CheckMcuState,
                RecheckMcuState, CheckCaptureReady, ArmVerifyCheck, WaitReadyCheck,
                AutoPowerPollCheck, AutoPowerPoll2Check, PollCheck
  <1>5. ~(StoreChipIdHigh \/ StoreChipIdLow \/ StoreDimWidth \/ StoreDimHeight)
    BY <1>1 DEF StoreChipIdHigh, StoreChipIdLow, StoreDimWidth, StoreDimHeight
  <1>6. ~(dev_open \/ dev_open_claim_fails \/ dev_close \/ Cancel)
    BY <1>1 DEF dev_open, dev_open_claim_fails, dev_close, Cancel
  <1>7. QED
    BY <1>2, <1>3, <1>4, <1>5, <1>6 DEF Next, activate_run_state

-----------------------------------------------------------------------------
(* The history never restricts the driver. *)
LEMMA HistoryStepIsAStep == [HistoryNext]_hvars => [Next]_vars
  BY DEF HistoryNext, hvars

(* What was prepared, sent and counted is in step with the machine: the    *)
(* inductive invariant of the history (activate_run_state).                *)
THEOREM HistoryInvariance == HistorySpec => [](IInv /\ HInv)
  <1>1. HistoryInit => IInv /\ HInv
    BY InitIInv, InitHInv DEF HistoryInit
  <1>2. IInv /\ HInv /\ [HistoryNext]_hvars => IInv' /\ HInv'
    BY NextIInv, HistoryStepIsAStep, NextKeepsHInv, StutterKeepsHInv
  <1>3. QED
    BY <1>1, <1>2, PTL DEF HistorySpec

(* Whatever the sensor answers and however often the driver armed it again *)
(* or sent its code again, an open device went through the whole           *)
(* preparation since its code last started, and has a size.                *)
THEOREM OpenDevicesArePrepared == HistorySpec => []OpenMeansPrepared
  <1>1. IInv /\ HInv => OpenMeansPrepared
    BY DEF IInv, TypeOK, Byte, HInv, PreparedInv, OpenMeansPrepared, Preparations
  <1>2. QED
    BY <1>1, HistoryInvariance, PTL

(* The image is sent once for a silent MCU and once for the recovery, at   *)
(* the most.                                                               *)
THEOREM DownloadsHaveReasons == HistorySpec => []EveryDownloadHasAReason
  <1>1. HInv => EveryDownloadHasAReason
    BY DEF HInv, DownloadsInv, Reasons, EveryDownloadHasAReason
  <1>2. QED
    BY <1>1, HistoryInvariance, PTL

(* No decision is made on the left-over answer of another read. *)
THEOREM DecisionsUseTheirAnswer == HistorySpec => []DecidesOnItsOwnAnswer
  <1>1. HInv => DecidesOnItsOwnAnswer
    BY DEF HInv
  <1>2. QED
    BY <1>1, HistoryInvariance, PTL

(* A loop that gives up saw its full number of answers: the shared counter *)
(* brings nothing from the loop or the open operation before.              *)
THEOREM LoopsUseTheirBudget == HistorySpec => GivesUpOnlyAfterFullBudget
  <1> DEFINE GivesUp ==
        /\ task_ssm \in {"ACTIVATE_WAIT_READY_CHECK",
                         "ACTIVATE_AUTO_POWER_POLL_CHECK",
                         "ACTIVATE_AUTO_POWER_POLL_2_CHECK"}
        /\ task_ssm' = "NULL"
        => polls = 1 + (IF task_ssm = "ACTIVATE_WAIT_READY_CHECK"
                        THEN MCU_READY_MAX_POLLS ELSE AUTO_POWER_MAX_RETRY)
  <1>1. ASSUME IInv, HInv, HistoryNext
        PROVE  GivesUp
    <2>1. SUFFICES ASSUME task_ssm \in LoopChecks, task_ssm' = "NULL"
                   PROVE  polls = 1 + LoopLimit(task_ssm)
      BY DEF LoopChecks, LoopLimit
    <2>2. WaitReadyCheck \/ AutoPowerPollCheck \/ AutoPowerPoll2Check
      BY <1>1, <2>1, OnlyLoopsLeaveTheirChecks DEF HistoryNext, LoopChecks
    <2>3. retry_count \in Nat /\ retry_count <= LoopLimit(task_ssm) /\ polls = retry_count + 1
      BY <1>1, <2>1
      DEF IInv, TypeOK, HInv, PollsInv, LoopChecks, LoopStates, WaitReads, WaitOthers
    <2>4. retry_count >= LoopLimit(task_ssm)
      BY <2>1, <2>2
      DEF WaitReadyCheck, AutoPowerPollCheck, AutoPowerPoll2Check, PollCheck, LoopLimit,
          fpi_ssm_jump_to_state
    <2>5. LoopLimit(task_ssm) \in Nat
      BY LimitAssumption DEF LoopLimit
    <2>6. QED
      BY <2>3, <2>4, <2>5
  <1>2. IInv /\ HInv /\ [HistoryNext]_hvars => [GivesUp]_hvars
    BY <1>1
  <1>3. HistorySpec => [][GivesUp]_hvars
    BY <1>2, HistoryInvariance, PTL DEF HistorySpec
  <1>4. QED
    BY <1>3 DEF GivesUpOnlyAfterFullBudget

(* An open that succeeds without a hunting MCU sent the image again and    *)
(* armed the sensor the full number of times after it.                     *)
THEOREM IdleAfterFullRecovery == HistorySpec => IdleOnlyAfterFullRecovery
  <1> DEFINE EndsIdle ==
        device = "opening" /\ device' = "open" =>
          \/ is_mcu_busy(reg_buf)
          \/ fw_reloaded /\ downloads > 0 /\ rearms = REARM_MAX_RETRY
  <1>1. ASSUME IInv, HInv, HistoryNext
        PROVE  EndsIdle
    <2>1. SUFFICES ASSUME device = "opening", device' = "open", ~is_mcu_busy(reg_buf)
                   PROVE  fw_reloaded /\ downloads > 0 /\ rearms = REARM_MAX_RETRY
      OBVIOUS
    <2>2. OpenSucceeds
      BY <1>1, <2>1, StepKinds, MovesMove
      DEF HistoryNext, dev_open, OpenFails, Rests
    <2>3. HuntingGiveUp
      BY <1>1, <2>1, <2>2, OnlyHuntingCompletes DEF HistoryNext
    <2>4. fw_reloaded /\ rearm_retries >= REARM_MAX_RETRY
          /\ task_ssm = "ACTIVATE_AUTO_POWER_HUNTING_CHECK"
      BY <2>3 DEF HuntingGiveUp
    <2>5. rearm_retries = REARM_MAX_RETRY
      BY <1>1, <2>4, LimitAssumption DEF IInv, TypeOK
    <2>6. rearms = rearm_retries /\ downloads > 0
      BY <1>1, <2>4 DEF HInv, RearmsInv, DownloadsInv, Downloading
    <2>7. QED
      BY <2>4, <2>5, <2>6
  <1>2. IInv /\ HInv /\ [HistoryNext]_hvars => [EndsIdle]_hvars
    BY <1>1
  <1>3. HistorySpec => [][EndsIdle]_hvars
    BY <1>2, HistoryInvariance, PTL DEF HistorySpec
  <1>4. QED
    BY <1>3 DEF IdleOnlyAfterFullRecovery
=============================================================================
