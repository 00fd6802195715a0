----------------------- MODULE Ft9201FirmwareScript -----------------------
(***************************************************************************)
(* The table ft9201_firmware_script of the driver: the fixed sequence of   *)
(* requests, pauses and bulk writes that downloads the MCU firmware.  An   *)
(* entry keeps its kind, its request and its index; the values written are *)
(* not used by the driver and are left out.                                *)
(***************************************************************************)
EXTENDS Integers, Sequences

FW_OUT(req, idx) == <<[kind |-> "OUT", request |-> req, index |-> idx]>>
FW_IN(req, idx)  == <<[kind |-> "IN",  request |-> req, index |-> idx]>>
Plain(kind)      == <<[kind |-> kind,  request |-> "none", index |-> 0]>>
FW_DELAY         == Plain("DELAY")
FW_SEND_PROBE    == Plain("SEND_PROBE")
FW_SEND_IMAGE    == Plain("SEND_IMAGE")
FW_END           == Plain("END")

FW_PREPARE_MCU ==
  FW_OUT("PREPARE_MCU_CHECK", 112) \o FW_DELAY \o
  FW_OUT("PREPARE_MCU_CHECK", 112) \o FW_DELAY

FW_MCU_PAIR == FW_OUT("MCU_WRITE", 0) \o FW_IN("MCU_READ", 0)

FW_CODE_RAM_UNLOCK ==
  FW_OUT("MCU_SYNC", 0) \o FW_OUT("CODE_RAM_WRITE", 194) \o
  FW_IN("CODE_RAM_READ", 194)

ProbeSteps ==
  FW_OUT("SET_BULK_MODE", 0) \o FW_OUT("SET_BULK_TRANSFER", 34240) \o
  FW_SEND_PROBE \o FW_DELAY \o
  FW_OUT("UNKNOWN_03", 164) \o FW_IN("BULK_CHECK", 34240)

SfrSteps ==
  FW_OUT("MCU_SYNC", 0) \o
  FW_IN("SFR_READ", 200) \o FW_OUT("SFR_WRITE", 200) \o
  FW_OUT("SFR_WRITE", 241) \o
  FW_IN("SFR_READ", 244) \o FW_OUT("SFR_WRITE", 244) \o
  FW_IN("SFR_READ", 243) \o FW_IN("GET_SUI_VERSION", 0)

ImageSteps ==
  FW_OUT("SET_BULK_MODE", 0) \o FW_DELAY \o FW_OUT("SET_BULK_MODE", 0) \o
  FW_OUT("SET_BULK_TRANSFER", 0) \o FW_SEND_IMAGE \o FW_DELAY

CommitSteps ==
  FW_OUT("FIRMWARE_COMMIT", 0) \o FW_DELAY \o
  FW_OUT("FIRMWARE_COMMIT", 0) \o FW_DELAY

ft9201_firmware_script_table ==
  FW_IN("READ_REGISTER", 22) \o FW_IN("READ_REGISTER", 23) \o
  FW_MCU_PAIR \o FW_MCU_PAIR \o FW_MCU_PAIR \o FW_MCU_PAIR \o FW_MCU_PAIR \o
  FW_OUT("MCU_WRITE", 249) \o
  ProbeSteps \o SfrSteps \o
  FW_PREPARE_MCU \o FW_IN("READ_REGISTER", 32) \o
  FW_CODE_RAM_UNLOCK \o FW_CODE_RAM_UNLOCK \o FW_CODE_RAM_UNLOCK \o
  ImageSteps \o CommitSteps \o FW_PREPARE_MCU \o FW_END
===========================================================================
