SPECIFICATION SystemSpec
CONSTANTS
  Reply <- MCReply
  FirmwareFiles <- MCFirmwareFiles
  ft9201_firmware_script <- MCScript
  Picture <- MCPicture
  p1 = p1
  NoFrame = NoFrame
  REARM_MAX_RETRY = 1
  AUTO_POWER_MAX_RETRY = 1
  MCU_READY_MAX_POLLS = 1
  KEEPALIVE_POLLS = 2
  SPURIOUS_MAX_POLLS = 1
  ENROLL_STAGES = 2
  MaxMisses = 2
INVARIANTS
  OnlyTransfersFailAnOpen
PROPERTIES
  SilenceMeansNoCode
  OpenStartsTheSearch
