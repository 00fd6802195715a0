SPECIFICATION FairHistorySpec
CONSTANTS
  Reply <- MCReply
  FirmwareFiles <- MCFirmwareFiles
  ft9201_firmware_script <- ft9201_firmware_script_table
  REARM_MAX_RETRY = 3
  AUTO_POWER_MAX_RETRY = 5
  MCU_READY_MAX_POLLS = 50
INVARIANTS
  TypeOK
  OwnsOnlyWhatItUses
  StreamsOnlyAUsableImage
  OpenMeansPrepared
  EveryDownloadHasAReason
  DecidesOnItsOwnAnswer
PROPERTIES
  GivesUpOnlyAfterFullBudget
  IdleOnlyAfterFullRecovery
  OpenTerminates
