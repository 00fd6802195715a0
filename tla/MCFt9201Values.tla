-------------------------- MODULE MCFt9201Values --------------------------
(* A sensor that answers each read with the values the driver tells apart, *)
(* the busy pattern and a short answer, and a disk with good, truncated,   *)
(* oversized, unaligned and missing images (-1 for no file).               *)
EXTENDS Ft9201FirmwareScript

MCReply ==
  [ MCU_SENSOR_STATUS |-> { <<165, 90>>, <<1, 1>>, <<0, 0>>, <<165, 0>> },
    CHIP_ID_HIGH      |-> { <<149, 168>> },
    CHIP_ID_LOW       |-> { <<168, 0>> },
    SENSOR_WIDTH      |-> { <<0, 0>>, <<96, 96>> },
    SENSOR_HEIGHT     |-> { <<0, 0>>, <<96, 0>> },
    CAPTURE_READY     |-> { <<187, 0>>, <<1, 1>> },
    FINGER_PRESENT    |-> { <<0, 0>> },
    INT_PORT_STATES   |-> { <<0, 0>> },
    FW_IN             |-> { <<0, 0>>, <<30, 0>> } ]

MCFirmwareFiles == { -1, 0, 960, 10368, 10400, 65600 }
===========================================================================
