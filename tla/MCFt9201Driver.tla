-------------------------- MODULE MCFt9201Driver --------------------------
(* One device with small limits, a short download and two pictures. *)
EXTENDS Ft9201Driver, Ft9201FirmwareScript
CONSTANTS p1, p2

MCReply ==
  [ MCU_SENSOR_STATUS |-> { <<165, 90>>, <<1, 1>>, <<0, 0>> },
    CHIP_ID_HIGH      |-> { <<149, 168>> },
    CHIP_ID_LOW       |-> { <<168, 0>> },
    SENSOR_WIDTH      |-> { <<0, 0>>, <<96, 96>> },
    SENSOR_HEIGHT     |-> { <<96, 0>>, <<1, 1>> },
    CAPTURE_READY     |-> { <<187, 0>>, <<1, 1>> },
    FINGER_PRESENT    |-> { <<160, 0>>, <<1, 1>> },
    INT_PORT_STATES   |-> { <<0, 0>>, <<1, 0>> },
    FW_IN             |-> { <<30, 0>> } ]

MCFirmwareFiles == { -1, 10368 }

MCScript == FW_IN("SFR_READ", 243) \o FW_OUT("SFR_WRITE", 243) \o FW_DELAY
            \o FW_SEND_IMAGE \o FW_END

MCPicture == {p1, p2}
===========================================================================
