----------------------- MODULE MCFt9201CaptureValues -----------------------
(* A sensor that answers with and without a finger, armed and not, busy    *)
(* and idle; two pictures; the usual size, the largest and the 1x1 that a  *)
(* busy MCU shows.                                                         *)
CONSTANTS p1, p2

MCReply ==
  [ MCU_SENSOR_STATUS |-> { <<165, 90>>, <<1, 1>> },
    CHIP_ID_HIGH      |-> { <<0, 0>> },
    CHIP_ID_LOW       |-> { <<0, 0>> },
    SENSOR_WIDTH      |-> { <<0, 0>> },
    SENSOR_HEIGHT     |-> { <<0, 0>> },
    CAPTURE_READY     |-> { <<187, 0>>, <<1, 1>> },
    FINGER_PRESENT    |-> { <<160, 0>>, <<1, 1>> },
    INT_PORT_STATES   |-> { <<0, 0>>, <<1, 0>> },
    FW_IN             |-> { <<0, 0>> } ]

MCPicture    == {p1, p2}
MCDimensions == { <<96, 96>>, <<255, 255>>, <<1, 1>> }
=============================================================================
