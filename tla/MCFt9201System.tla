-------------------------- MODULE MCFt9201System --------------------------
(* The driver with the sensor: any pair may come from a read, and the      *)
(* sensor says which.  A download of the requests that change the sensor.  *)
EXTENDS Ft9201System, Ft9201FirmwareScript
CONSTANT p1

MCPair == { <<165, 90>>, <<1, 1>>, <<0, 0>>, <<149, 168>>, <<168, 0>>, <<96, 96>>,
            <<96, 0>>, <<187, 0>>, <<160, 0>>, <<1, 0>>, <<30, 0>> }
MCReply == [ register \in Register |-> MCPair ]

MCFirmwareFiles == { 10368 }

MCScript == FW_CODE_RAM_UNLOCK \o FW_SEND_IMAGE \o FW_OUT("FIRMWARE_COMMIT", 0) \o FW_END

MCPicture == {p1}
===========================================================================
