-------------------------- MODULE Ft9201Protocol --------------------------
(***************************************************************************)
(* What the driver and the sensor say to each other: the values of         *)
(* focaltech_ft9201.h that the driver compares an answer with, and the two *)
(* predicates that it evaluates on the status register 0x20.  An answer is *)
(* the pair of bytes at the start of reg_buf; the driver never looks at    *)
(* the other two.                                                          *)
(***************************************************************************)
EXTENDS Integers

Byte   == 0..255
UInt16 == {n \in Nat : n < 65536}

MCU_STATE_MAGIC_A5   == 165
MCU_STATE_MAGIC_5A   == 90
MCU_STATE_BUSY       == 1
CAPTURE_READY_MAGIC  == 187      \* 0xbb
FINGER_PRESENT_A0    == 160
INT_PORT_FINGER_PRESENT == 1
SENSOR_TYPE_UNKNOWN  == 255
SFR_CHIP_TYPE        == 243      \* 0x00f3

FW_CHUNK_SIZE == 64
FW_MIN_SIZE   == 1024
FW_MAX_SIZE   == 64 * 1024

(***************************************************************************)
(* The things that a control read asks for.  "FW_IN" stands for every read *)
(* of the download script: only the type of the sensor is taken from one.  *)
(***************************************************************************)
Register == {"MCU_SENSOR_STATUS", "CHIP_ID_HIGH", "CHIP_ID_LOW",
             "SENSOR_WIDTH", "SENSOR_HEIGHT", "CAPTURE_READY",
             "FINGER_PRESENT", "INT_PORT_STATES", "FW_IN"}

is_mcu_ready(reg_buf) ==
  reg_buf = <<MCU_STATE_MAGIC_A5, MCU_STATE_MAGIC_5A>>

is_mcu_alive(reg_buf) ==
  \/ is_mcu_ready(reg_buf)
  \/ reg_buf = <<MCU_STATE_BUSY, MCU_STATE_BUSY>>

(* The hunting test looks at the first byte only. *)
is_mcu_busy(reg_buf) == reg_buf[1] = MCU_STATE_BUSY
===========================================================================
