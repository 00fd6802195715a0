--------------------------- MODULE Ft9201Sensor ---------------------------
(***************************************************************************)
(* The sensor, as docs/PROTOCOL.md and the comments of the driver describe *)
(* what their authors measured.  Its code is not in the repository: this   *)
(* module is what the driver is right about the sensor to rely on.         *)
(*                                                                         *)
(* code   "empty" after a loss of VBUS, "torn" from the first write of the *)
(*        code RAM to the end of the download, "whole" after it            *)
(* mode   "asleep"  the AFE has removed its own power: zeroes              *)
(*        "idle"    the MCU answers a5 5a                                  *)
(*        "primed"  the write of 0x1e took, and 0x1d is not read yet       *)
(*        "hunting" the MCU is busy with the search: 01 01                 *)
(*        "busy"    it reports a finger, and the press makes it busy: 01 01 *)
(*        "pressed" it reports a finger, and answers                       *)
(* armed  the register 0x30 holds 0xbb                                     *)
(* A core without its whole code answers zeroes; that a torn one does so,  *)
(* too, is an assumption: FIRMWARE_COMMIT gives control to the new code.   *)
(***************************************************************************)
EXTENDS Ft9201Protocol

CONSTANT MaxMisses   \* bound: the writes of 0x1e in a row that do not take

VARIABLES code, mode, armed, finger, misses

sensor == <<code, mode, armed, finger, misses>>

Runs == code = "whole" /\ mode # "asleep"

Press == {"busy", "pressed"}

Answer(register) ==
  IF ~Runs THEN <<0, 0>>
  ELSE IF mode = "hunting" THEN
    IF register = "INT_PORT_STATES" THEN <<0, 0>>
    ELSE <<MCU_STATE_BUSY, MCU_STATE_BUSY>>
  ELSE IF mode = "busy" /\ register # "INT_PORT_STATES" THEN
    <<MCU_STATE_BUSY, MCU_STATE_BUSY>>
  ELSE CASE register = "MCU_SENSOR_STATUS" -> <<MCU_STATE_MAGIC_A5, MCU_STATE_MAGIC_5A>>
         [] register = "CHIP_ID_HIGH"      -> <<149, 168>>
         [] register = "CHIP_ID_LOW"       -> <<168, 0>>
         [] register = "SENSOR_WIDTH"      -> <<96, 96>>
         [] register = "SENSOR_HEIGHT"     -> <<96, 0>>
         [] register = "CAPTURE_READY"     -> <<IF armed THEN CAPTURE_READY_MAGIC ELSE 0, 0>>
         [] register = "FINGER_PRESENT"    -> <<IF mode = "pressed" THEN FINGER_PRESENT_A0 ELSE 0, 0>>
         [] register = "INT_PORT_STATES"   -> <<IF mode \in Press THEN 1 ELSE 0, 0>>
         [] register = "FW_IN"             -> <<30, 0>>

(* An image is the sensor's to give while it answers with the finger on    *)
(* the armed area; a busy one gives its status bytes in place of it.       *)
GivesImage == Runs /\ armed /\ mode = "pressed"

-----------------------------------------------------------------------------
(* What a request of the driver does to the sensor. *)

Unmoved == UNCHANGED sensor

(* The wake handshake: idle from every mode. *)
Wakes ==
  /\ mode' = IF code = "whole" THEN "idle" ELSE mode
  /\ UNCHANGED <<code, armed, finger, misses>>

ReadsPresent ==
  /\ mode' = IF mode = "primed" THEN "hunting" ELSE mode
  /\ UNCHANGED <<code, armed, finger, misses>>

Arms ==
  /\ armed' = (armed \/ Runs)
  /\ UNCHANGED <<code, mode, finger, misses>>

(* A variable exists that no register shows: the write may have no effect. *)
StartsSearch ==
  \/ /\ Runs
     /\ mode' = "primed"
     /\ misses' = 0
     /\ UNCHANGED <<code, armed, finger>>
  \/ /\ Runs
     /\ misses < MaxMisses
     /\ mode' = "idle"
     /\ misses' = misses + 1
     /\ UNCHANGED <<code, armed, finger>>
  \/ ~Runs /\ Unmoved

TakesCode ==
  /\ code' = "torn"
  /\ UNCHANGED <<mode, armed, finger, misses>>

RunsCode ==
  /\ code' = "whole"
  /\ mode' = "idle"
  /\ armed' = FALSE
  /\ UNCHANGED <<finger, misses>>

-----------------------------------------------------------------------------
(* What it does by itself. *)

(* A finger starts an AFE that has removed its power, or it does not. *)
FingerComes ==
  /\ ~finger
  /\ finger' = TRUE
  /\ \/ mode' = mode
     \/ code = "whole" /\ mode = "asleep" /\ mode' \in Press
  /\ UNCHANGED <<code, armed, misses>>

(* Also a finger that was found before and has stayed. *)
FingerFound ==
  /\ finger
  /\ code = "whole"
  /\ mode \in {"primed", "hunting"}
  /\ mode' \in Press
  /\ UNCHANGED <<code, armed, finger, misses>>

Becomes(from, to) ==
  /\ mode = from
  /\ mode' = to
  /\ UNCHANGED <<code, armed, finger, misses>>

PressBusies  == Becomes("pressed", "busy")
PressSettles == Becomes("busy", "pressed")

(* The AFE keeps its power for half a second, and then lapses. *)
FingerGoes ==
  /\ finger
  /\ finger' = FALSE
  /\ mode' = IF mode \in Press THEN "idle" ELSE mode
  /\ UNCHANGED <<code, armed, misses>>

(* The search has a time limit, and so has the power of an idle AFE.  The  *)
(* report of a press stops after half a second, also if the finger stays:  *)
(* the MCU is busy for a moment only, and has settled by then.             *)
Lapses ==
  /\ mode \in {"idle", "hunting", "pressed"}
  /\ mode' = "asleep"
  /\ UNCHANGED <<code, armed, finger, misses>>

(* The capture engine loses its armed state. *)
Disarms ==
  /\ armed
  /\ armed' = FALSE
  /\ UNCHANGED <<code, mode, finger, misses>>

LosesPower ==
  /\ code' = "empty"
  /\ mode' = "asleep"
  /\ armed' = FALSE
  /\ UNCHANGED <<finger, misses>>

Init ==
  /\ code = "empty" /\ mode = "asleep" /\ armed = FALSE
  /\ finger = FALSE /\ misses = 0

TypeOK ==
  /\ code \in {"empty", "torn", "whole"}
  /\ mode \in {"asleep", "idle", "primed", "hunting"} \cup Press
  /\ armed \in BOOLEAN /\ finger \in BOOLEAN
  /\ misses \in 0..MaxMisses
===========================================================================
