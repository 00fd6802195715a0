------------------------ MODULE Ft9201Capture_proofs ------------------------
(***************************************************************************)
(* Theorems about the capture machine, what becomes of its frames, and its *)
(* wait for a finger, for every sensor, every set of pictures, every size  *)
(* of the image area and all limits.                                       *)
(***************************************************************************)
EXTENDS Ft9201CaptureHistory, SequenceTheorems, TLAPS

(* The three conjuncts after the types support each other: an action that  *)
(* is not an enrolment starts with no array because the last one left none, *)
(* and CAP_FRAME_DONE can fill the array because it is the enrolment's.    *)
IInv ==
  /\ TypeOK
  /\ NothingOutlivesAnAction
  /\ FrameDoneHasItsFrame
  /\ AnnouncedIsRead

(* The part of TypeOK that is not about the control state. *)
DataOK ==
  /\ cancelled \in BOOLEAN
  /\ finger_status \in {"NONE", "NEEDED", "PRESENT"}
  /\ outcome \in Outcome
  /\ delivered \in Seq(Picture)
  /\ sensor_width \in 1..255
  /\ sensor_height \in 1..255
  /\ reg_buf \in Byte \X Byte
  /\ announced \in UInt16
  /\ spurious_polls \in 0..SPURIOUS_MAX_POLLS
  /\ idle_polls \in 0..(KEEPALIVE_POLLS - 1)
  /\ rearm_retries \in 0..REARM_MAX_RETRY
  /\ frame \in Picture \cup {NoFrame}
  /\ enroll_frames \in Seq(Picture)
  /\ enroll_array \in BOOLEAN
  /\ action \in CaptureAction

LEMMA TypeOKIsDataOK ==
  TypeOK <=> DataOK /\ task_ssm \in capture_states \cup {"NULL"}
  BY DEF TypeOK, DataOK

-----------------------------------------------------------------------------
(* The length of a transfer fits in the guint16 of the request, for every  *)
(* size that two bytes can describe.                                       *)
FitsUInt16(n) == n \in UInt16 /\ n % 65536 = n

LEMMA ImageFits ==
  \A w \in 1..255, h \in 1..255 : FitsUInt16(w * h + IMG_HEADER_SIZE)
  <1> SUFFICES ASSUME NEW w \in 1..255, NEW h \in 1..255
               PROVE  FitsUInt16(w * h + IMG_HEADER_SIZE)
    OBVIOUS
  <1>1. w * h \in Nat /\ w * h <= 255 * h
    OBVIOUS
  <1>2. w * h + 2 \in Nat /\ w * h + 2 <= 65027
    BY <1>1
  <1>3. \A n \in Nat : n <= 65027 => n < 65536 /\ n % 65536 = n
    OBVIOUS
  <1>4. QED
    BY <1>2, <1>3 DEF IMG_HEADER_SIZE, UInt16, FitsUInt16

LEMMA ImageSizeFits ==
  ASSUME DataOK PROVE FitsUInt16(image_size + IMG_HEADER_SIZE)
  <1>1. sensor_width \in 1..255 /\ sensor_height \in 1..255
    BY DEF DataOK
  <1>2. FitsUInt16(sensor_width * sensor_height + IMG_HEADER_SIZE)
    BY <1>1, ImageFits
  <1>3. QED
    BY <1>2, Zenon DEF image_size

(* The rows of the tables lead from states to states of the machine, and   *)
(* never to the read of an image or to a finished frame.                   *)
LEMMA ReadRows ==
  \A r \in CaptureReads :
    /\ r[2] \in Register
    /\ r[3] \in capture_states
    /\ r[1] # "NULL"
    /\ r[3] \notin {"NULL", "CAP_READ_IMAGE", "CAP_FRAME_DONE"}
  BY DEF CaptureReads, CaptureWrites, CaptureDelays, capture_states, Register

LEMMA WriteRows ==
  \A w \in CaptureWrites :
    /\ w[2] \in capture_states
    /\ w[1] # "NULL"
    /\ w[2] \notin {"NULL", "CAP_READ_IMAGE", "CAP_FRAME_DONE"}
  BY DEF CaptureReads, CaptureWrites, CaptureDelays, capture_states

LEMMA DelayRows ==
  \A d \in CaptureDelays :
    /\ d[2] \in capture_states
    /\ d[1] # "NULL"
    /\ d[2] \notin {"NULL", "CAP_READ_IMAGE", "CAP_FRAME_DONE"}
  BY DEF CaptureReads, CaptureWrites, CaptureDelays, capture_states

LEMMA NamedStates ==
  /\ "NULL" \notin capture_states
  /\ {"CAP_POLL_FINGER", "CAP_READ_READY", "CAP_READ_PRESENT", "CAP_MODE_RESET",
      "CAP_READ_IMAGE", "CAP_REARM_READ", "CAP_KEEPALIVE_WAKE_1",
      "CAP_FRAME_DONE"} \subseteq capture_states
  BY DEF CaptureReads, CaptureWrites, CaptureDelays, capture_states

-----------------------------------------------------------------------------
LEMMA InitIInv == Init => IInv
  <1> SUFFICES ASSUME Init PROVE IInv
    OBVIOUS
  <1>1. sensor_width \in 1..255 /\ sensor_height \in 1..255
    <2>1. PICK d \in Dimensions : sensor_width = d[1] /\ sensor_height = d[2]
      BY DEF Init
    <2>2. d \in (1..255) \X (1..255)
      BY <2>1, DimensionAssumption
    <2>3. QED
      BY <2>1, <2>2
  <1>2. cancelled \in BOOLEAN /\ enroll_array \in BOOLEAN
    BY Zenon DEF Init
  <1>3. reg_buf \in Byte \X Byte /\ announced \in UInt16
    BY DEF Init, Byte, UInt16, MCU_STATE_BUSY
  <1>4. /\ spurious_polls \in 0..SPURIOUS_MAX_POLLS
        /\ idle_polls \in 0..(KEEPALIVE_POLLS - 1)
        /\ rearm_retries \in 0..REARM_MAX_RETRY
    BY LimitAssumption DEF Init
  <1>5. delivered \in Seq(Picture) /\ enroll_frames \in Seq(Picture)
    BY DEF Init
  <1>6. TypeOK
    BY <1>1, <1>2, <1>3, <1>4, <1>5 DEF Init, TypeOK, Outcome, CaptureAction
  <1>7. NothingOutlivesAnAction /\ FrameDoneHasItsFrame /\ AnnouncedIsRead
    BY DEF Init, NothingOutlivesAnAction, FrameDoneHasItsFrame, AnnouncedIsRead
  <1>8. QED
    BY <1>6, <1>7 DEF IInv

-----------------------------------------------------------------------------
(* Moving to another state keeps the invariant, if the data stay typed and *)
(* the target is entered under its own condition.                          *)
LEMMA JumpKeepsIInv ==
  ASSUME IInv, NEW state \in capture_states, task_ssm # "NULL",
         fpi_ssm_jump_to_state(state), DataOK',
         UNCHANGED <<enroll_array, action>>,
         Len(enroll_frames') < ENROLL_STAGES,
         state = "CAP_FRAME_DONE" => frame' # NoFrame,
         state = "CAP_READ_IMAGE" => announced' = image_size' + IMG_HEADER_SIZE
  PROVE  IInv'
  <1>1. task_ssm' = state /\ state # "NULL"
    BY NamedStates DEF fpi_ssm_jump_to_state
  <1>2. TypeOK'
    BY <1>1 DEF TypeOK, DataOK
  <1>3. NothingOutlivesAnAction'
    BY <1>1 DEF NothingOutlivesAnAction
  <1>4. FrameDoneHasItsFrame'
    <2>1. enroll_array <=> action = "ENROLL"
      BY DEF IInv, FrameDoneHasItsFrame
    <2>2. enroll_array' <=> action' = "ENROLL"
      BY <2>1
    <2>3. QED
      BY <1>1, <2>2 DEF FrameDoneHasItsFrame
  <1>5. AnnouncedIsRead'
    BY <1>1 DEF AnnouncedIsRead
  <1>6. QED
    BY <1>2, <1>3, <1>4, <1>5 DEF IInv

(* The end of the machine keeps it, whatever is reported. *)
LEMMA EndKeepsIInv ==
  ASSUME IInv, reset_task, outcome' \in Outcome, delivered' \in Seq(Picture),
         finger_status' \in {"NONE", "NEEDED", "PRESENT"},
         UNCHANGED <<cancelled, dimensions, reg_buf, announced, action>>
  PROVE  IInv'
  <1>1. TypeOK
    BY DEF IInv
  <1>2. /\ spurious_polls' \in 0..SPURIOUS_MAX_POLLS
        /\ idle_polls' \in 0..(KEEPALIVE_POLLS - 1)
        /\ rearm_retries' \in 0..REARM_MAX_RETRY
    BY LimitAssumption DEF reset_task
  <1>3. enroll_array' \in BOOLEAN
    BY Zenon DEF reset_task
  <1>3a. enroll_frames' \in Seq(Picture)
    BY DEF reset_task
  <1>4. TypeOK'
    BY <1>1, <1>2, <1>3, <1>3a DEF TypeOK, reset_task, dimensions
  <1>5. NothingOutlivesAnAction' /\ FrameDoneHasItsFrame' /\ AnnouncedIsRead'
    BY DEF reset_task, NothingOutlivesAnAction, FrameDoneHasItsFrame,
           AnnouncedIsRead
  <1>6. QED
    BY <1>4, <1>5 DEF IInv

LEMMA FailureKeepsIInv ==
  ASSUME IInv, NEW error \in {"TRANSFER", "PROTO"}, capture_ssm_failed(error),
         UNCHANGED <<cancelled, finger_status, dimensions, reg_buf, announced,
                     action>>
  PROVE  IInv'
  <1>1. outcome' \in Outcome /\ delivered' \in Seq(Picture) /\ reset_task
    BY DEF capture_ssm_failed, Outcome
  <1>2. finger_status' \in {"NONE", "NEEDED", "PRESENT"}
    BY DEF IInv, TypeOK
  <1>3. QED
    BY <1>1, <1>2, EndKeepsIInv

-----------------------------------------------------------------------------
(* One step of the specification keeps the invariant. *)
LEMMA NextKeepsIInv == ASSUME IInv, Next PROVE IInv'
  <1> USE NamedStates
  <1> TypeOK /\ DataOK /\ NothingOutlivesAnAction /\ FrameDoneHasItsFrame /\ AnnouncedIsRead
    BY TypeOKIsDataOK DEF IInv
  <1> DEFINE Running == /\ task_ssm # "NULL"
                        /\ Len(enroll_frames) < ENROLL_STAGES
  <1>0. task_ssm # "NULL" => Running
    BY DEF FrameDoneHasItsFrame
  <1> HIDE DEF Running
  <1>1. CASE ReadRegister
    <2>1. PICK r \in CaptureReads :
            /\ task_ssm = r[1]
            /\ reg_buf' \in Reply[r[2]]
            /\ fpi_ssm_jump_to_state(r[3])
      BY <1>1 DEF ReadRegister
    <2>2. reg_buf' \in Byte \X Byte
      BY <2>1, ReadRows, ReplyAssumption
    <2>3. UNCHANGED <<fpdevice, dimensions, announced, counters, frames, action>>
      BY <1>1 DEF ReadRegister
    <2>4. DataOK'
      BY <2>2, <2>3 DEF DataOK, fpdevice, dimensions, counters, frames
    <2>5. Running
      BY <1>0, <2>1, ReadRows
    <2>6. QED
      BY <2>1, <2>3, <2>4, <2>5, ReadRows, JumpKeepsIInv DEF Running, frames
  <1>2. CASE WriteRegister
    <2>1. PICK w \in CaptureWrites :
            task_ssm = w[1] /\ fpi_ssm_jump_to_state(w[2])
      BY <1>2 DEF WriteRegister
    <2>2. UNCHANGED <<fpdevice, dimensions, reg_buf, announced, counters, frames, action>>
      BY <1>2 DEF WriteRegister
    <2>3. DataOK'
      BY <2>2 DEF DataOK, fpdevice, dimensions, counters, frames
    <2>4. Running
      BY <1>0, <2>1, WriteRows
    <2>5. QED
      BY <2>1, <2>2, <2>3, <2>4, WriteRows, JumpKeepsIInv DEF Running, frames
  <1>3. CASE DelayElapsed
    <2>1. PICK d \in CaptureDelays :
            task_ssm = d[1] /\ fpi_ssm_jump_to_state(d[2])
      BY <1>3 DEF DelayElapsed
    <2>2. UNCHANGED <<fpdevice, dimensions, reg_buf, announced, counters, frames, action>>
      BY <1>3 DEF DelayElapsed
    <2>3. DataOK'
      BY <2>2 DEF DataOK, fpdevice, dimensions, counters, frames
    <2>4. Running
      BY <1>0, <2>1, DelayRows
    <2>5. QED
      BY <2>1, <2>2, <2>3, <2>4, DelayRows, JumpKeepsIInv DEF Running, frames
  <1>4. CASE TransferFails
    BY <1>4, FailureKeepsIInv DEF TransferFails
  <1>5. CASE PollFingerReported
    <2>1. DataOK'
      BY <1>5, LimitAssumption DEF PollFingerReported, DataOK, fpdevice, dimensions, frames
    <2>2. Running
      BY <1>0, <1>5 DEF PollFingerReported
    <2>3. QED
      BY <1>5, <2>1, <2>2, JumpKeepsIInv DEF PollFingerReported, Running, frames
  <1>6. CASE PollFingerIdle
    <2>1. idle_polls' \in 0..(KEEPALIVE_POLLS - 1)
      BY <1>6, LimitAssumption DEF PollFingerIdle, DataOK
    <2>2. DataOK'
      BY <1>6, <2>1 DEF PollFingerIdle, DataOK, fpdevice, dimensions, frames
    <2>3. Running
      BY <1>0, <1>6 DEF PollFingerIdle
    <2>4. QED
      BY <1>6, <2>2, <2>3, JumpKeepsIInv DEF PollFingerIdle, Running, frames
  <1>7. CASE PollFingerRenew
    <2>1. DataOK'
      BY <1>7, LimitAssumption DEF PollFingerRenew, DataOK, fpdevice, dimensions, frames
    <2>2. Running
      BY <1>0, <1>7 DEF PollFingerRenew
    <2>3. QED
      BY <1>7, <2>1, <2>2, JumpKeepsIInv DEF PollFingerRenew, Running, frames
  <1>8. CASE CheckReady
    <2>1. UNCHANGED <<fpdevice, dimensions, reg_buf, announced, counters, frames, action>>
      BY <1>8 DEF CheckReady
    <2>2. DataOK'
      BY <2>1 DEF DataOK, fpdevice, dimensions, counters, frames
    <2>3. Running
      BY <1>0, <1>8 DEF CheckReady
    <2>4. CASE fpi_ssm_jump_to_state("CAP_READ_PRESENT")
      BY <2>1, <2>2, <2>3, <2>4, JumpKeepsIInv DEF Running, frames
    <2>5. CASE fpi_ssm_jump_to_state("CAP_POLL_FINGER")
      BY <2>1, <2>2, <2>3, <2>5, JumpKeepsIInv DEF Running, frames
    <2>6. QED
      BY <1>8, <2>4, <2>5 DEF CheckReady
  <1>9. CASE CheckPresentFinger
    <2>1. DataOK'
      BY <1>9, LimitAssumption DEF CheckPresentFinger, DataOK, dimensions, frames
    <2>2. Running
      BY <1>0, <1>9 DEF CheckPresentFinger
    <2>3. QED
      BY <1>9, <2>1, <2>2, JumpKeepsIInv DEF CheckPresentFinger, Running, frames
  <1>10. CASE CheckPresentSpurious
    <2>1. spurious_polls' \in 0..SPURIOUS_MAX_POLLS
      BY <1>10, LimitAssumption DEF CheckPresentSpurious, DataOK
    <2>2. DataOK'
      BY <1>10, <2>1 DEF CheckPresentSpurious, DataOK, fpdevice, dimensions, frames
    <2>3. Running
      BY <1>0, <1>10 DEF CheckPresentSpurious
    <2>4. QED
      BY <1>10, <2>2, <2>3, JumpKeepsIInv DEF CheckPresentSpurious, Running, frames
  <1>11. CASE CheckPresentFails
    BY <1>11, FailureKeepsIInv DEF CheckPresentFails
  <1>12. CASE SetTransfer
    <2>1. /\ announced' = image_size + IMG_HEADER_SIZE
          /\ announced' \in UInt16
      <3>1. announced' = (image_size + IMG_HEADER_SIZE) % 65536
        BY <1>12 DEF SetTransfer
      <3>2. QED
        BY <3>1, ImageSizeFits DEF FitsUInt16
    <2>2. DataOK'
      BY <1>12, <2>1 DEF SetTransfer, DataOK, fpdevice, dimensions, counters, frames
    <2>3. image_size' = image_size
      BY <1>12 DEF SetTransfer, dimensions, image_size
    <2>4. Running
      BY <1>0, <1>12 DEF SetTransfer
    <2>5. QED
      BY <1>12, <2>1, <2>2, <2>3, <2>4, JumpKeepsIInv DEF SetTransfer, Running, frames
  <1>13. CASE ReadImageBadHeader
    <2>1. DataOK'
      BY <1>13 DEF ReadImageBadHeader, DataOK, fpdevice, dimensions, counters, frames
    <2>2. Running
      BY <1>0, <1>13 DEF ReadImageBadHeader
    <2>3. QED
      BY <1>13, <2>1, <2>2, JumpKeepsIInv DEF ReadImageBadHeader, Running, frames
  <1>14. CASE ReadImageFlat
    <2>1. DataOK'
      BY <1>14 DEF ReadImageFlat, DataOK, fpdevice, dimensions, counters
    <2>2. Running
      BY <1>0, <1>14 DEF ReadImageFlat
    <2>3. QED
      BY <1>14, <2>1, <2>2, JumpKeepsIInv DEF ReadImageFlat, Running
  <1>15. CASE ReadImageGood
    <2>1. DataOK'
      BY <1>15 DEF ReadImageGood, DataOK, fpdevice, dimensions, counters
    <2>2. Running
      BY <1>0, <1>15 DEF ReadImageGood
    <2>3. QED
      BY <1>15, <2>1, <2>2, JumpKeepsIInv DEF ReadImageGood, Running
  <1>16. CASE VerifyRetry
    <2>1. rearm_retries' \in 0..REARM_MAX_RETRY
      BY <1>16, LimitAssumption DEF VerifyRetry, DataOK
    <2>2. DataOK'
      BY <1>16, <2>1 DEF VerifyRetry, DataOK, fpdevice, dimensions, frames
    <2>3. Running
      BY <1>0, <1>16 DEF VerifyRetry
    <2>4. QED
      BY <1>16, <2>2, <2>3, JumpKeepsIInv DEF VerifyRetry, Running, frames
  <1>17. CASE VerifyDone
    <2>1. DataOK'
      BY <1>17, LimitAssumption DEF VerifyDone, DataOK, fpdevice, dimensions, frames
    <2>2. Running
      BY <1>0, <1>17 DEF VerifyDone
    <2>3. UNCHANGED <<frame, enroll_frames, enroll_array, action>>
      BY <1>17 DEF VerifyDone, frames
    <2>4. CASE frame # NoFrame /\ fpi_ssm_jump_to_state("CAP_FRAME_DONE")
      BY <2>1, <2>2, <2>3, <2>4, JumpKeepsIInv DEF Running
    <2>5. CASE fpi_ssm_jump_to_state("CAP_POLL_FINGER")
      BY <2>1, <2>2, <2>3, <2>5, JumpKeepsIInv DEF Running
    <2>6. QED
      BY <1>17, <2>4, <2>5 DEF VerifyDone
  <1>18. CASE FrameDoneStage
    <2>1. frame \in Picture
      BY <1>18 DEF FrameDoneStage, FrameDoneHasItsFrame, DataOK
    <2>2. enroll_frames' \in Seq(Picture) /\ Len(enroll_frames') = Len(enroll_frames) + 1
      BY <1>18, <2>1 DEF FrameDoneStage, DataOK
    <2>3. DataOK'
      BY <1>18, <2>2 DEF FrameDoneStage, DataOK, dimensions, counters
    <2>4. QED
      BY <1>18, <2>2, <2>3, JumpKeepsIInv DEF FrameDoneStage
  <1>19. CASE FrameDoneComplete
    <2>1. frame \in Picture
      BY <1>19 DEF FrameDoneComplete, FrameDoneHasItsFrame, DataOK
    <2>2. Append(enroll_frames, frame) \in Seq(Picture) /\ <<frame>> \in Seq(Picture)
      BY <2>1 DEF DataOK
    <2>3. reset_task /\ outcome' \in PossibleOutcomes
      BY <1>19 DEF FrameDoneComplete, capture_ssm_completed
    <2>4. outcome' \in Outcome
      BY <2>3 DEF PossibleOutcomes, Outcome, DataOK, CaptureAction
    <2>5. delivered' \in Seq(Picture)
      BY <1>19, <2>2 DEF FrameDoneComplete, capture_ssm_completed
    <2>6. QED
      BY <1>19, <2>3, <2>4, <2>5, EndKeepsIInv DEF FrameDoneComplete
  <1>20. ASSUME NEW new \in CaptureAction, start_capture(new),
                enroll_frames' = <<>>, enroll_array' \in BOOLEAN,
                enroll_array' <=> new = "ENROLL"
         PROVE  IInv'
    <2>0. /\ cancelled' \in BOOLEAN
          /\ delivered' \in Seq(Picture) /\ enroll_frames' \in Seq(Picture)
      <3>1. cancelled' \in BOOLEAN
        BY <1>20, Zenon DEF start_capture
      <3>2. delivered' \in Seq(Picture) /\ enroll_frames' \in Seq(Picture)
        BY <1>20 DEF start_capture
      <3>3. QED
        BY <3>1, <3>2
    <2>1. DataOK'
      BY <1>20, <2>0, LimitAssumption DEF start_capture, DataOK, dimensions, Outcome
    <2>2. task_ssm' = "CAP_POLL_FINGER" /\ action' = new
      BY <1>20 DEF start_capture
    <2>3. TypeOK'
      BY <2>1, <2>2 DEF TypeOK, DataOK
    <2>4. NothingOutlivesAnAction' /\ AnnouncedIsRead'
      BY <2>2 DEF NothingOutlivesAnAction, AnnouncedIsRead
    <2>5. Len(enroll_frames') < ENROLL_STAGES
      BY <1>20, LimitAssumption
    <2>6. FrameDoneHasItsFrame'
      BY <1>20, <2>2, <2>5 DEF FrameDoneHasItsFrame
    <2>7. QED
      BY <2>3, <2>4, <2>6 DEF IInv
  <1>21. CASE dev_enroll
    BY <1>20, <1>21 DEF dev_enroll, CaptureAction
  <1>22. CASE dev_other
    <2>1. PICK new \in CaptureAction \ {"ENROLL"} : start_capture(new)
      BY <1>22 DEF dev_other
    <2>2. enroll_frames' = <<>> /\ enroll_array' = FALSE
      BY <1>22, <2>1 DEF dev_other, start_capture, NothingOutlivesAnAction, DataOK
    <2>3. QED
      BY <1>20, <2>1, <2>2
  <1>23. CASE Cancel
    <2>1. cancelled' \in BOOLEAN
      BY <1>23 DEF Cancel
    <2>2. TypeOK'
      BY <1>23, <2>1 DEF Cancel, TypeOK, dimensions, counters, frames
    <2>3. NothingOutlivesAnAction' /\ FrameDoneHasItsFrame'
      BY <1>23 DEF Cancel, NothingOutlivesAnAction, FrameDoneHasItsFrame, counters, frames
    <2>4. AnnouncedIsRead'
      BY <1>23 DEF Cancel, AnnouncedIsRead, image_size, dimensions
    <2>5. QED
      BY <2>2, <2>3, <2>4 DEF IInv
  <1>24. QED
    BY <1>1, <1>2, <1>3, <1>4, <1>5, <1>6, <1>7, <1>8, <1>9, <1>10, <1>11,
       <1>12, <1>13, <1>14, <1>15, <1>16, <1>17, <1>18, <1>19, <1>21, <1>22,
       <1>23
    DEF Next, capture_run_state

LEMMA StutterKeepsIInv == ASSUME IInv, UNCHANGED vars PROVE IInv'
  <1>1. TypeOK'
    BY DEF IInv, TypeOK, vars, fpdevice, dimensions, counters, frames
  <1>2. NothingOutlivesAnAction' /\ FrameDoneHasItsFrame'
    BY DEF IInv, NothingOutlivesAnAction, FrameDoneHasItsFrame, vars, counters, frames
  <1>3. AnnouncedIsRead'
    BY DEF IInv, AnnouncedIsRead, image_size, vars, dimensions
  <1>4. QED
    BY <1>1, <1>2, <1>3 DEF IInv

-----------------------------------------------------------------------------
(* The inductive invariant of the capture machine. *)
THEOREM Invariance == Spec => []IInv
  <1>1. IInv /\ [Next]_vars => IInv'
    BY NextKeepsIInv, StutterKeepsIInv
  <1>2. QED
    BY InitIInv, <1>1, PTL DEF Spec

(* Every counter of the capture machine stays in its limit, and every      *)
(* frame and answer it holds is one that the sensor gave.                  *)
THEOREM TypeCorrectness == Spec => []TypeOK
  <1>1. IInv => TypeOK
    BY DEF IInv
  <1>2. QED
    BY Invariance, <1>1, PTL

(* Whatever way an action ends, self->frame, the array of the enrolment    *)
(* and the three counters are clear when the next action starts.           *)
THEOREM NothingLeftBehind == Spec => []NothingOutlivesAnAction
  <1>1. IInv => NothingOutlivesAnAction
    BY DEF IInv
  <1>2. QED
    BY Invariance, <1>1, PTL

(* The pointers that CAP_FRAME_DONE uses without a test are never NULL,    *)
(* and the array of an enrolment never grows over ENROLL_STAGES.           *)
THEOREM FrameDoneIsSafe == Spec => []FrameDoneHasItsFrame
  <1>1. IInv => FrameDoneHasItsFrame
    BY DEF IInv
  <1>2. QED
    BY Invariance, <1>1, PTL

(* The length in the request of 16 bits is the length of the bulk read, for *)
(* every width and height that fit in their bytes.                         *)
THEOREM LengthsAgree == Spec => []AnnouncedIsRead
  <1>1. IInv => AnnouncedIsRead
    BY DEF IInv
  <1>2. QED
    BY Invariance, <1>1, PTL

-----------------------------------------------------------------------------
(* The frames of an action. *)
(* The states between a poll for a finger and the image.  In them the      *)
(* machine holds no frame, so the next good one overwrites nothing.        *)
BeforeImage ==
  {"CAP_POLL_FINGER", "CAP_POLL_FINGER_CHECK", "CAP_READ_READY",
   "CAP_CHECK_READY", "CAP_READ_PRESENT", "CAP_CHECK_PRESENT",
   "CAP_MODE_RESET", "CAP_MODE_RESET_DELAY", "CAP_MODE_IN",
   "CAP_SET_TRANSFER", "CAP_READ_IMAGE"}

FramesInv ==
  /\ shots \in Seq(Picture)
  /\ task_ssm \in BeforeImage => frame = NoFrame
  /\ action # "ENROLL" => enroll_frames = <<>>
  /\ task_ssm # "NULL" => outcome = "none"

HInv == IInv /\ FramesInv /\ GoodFramesAreUsedOnce /\ ResultsAreFromThisAction

-----------------------------------------------------------------------------
LEMMA InitHInv == HistoryInit => HInv
  <1> SUFFICES ASSUME HistoryInit PROVE HInv
    OBVIOUS
  <1>1. IInv
    BY InitIInv DEF HistoryInit
  <1>2. FramesInv
    BY DEF Init, HistoryInit, FramesInv, BeforeImage
  <1>3. GoodFramesAreUsedOnce /\ ResultsAreFromThisAction
    BY DEF HistoryInit, Init, GoodFramesAreUsedOnce, ResultsAreFromThisAction
  <1>4. QED
    BY <1>1, <1>2, <1>3 DEF HInv

(* The tables lead to the image only from the poll. *)
LEMMA RowsBeforeImage ==
  /\ \A r \in CaptureReads : /\ r[3] \in BeforeImage => r[1] \in BeforeImage
                             /\ r[1] # "CAP_READ_IMAGE"
  /\ \A w \in CaptureWrites : /\ w[2] \in BeforeImage => w[1] \in BeforeImage
                              /\ w[1] # "CAP_READ_IMAGE"
  /\ \A d \in CaptureDelays : /\ d[2] \in BeforeImage => d[1] \in BeforeImage
                              /\ d[1] # "CAP_READ_IMAGE"
  BY DEF CaptureReads, CaptureWrites, CaptureDelays, BeforeImage

(* What the history notes of the frames. *)
LEMMA ShotsStep ==
  ASSUME HistoryNext, task_ssm # "NULL"
  PROVE  /\ ~GoodFrame => shots' = shots
         /\ GoodFrame  => shots' = Append(shots, frame')
  BY DEF HistoryNext, Starts, Ends, ObserveStep, GoodFrame, Leaves, history

-----------------------------------------------------------------------------
(* A step that goes on with the same frames. *)
LEMMA SameFramesKeepHInv ==
  ASSUME HInv, IInv', HistoryNext, task_ssm # "NULL", task_ssm' # "NULL",
         UNCHANGED <<frame, enroll_frames, action, outcome>>,
         task_ssm' \in BeforeImage => frame = NoFrame,
         task_ssm = "CAP_READ_IMAGE" => frame = NoFrame
  PROVE  HInv'
  <1>1. ~GoodFrame
    BY DEF GoodFrame, Leaves
  <1>2. shots' = shots
    BY <1>1, ShotsStep
  <1>3. FramesInv'
    BY <1>2 DEF HInv, FramesInv
  <1>4. GoodFramesAreUsedOnce'
    BY <1>2 DEF HInv, GoodFramesAreUsedOnce
  <1>5. ResultsAreFromThisAction'
    BY DEF HInv, FramesInv, ResultsAreFromThisAction
  <1>6. QED
    BY <1>3, <1>4, <1>5 DEF HInv

(* An end of the machine without a result. *)
LEMMA FailureKeepsHInv ==
  ASSUME HInv, IInv', HistoryNext, task_ssm # "NULL",
         reset_task, outcome' \in {"TRANSFER", "PROTO", "DATA_INVALID"}
  PROVE  HInv'
  <1>1. ~GoodFrame
    BY DEF reset_task, GoodFrame, Leaves
  <1>2. shots' = shots
    BY <1>1, ShotsStep
  <1>3. FramesInv'
    BY <1>2 DEF HInv, FramesInv, reset_task, BeforeImage
  <1>4. GoodFramesAreUsedOnce' /\ ResultsAreFromThisAction'
    BY DEF reset_task, GoodFramesAreUsedOnce, ResultsAreFromThisAction
  <1>5. QED
    BY <1>3, <1>4 DEF HInv

LEMMA NextKeepsHInv == ASSUME HInv, HistoryNext PROVE HInv'
  <1> IInv /\ FramesInv /\ GoodFramesAreUsedOnce /\ ResultsAreFromThisAction
    BY DEF HInv
  <1> Next
    BY DEF HistoryNext
  <1> IInv'
    BY NextKeepsIInv
  <1>t. /\ enroll_frames \in Seq(Picture)
        /\ frame \in Picture \cup {NoFrame}
        /\ Len(enroll_frames) \in Nat
    BY DEF IInv, TypeOK
  <1>1. CASE ReadRegister
    <2>1. PICK r \in CaptureReads : task_ssm = r[1] /\ task_ssm' = r[3]
      BY <1>1 DEF ReadRegister, fpi_ssm_jump_to_state
    <2>2. QED
      BY <1>1, <2>1, ReadRows, RowsBeforeImage, SameFramesKeepHInv
      DEF ReadRegister, FramesInv, fpdevice, frames
  <1>2. CASE WriteRegister
    <2>1. PICK w \in CaptureWrites : task_ssm = w[1] /\ task_ssm' = w[2]
      BY <1>2 DEF WriteRegister, fpi_ssm_jump_to_state
    <2>2. QED
      BY <1>2, <2>1, WriteRows, RowsBeforeImage, SameFramesKeepHInv
      DEF WriteRegister, FramesInv, fpdevice, frames
  <1>3. CASE DelayElapsed
    <2>1. PICK d \in CaptureDelays : task_ssm = d[1] /\ task_ssm' = d[2]
      BY <1>3 DEF DelayElapsed, fpi_ssm_jump_to_state
    <2>2. QED
      BY <1>3, <2>1, DelayRows, RowsBeforeImage, SameFramesKeepHInv
      DEF DelayElapsed, FramesInv, fpdevice, frames
  <1>4. CASE TransferFails
    <2>1. task_ssm # "NULL"
      BY <1>4, ReadRows, WriteRows DEF TransferFails, TransferState
    <2>2. QED
      BY <1>4, <2>1, FailureKeepsHInv DEF TransferFails, capture_ssm_failed
  <1>5. CASE PollFingerReported \/ PollFingerIdle \/ PollFingerRenew
    <2>1. /\ task_ssm = "CAP_POLL_FINGER_CHECK"
          /\ task_ssm' \in {"CAP_READ_READY", "CAP_POLL_FINGER", "CAP_KEEPALIVE_WAKE_1"}
          /\ UNCHANGED <<frame, enroll_frames, action, outcome>>
      BY <1>5 DEF PollFingerReported, PollFingerIdle, PollFingerRenew,
                  fpi_ssm_jump_to_state, fpdevice, frames
    <2>2. QED
      BY <2>1, SameFramesKeepHInv DEF FramesInv, BeforeImage
  <1>6. CASE CheckReady
    <2>1. /\ task_ssm = "CAP_CHECK_READY"
          /\ task_ssm' \in {"CAP_READ_PRESENT", "CAP_POLL_FINGER"}
          /\ UNCHANGED <<frame, enroll_frames, action, outcome>>
      BY <1>6 DEF CheckReady, fpi_ssm_jump_to_state, fpdevice, frames
    <2>2. QED
      BY <2>1, SameFramesKeepHInv DEF FramesInv, BeforeImage
  <1>7. CASE CheckPresentFinger \/ CheckPresentSpurious
    <2>1. /\ task_ssm = "CAP_CHECK_PRESENT"
          /\ task_ssm' \in {"CAP_MODE_RESET", "CAP_POLL_FINGER"}
          /\ UNCHANGED <<frame, enroll_frames, action, outcome>>
      BY <1>7 DEF CheckPresentFinger, CheckPresentSpurious,
                  fpi_ssm_jump_to_state, fpdevice, frames
    <2>2. QED
      BY <2>1, SameFramesKeepHInv DEF FramesInv, BeforeImage
  <1>8. CASE CheckPresentFails
    BY <1>8, FailureKeepsHInv DEF CheckPresentFails, capture_ssm_failed
  <1>9. CASE SetTransfer
    <2>1. /\ task_ssm = "CAP_SET_TRANSFER"
          /\ task_ssm' = "CAP_READ_IMAGE"
          /\ UNCHANGED <<frame, enroll_frames, action, outcome>>
      BY <1>9 DEF SetTransfer, fpi_ssm_jump_to_state, fpdevice, frames
    <2>2. QED
      BY <2>1, SameFramesKeepHInv DEF FramesInv, BeforeImage
  <1>10. CASE ReadImageBadHeader \/ ReadImageFlat
    <2>1. /\ task_ssm = "CAP_READ_IMAGE"
          /\ task_ssm' = "CAP_REARM_READ"
          /\ frame' \in {frame, NoFrame}
          /\ UNCHANGED <<enroll_frames, action, outcome>>
      BY <1>10 DEF ReadImageBadHeader, ReadImageFlat, fpi_ssm_jump_to_state,
                   fpdevice, frames
    <2>2. frame = NoFrame
      BY <2>1 DEF FramesInv, BeforeImage
    <2>3. QED
      BY <2>1, <2>2, SameFramesKeepHInv DEF BeforeImage
  <1>11. CASE ReadImageGood
    <2>1. /\ task_ssm = "CAP_READ_IMAGE"
          /\ task_ssm' = "CAP_REARM_READ"
          /\ frame' \in Picture
          /\ UNCHANGED <<enroll_frames, action, outcome>>
      BY <1>11 DEF ReadImageGood, fpi_ssm_jump_to_state, fpdevice
    <2>2. frame = NoFrame /\ frame' # NoFrame
      BY <2>1, PictureAssumption DEF FramesInv, BeforeImage
    <2>3. shots' = Append(shots, frame')
      BY <2>1, <2>2, ShotsStep DEF GoodFrame, Leaves
    <2>4. shots = enroll_frames
      BY <2>1, <2>2, <1>t DEF GoodFramesAreUsedOnce
    <2>5. GoodFramesAreUsedOnce'
      <3>1. Append(enroll_frames, frame') = enroll_frames \o <<frame'>>
        BY <2>1, <1>t
      <3>2. QED
        BY <2>1, <2>2, <2>3, <2>4, <3>1 DEF GoodFramesAreUsedOnce
    <2>6. FramesInv'
      BY <2>1, <2>3 DEF FramesInv, BeforeImage
    <2>7. ResultsAreFromThisAction'
      BY <2>1 DEF FramesInv, ResultsAreFromThisAction
    <2>8. QED
      BY <2>5, <2>6, <2>7 DEF HInv
  <1>12. CASE VerifyRetry \/ VerifyDone
    <2>1. /\ task_ssm = "CAP_KEEPALIVE_VERIFY_CHECK"
          /\ \/ task_ssm' \in {"CAP_KEEPALIVE_WAKE_1", "CAP_FRAME_DONE"}
             \/ task_ssm' = "CAP_POLL_FINGER" /\ frame = NoFrame
          /\ UNCHANGED <<frame, enroll_frames, action, outcome>>
      BY <1>12 DEF VerifyRetry, VerifyDone, fpi_ssm_jump_to_state, fpdevice, frames
    <2>2. QED
      BY <2>1, SameFramesKeepHInv DEF BeforeImage
  <1>13. ASSUME task_ssm = "CAP_FRAME_DONE"
         PROVE  /\ frame \in Picture
                /\ shots' = shots
                /\ shots = Append(enroll_frames, frame)
    <2>1. frame # NoFrame
      BY <1>13 DEF IInv, FrameDoneHasItsFrame
    <2>2. shots' = shots
      BY <1>13, ShotsStep DEF GoodFrame, Leaves
    <2>3. shots = enroll_frames \o <<frame>>
      BY <1>13, <2>1 DEF GoodFramesAreUsedOnce
    <2>4. QED
      BY <1>t, <2>1, <2>2, <2>3
  <1>14. CASE FrameDoneStage
    <2>1. /\ task_ssm = "CAP_FRAME_DONE" /\ task_ssm' = "CAP_POLL_FINGER"
          /\ enroll_frames' = Append(enroll_frames, frame)
          /\ frame' = NoFrame
          /\ action = "ENROLL"
          /\ UNCHANGED <<action, outcome>>
      BY <1>14 DEF FrameDoneStage, fpi_ssm_jump_to_state
    <2>2. FramesInv'
      BY <1>13, <2>1 DEF FramesInv
    <2>3. GoodFramesAreUsedOnce'
      BY <1>13, <1>t, <2>1 DEF GoodFramesAreUsedOnce
    <2>4. ResultsAreFromThisAction'
      BY <2>1 DEF FramesInv, ResultsAreFromThisAction
    <2>5. QED
      BY <2>2, <2>3, <2>4 DEF HInv
  <1>15. CASE FrameDoneComplete
    <2>1. /\ task_ssm = "CAP_FRAME_DONE"
          /\ action = "ENROLL" => Len(enroll_frames) + 1 >= ENROLL_STAGES
          /\ outcome' \in PossibleOutcomes
          /\ delivered' = IF outcome' = "DATA_INVALID" THEN <<>>
                          ELSE IF action = "ENROLL" THEN Append(enroll_frames, frame)
                          ELSE <<frame>>
          /\ reset_task
          /\ action' = action
      BY <1>15 DEF FrameDoneComplete, capture_ssm_completed
    <2>2. FramesInv' /\ GoodFramesAreUsedOnce'
      BY <1>13, <2>1 DEF FramesInv, GoodFramesAreUsedOnce, reset_task, BeforeImage
    <2>3. ASSUME action = "ENROLL" PROVE ResultsAreFromThisAction'
      <3>1. outcome' = "ENROLLED" /\ delivered' = shots'
        BY <1>13, <2>1, <2>3 DEF PossibleOutcomes
      <3>2. Len(enroll_frames) < ENROLL_STAGES
        BY <2>1 DEF IInv, FrameDoneHasItsFrame
      <3>3. Len(shots') = Len(enroll_frames) + 1
        BY <1>13, <1>t, <2>1
      <3>4. Len(shots') = ENROLL_STAGES
        BY <1>t, <2>1, <2>3, <3>2, <3>3, LimitAssumption
      <3>5. outcome' \notin {"MATCH", "NO_MATCH", "IMAGE"}
        BY <3>1
      <3>6. QED
        BY <3>1, <3>4, <3>5 DEF ResultsAreFromThisAction
    <2>4. ASSUME action # "ENROLL" PROVE ResultsAreFromThisAction'
      <3>1. outcome' # "ENROLLED"
        BY <2>1, <2>4 DEF PossibleOutcomes, IInv, TypeOK, CaptureAction
      <3>2. shots' = <<frame>>
        BY <1>13, <2>1, <2>4 DEF FramesInv
      <3>3. Len(shots') = 1
        BY <3>2, <1>13, <2>1
      <3>4. outcome' \in {"MATCH", "NO_MATCH", "IMAGE"} => delivered' = shots'
        BY <2>1, <2>4, <3>2
      <3>5. QED
        BY <3>1, <3>3, <3>4 DEF ResultsAreFromThisAction
    <2>5. QED
      BY <2>2, <2>3, <2>4 DEF HInv
  <1>16. ASSUME NEW new \in CaptureAction, start_capture(new), enroll_frames' = <<>>
         PROVE  HInv'
    <2>1. /\ task_ssm = "NULL" /\ task_ssm' = "CAP_POLL_FINGER"
          /\ frame' = NoFrame /\ outcome' = "none"
      BY <1>16 DEF start_capture
    <2>2. shots' = <<>>
      BY <2>1 DEF HistoryNext, Starts, ObserveStart
    <2>3. FramesInv'
      BY <1>16, <2>1, <2>2 DEF FramesInv
    <2>4. GoodFramesAreUsedOnce' /\ ResultsAreFromThisAction'
      BY <1>16, <2>1, <2>2 DEF GoodFramesAreUsedOnce, ResultsAreFromThisAction
    <2>5. QED
      BY <2>3, <2>4 DEF HInv
  <1>17. CASE dev_enroll
    BY <1>16, <1>17 DEF dev_enroll, CaptureAction
  <1>18. CASE dev_other
    <2>1. PICK new \in CaptureAction \ {"ENROLL"} : start_capture(new)
      BY <1>18 DEF dev_other
    <2>2. enroll_frames' = <<>>
      BY <1>18, <2>1 DEF dev_other, start_capture, IInv, NothingOutlivesAnAction
    <2>3. QED
      BY <1>16, <2>1, <2>2
  <1>19. CASE Cancel
    <2>1. /\ task_ssm # "NULL" /\ task_ssm' = task_ssm
          /\ UNCHANGED <<frame, enroll_frames, action, outcome>>
      BY <1>19 DEF Cancel, frames
    <2>2. QED
      BY <2>1, SameFramesKeepHInv DEF FramesInv, BeforeImage
  <1>20. QED
    BY <1>1, <1>2, <1>3, <1>4, <1>5, <1>6, <1>7, <1>8, <1>9, <1>10, <1>11,
       <1>12, <1>14, <1>15, <1>17, <1>18, <1>19
    DEF Next, capture_run_state

LEMMA StutterKeepsHInv == ASSUME HInv, UNCHANGED hvars PROVE HInv'
  <1>1. IInv'
    BY StutterKeepsIInv DEF HInv, hvars
  <1>2. FramesInv' /\ GoodFramesAreUsedOnce' /\ ResultsAreFromThisAction'
    BY DEF HInv, FramesInv, GoodFramesAreUsedOnce, ResultsAreFromThisAction,
           hvars, history, vars, fpdevice, frames
  <1>3. QED
    BY <1>1, <1>2 DEF HInv

-----------------------------------------------------------------------------
(* The inductive invariant of the frames. *)
THEOREM FramesInvariance == HistorySpec => []HInv
  <1>1. HInv /\ [HistoryNext]_hvars => HInv'
    BY NextKeepsHInv, StutterKeepsHInv
  <1>2. QED
    BY InitHInv, <1>1, PTL DEF HistorySpec

(* No good frame is lost or used twice, whatever discarded images,         *)
(* renewals and failed re-arms come between it and CAP_FRAME_DONE.         *)
THEOREM FramesUsedOnce == HistorySpec => []GoodFramesAreUsedOnce
  <1>1. HInv => GoodFramesAreUsedOnce
    BY DEF HInv
  <1>2. QED
    BY FramesInvariance, <1>1, PTL

(* What capture_ssm_done gives to libfprint is made from the good frames   *)
(* of the action that ends, all of them and no other.                      *)
THEOREM ResultsAreOwn == HistorySpec => []ResultsAreFromThisAction
  <1>1. HInv => ResultsAreFromThisAction
    BY DEF HInv
  <1>2. QED
    BY FramesInvariance, <1>1, PTL
-----------------------------------------------------------------------------
(* The wait for a finger.                                                  *)

Polling  == {"CAP_POLL_FINGER", "CAP_POLL_FINGER_CHECK"}
Imaging  == {"CAP_MODE_RESET", "CAP_MODE_RESET_DELAY", "CAP_MODE_IN",
             "CAP_SET_TRANSFER", "CAP_READ_IMAGE"}
Rearming == {"CAP_REARM_READ", "CAP_REARM_1", "CAP_REARM_2"}
Pressing == {"CAP_READ_READY", "CAP_CHECK_READY", "CAP_READ_PRESENT",
             "CAP_CHECK_PRESENT"}
Armed    == {"CAP_REARM_DELAY", "CAP_KEEPALIVE_VERIFY_STATUS",
             "CAP_KEEPALIVE_VERIFY_PRESENT", "CAP_KEEPALIVE_VERIFY_RESUMED",
             "CAP_KEEPALIVE_VERIFY_CHECK", "CAP_FRAME_DONE"}

(* The empty polls that n reports of a finger may leave uncounted. *)
Uncounted(n) == n * (KEEPALIVE_POLLS - 1)

(* As long as no press is dropped, each report of a finger that set        *)
(* idle_polls to zero is either in spurious_polls or is the present one.   *)
EmptyPolls ==
  /\ empty <= RenewalLimit
  /\ task_ssm \in Polling => empty <= Uncounted(spurious_polls) + idle_polls
  /\ task_ssm \in Pressing => empty <= Uncounted(spurious_polls + 1)

(* idle_polls counts in the poll loop only; behind the write of 0x1e there *)
(* are no empty polls; an image leads to the re-arm states and only there  *)
(* does its sensor stay unarmed; and the prompt stands until a press or,   *)
(* for this stage, for good after a discarded frame.                       *)
WaitInv ==
  /\ empty \in 0..EmptyCap
  /\ task_ssm \in Armed => empty = 0
  /\ ~dropped => EmptyPolls
  /\ task_ssm \notin Polling => idle_polls = 0
  /\ task_ssm \notin Rearming \cup {"NULL"} => ~unarmed
  /\ task_ssm \notin Imaging \cup {"NULL"} /\ frame = NoFrame /\ ~discarded
       => finger_status = "NEEDED"

LEMMA UncountedPolls ==
  /\ Uncounted(0) = 0
  /\ \A n \in Nat : /\ Uncounted(n) \in Nat
                    /\ Uncounted(n + 1) = Uncounted(n) + (KEEPALIVE_POLLS - 1)
  /\ \A n \in 0..SPURIOUS_MAX_POLLS :
       Uncounted(n + 1) + 1 <= RenewalLimit
  /\ RenewalLimit \in Nat /\ EmptyCap = RenewalLimit + 1
  <1> DEFINE K == KEEPALIVE_POLLS - 1
             S == SPURIOUS_MAX_POLLS
  <1>1. K \in Nat /\ S \in Nat
    BY LimitAssumption
  <1> HIDE DEF K, S
  <1>2. \A n \in Nat : n * K \in Nat /\ (n + 1) * K = n * K + K
    BY <1>1
  <1>3. \A n \in 0..S : (S - n) * K \in Nat /\ (S + 1) * K = (n + 1) * K + (S - n) * K
    BY <1>1
  <1>4. \A n \in 0..S : (n + 1) * K \in Nat /\ (S + 1) * K \in Nat
    BY <1>1, <1>2
  <1>5. \A n \in 0..S : (n + 1) * K + 1 <= (S + 1) * K + 1
    BY <1>3, <1>4
  <1>6. 0 * K = 0 /\ (S + 1) * K + 1 \in Nat
    BY <1>1, <1>2
  <1>7. \A n : Uncounted(n) = n * K
    BY DEF Uncounted, K
  <1>8. RenewalLimit = (S + 1) * K + 1
    BY DEF RenewalLimit, K, S
  <1>9. QED
    BY <1>2, <1>5, <1>6, <1>7, <1>8 DEF EmptyCap, K, S

(* Every row of the tables, as a pair of states. *)
RowEdges ==
  {<<r[1], r[3]>> : r \in CaptureReads} \cup CaptureWrites \cup CaptureDelays

LEMMA RowsOfTheWait ==
  \A e \in RowEdges :
    /\ e[1] # e[2] /\ e[1] # "NULL" /\ e[2] # "NULL"
    /\ e[1] \notin {"CAP_POLL_FINGER_CHECK", "CAP_CHECK_READY", "CAP_READ_IMAGE",
                    "CAP_FRAME_DONE"}
    /\ e[2] \notin Polling => e[1] \notin Polling
    /\ e[1] = "CAP_POLL_FINGER" <=> e[2] = "CAP_POLL_FINGER_CHECK"
    /\ e[2] \in Polling => e[1] \in Polling
    /\ e[2] \in Pressing => e[1] \in Pressing
    /\ e[2] \in Armed => e[1] \in Armed \/ e[1] = "CAP_REARM_2"
    /\ e[2] \notin Rearming => e[1] \notin Rearming \/ e[1] = "CAP_REARM_2"
    /\ e[2] \notin Imaging  => e[1] \notin Imaging
    /\ e[1] = "CAP_REARM_2" => e[2] \in Armed
  BY DEF RowEdges, CaptureReads, CaptureWrites, CaptureDelays, Polling, Pressing,
         Armed, Rearming, Imaging

LEMMA InitWaitInv == HistoryInit => WaitInv
  <1> SUFFICES ASSUME HistoryInit PROVE WaitInv
    OBVIOUS
  <1>1. task_ssm = "NULL" /\ empty = 0 /\ idle_polls = 0
    BY DEF HistoryInit, Init
  <1>2. EmptyPolls
    BY <1>1, UncountedPolls DEF EmptyPolls, Polling, Pressing
  <1>3. QED
    BY <1>1, <1>2, UncountedPolls DEF WaitInv, Armed, Polling

LEMMA MoveIsObserved ==
  ASSUME HistoryNext, task_ssm # "NULL", task_ssm' # "NULL", task_ssm' # task_ssm
  PROVE  ObserveStep
  BY DEF HistoryNext, Starts, Ends

(* A state without empty polls is as good as any. *)
LEMMA NoEmptyPolls ==
  ASSUME IInv', empty' = 0
  PROVE  EmptyPolls'
  <1>1. spurious_polls' \in Nat /\ idle_polls' \in Nat
    BY LimitAssumption DEF IInv, TypeOK
  <1>2. Uncounted(spurious_polls') \in Nat /\ Uncounted(spurious_polls' + 1) \in Nat
    BY <1>1, UncountedPolls
  <1>3. 0 <= RenewalLimit /\ 0 <= Uncounted(spurious_polls') + idle_polls'
    BY <1>1, <1>2, UncountedPolls
  <1>4. QED
    BY <1>2, <1>3 DEF EmptyPolls, Uncounted, RenewalLimit

(* The rows of the tables. *)
LEMMA RowsKeepWaitInv ==
  ASSUME WaitInv, IInv, IInv', HistoryNext, ReadRegister \/ WriteRegister \/ DelayElapsed
  PROVE  WaitInv'
  <1>1. /\ <<task_ssm, task_ssm'>> \in RowEdges
        /\ UNCHANGED <<idle_polls, spurious_polls, frame, finger_status>>
    <2>1. CASE ReadRegister
      BY <2>1 DEF ReadRegister, fpi_ssm_jump_to_state, RowEdges, fpdevice, counters, frames
    <2>2. CASE WriteRegister
      <3>1. PICK w \in CaptureWrites : task_ssm = w[1] /\ task_ssm' = w[2]
        BY <2>2 DEF WriteRegister, fpi_ssm_jump_to_state
      <3>2. <<task_ssm, task_ssm'>> = w
        BY <3>1 DEF CaptureWrites
      <3>3. QED
        BY <2>2, <3>2 DEF WriteRegister, RowEdges, fpdevice, counters, frames
    <2>3. CASE DelayElapsed
      <3>1. PICK d \in CaptureDelays : task_ssm = d[1] /\ task_ssm' = d[2]
        BY <2>3 DEF DelayElapsed, fpi_ssm_jump_to_state
      <3>2. <<task_ssm, task_ssm'>> = d
        BY <3>1 DEF CaptureDelays
      <3>3. QED
        BY <2>3, <3>2 DEF DelayElapsed, RowEdges, fpdevice, counters, frames
    <2>4. QED
      BY <2>1, <2>2, <2>3
  <1>2. PICK e \in RowEdges : e[1] = task_ssm /\ e[2] = task_ssm'
    BY <1>1
  <1>3. ObserveStep
    BY <1>2, RowsOfTheWait, MoveIsObserved
  <1>4. /\ task_ssm = "CAP_REARM_2" => empty' = 0 /\ ~unarmed'
        /\ task_ssm # "CAP_REARM_2" => UNCHANGED <<empty, dropped, unarmed>>
        /\ ~discarded' => ~discarded
    BY <1>2, <1>3, RowsOfTheWait DEF ObserveStep, ObserveEmpty, Leaves
  <1>5. /\ empty' \in 0..EmptyCap
        /\ task_ssm' \in Armed => empty' = 0
        /\ task_ssm' \notin Polling => idle_polls' = 0
    BY <1>1, <1>2, <1>4, RowsOfTheWait, UncountedPolls DEF WaitInv
  <1>6. ~dropped' => EmptyPolls'
    <2>1. CASE task_ssm = "CAP_REARM_2"
      BY <2>1, <1>4, NoEmptyPolls
    <2>2. CASE task_ssm # "CAP_REARM_2"
      BY <2>2, <1>1, <1>2, <1>4, RowsOfTheWait DEF WaitInv, EmptyPolls
    <2>3. QED
      BY <2>1, <2>2
  <1>7. task_ssm' \notin Rearming \cup {"NULL"} => ~unarmed'
    BY <1>2, <1>4, RowsOfTheWait DEF WaitInv
  <1>8. task_ssm' \notin Imaging \cup {"NULL"} /\ frame' = NoFrame /\ ~discarded'
          => finger_status' = "NEEDED"
    BY <1>1, <1>2, <1>4, RowsOfTheWait DEF WaitInv
  <1>9. QED
    BY <1>5, <1>6, <1>7, <1>8 DEF WaitInv

LEMMA PollsKeepWaitInv ==
  ASSUME WaitInv, IInv, HistoryNext,
         PollFingerReported \/ PollFingerIdle \/ PollFingerRenew
  PROVE  WaitInv'
  <1>1. /\ task_ssm = "CAP_POLL_FINGER_CHECK"
        /\ UNCHANGED <<spurious_polls, frame, finger_status>>
    BY DEF PollFingerReported, PollFingerIdle, PollFingerRenew, fpdevice, frames
  <1>2. /\ KEEPALIVE_POLLS \in Nat \ {0} /\ idle_polls \in 0..(KEEPALIVE_POLLS - 1)
        /\ spurious_polls \in 0..SPURIOUS_MAX_POLLS /\ SPURIOUS_MAX_POLLS \in Nat
        /\ empty \in 0..EmptyCap /\ ~unarmed
        /\ ~dropped => empty <= Uncounted(spurious_polls) + idle_polls
        /\ frame = NoFrame /\ ~discarded => finger_status = "NEEDED"
    BY <1>1, LimitAssumption
    DEF IInv, TypeOK, WaitInv, EmptyPolls, Polling, Rearming, Imaging
  <1>3. /\ Uncounted(spurious_polls) \in Nat
        /\ Uncounted(spurious_polls + 1) = Uncounted(spurious_polls) + (KEEPALIVE_POLLS - 1)
        /\ Uncounted(spurious_polls + 1) + 1 <= RenewalLimit
        /\ RenewalLimit \in Nat /\ EmptyCap = RenewalLimit + 1
    BY <1>2, UncountedPolls
  <1>4. CASE PollFingerReported
    <2>1. task_ssm' = "CAP_READ_READY" /\ idle_polls' = 0
      BY <1>4 DEF PollFingerReported, fpi_ssm_jump_to_state
    <2>2. UNCHANGED <<empty, dropped, unarmed>> /\ (~discarded' => ~discarded)
      BY <1>1, <2>1, MoveIsObserved DEF ObserveStep, ObserveEmpty, Leaves
    <2>3. ~dropped => empty <= Uncounted(spurious_polls + 1) /\ empty <= RenewalLimit
      BY <1>2, <1>3
    <2>4. ~dropped' => EmptyPolls'
      BY <1>1, <2>1, <2>2, <2>3 DEF EmptyPolls, Polling
    <2>5. QED
      BY <1>1, <1>2, <2>1, <2>2, <2>4 DEF WaitInv, Polling, Armed
  <1>5. CASE PollFingerIdle \/ PollFingerRenew
    <2>1. \/ /\ task_ssm' = "CAP_POLL_FINGER" /\ idle_polls' = idle_polls + 1
          \/ /\ task_ssm' = "CAP_KEEPALIVE_WAKE_1" /\ idle_polls' = 0
      BY <1>5 DEF PollFingerIdle, PollFingerRenew, fpi_ssm_jump_to_state
    <2>2. /\ empty' = IF empty < EmptyCap THEN empty + 1 ELSE empty
          /\ UNCHANGED <<dropped, unarmed>> /\ (~discarded' => ~discarded)
      BY <1>1, <2>1, MoveIsObserved DEF ObserveStep, ObserveEmpty, Leaves
    <2>3. /\ ~dropped => empty + 1 <= Uncounted(spurious_polls) + (idle_polls + 1)
          /\ ~dropped => empty + 1 <= RenewalLimit
          /\ empty' \in 0..EmptyCap /\ empty' <= empty + 1
      BY <1>2, <1>3, <2>2
    <2>4. ~dropped' => EmptyPolls'
      <3>1. ~dropped' => /\ empty' <= RenewalLimit
                         /\ empty' <= Uncounted(spurious_polls) + (idle_polls + 1)
        BY <1>2, <1>3, <2>2, <2>3
      <3>2. QED
        BY <1>1, <2>1, <3>1 DEF EmptyPolls, Polling, Pressing
    <2>5. QED
      BY <1>1, <1>2, <2>1, <2>2, <2>3, <2>4 DEF WaitInv, Polling, Armed, Rearming, Imaging
  <1>6. QED
    BY <1>4, <1>5

(* The decisions on a press. *)
LEMMA PressesKeepWaitInv ==
  ASSUME WaitInv, IInv, HistoryNext,
         CheckReady \/ CheckPresentFinger \/ CheckPresentSpurious
  PROVE  WaitInv'
  <1>1. /\ task_ssm \in {"CAP_CHECK_READY", "CAP_CHECK_PRESENT"}
        /\ task_ssm' \in {"CAP_POLL_FINGER", "CAP_READ_PRESENT", "CAP_MODE_RESET"}
        /\ UNCHANGED <<idle_polls, frame>>
    BY DEF CheckReady, CheckPresentFinger, CheckPresentSpurious,
           fpi_ssm_jump_to_state, counters, frames
  <1>2. /\ empty' = empty /\ unarmed' = unarmed /\ (~discarded' => ~discarded)
        /\ ~dropped' => ~dropped
        /\ ~dropped' /\ task_ssm = "CAP_CHECK_READY" => task_ssm' # "CAP_POLL_FINGER"
    BY <1>1, MoveIsObserved DEF ObserveStep, ObserveEmpty, Leaves
  <1>3. /\ idle_polls = 0 /\ ~unarmed
        /\ ~dropped => empty <= RenewalLimit /\ empty <= Uncounted(spurious_polls + 1)
    BY <1>1 DEF WaitInv, EmptyPolls, Rearming, Polling, Pressing
  <1>4. ~dropped' => EmptyPolls'
    <2>1. CASE CheckReady
      <3>1. spurious_polls' = spurious_polls /\ task_ssm = "CAP_CHECK_READY"
        BY <2>1 DEF CheckReady, counters
      <3>2. QED
        BY <1>1, <1>2, <1>3, <3>1 DEF EmptyPolls, Polling
    <2>2. CASE CheckPresentFinger
      <3>1. task_ssm' = "CAP_MODE_RESET"
        BY <2>2 DEF CheckPresentFinger, fpi_ssm_jump_to_state
      <3>2. QED
        BY <1>2, <1>3, <3>1 DEF EmptyPolls, Polling, Pressing
    <2>3. CASE CheckPresentSpurious
      <3>1. /\ task_ssm' = "CAP_POLL_FINGER" /\ spurious_polls' = spurious_polls + 1
        BY <2>3 DEF CheckPresentSpurious, fpi_ssm_jump_to_state
      <3>2. Uncounted(spurious_polls + 1) \in Nat
        <4>1. spurious_polls + 1 \in Nat
          BY LimitAssumption DEF IInv, TypeOK
        <4>2. QED
          BY <4>1, UncountedPolls
      <3>3. ~dropped => empty <= Uncounted(spurious_polls') + idle_polls'
        BY <1>1, <1>3, <3>1, <3>2
      <3>4. QED
        BY <1>2, <1>3, <3>1, <3>3 DEF EmptyPolls, Pressing
    <2>4. QED
      BY <2>1, <2>2, <2>3
  <1>5. task_ssm' \notin Imaging => task_ssm \notin Imaging /\ finger_status' = finger_status
    BY DEF CheckReady, CheckPresentFinger, CheckPresentSpurious,
           fpi_ssm_jump_to_state, fpdevice, Imaging
  <1>6. task_ssm' \notin Armed
    BY <1>1 DEF Armed
  <1>7. QED
    BY <1>1, <1>2, <1>3, <1>4, <1>5, <1>6 DEF WaitInv

(* The other decisions of the machine. *)
LEMMA DecisionsKeepWaitInv ==
  ASSUME WaitInv, IInv', HistoryNext, SetTransfer \/ VerifyRetry \/ VerifyDone
  PROVE  WaitInv'
  <1>1. /\ task_ssm \in {"CAP_SET_TRANSFER", "CAP_KEEPALIVE_VERIFY_CHECK"}
        /\ task_ssm' \in {"CAP_READ_IMAGE", "CAP_KEEPALIVE_WAKE_1", "CAP_FRAME_DONE",
                          "CAP_POLL_FINGER"}
        /\ UNCHANGED <<idle_polls, frame, finger_status>>
        /\ task_ssm = "CAP_SET_TRANSFER" <=> task_ssm' = "CAP_READ_IMAGE"
    BY DEF SetTransfer, VerifyRetry, VerifyDone, fpi_ssm_jump_to_state, fpdevice,
           counters, frames
  <1>2. UNCHANGED <<empty, dropped, unarmed>> /\ (~discarded' => ~discarded)
    BY <1>1, MoveIsObserved DEF ObserveStep, ObserveEmpty, Leaves
  <1>3. /\ idle_polls = 0 /\ ~unarmed
        /\ task_ssm = "CAP_KEEPALIVE_VERIFY_CHECK" => empty = 0
    BY <1>1 DEF WaitInv, Rearming, Polling, Armed
  <1>4. ~dropped' => EmptyPolls'
    <2>1. CASE empty' = 0
      BY <2>1, NoEmptyPolls
    <2>2. CASE task_ssm' = "CAP_READ_IMAGE"
      BY <2>2, <1>2 DEF WaitInv, EmptyPolls, Polling, Pressing
    <2>3. QED
      BY <1>1, <1>2, <1>3, <2>1, <2>2
  <1>5. task_ssm' \notin Imaging => task_ssm \notin Imaging
    BY <1>1 DEF Imaging
  <1>6. task_ssm' \in Armed => empty' = 0
    BY <1>1, <1>2, <1>3 DEF Armed
  <1>7. QED
    BY <1>1, <1>2, <1>3, <1>4, <1>5, <1>6 DEF WaitInv

LEMMA ImagesKeepWaitInv ==
  ASSUME WaitInv, HInv, HistoryNext, ReadImageBadHeader \/ ReadImageFlat \/ ReadImageGood
  PROVE  WaitInv'
  <1>1. /\ task_ssm = "CAP_READ_IMAGE" /\ task_ssm' = "CAP_REARM_READ"
        /\ idle_polls' = idle_polls
    BY DEF ReadImageBadHeader, ReadImageFlat, ReadImageGood, fpi_ssm_jump_to_state, counters
  <1>2. UNCHANGED <<empty, dropped>> /\ (frame' = NoFrame => discarded')
    BY <1>1, MoveIsObserved DEF ObserveStep, ObserveEmpty, Leaves, GoodFrame
  <1>3. ~dropped' => EmptyPolls'
    BY <1>1, <1>2 DEF WaitInv, EmptyPolls, Polling, Pressing
  <1>4. QED
    BY <1>1, <1>2, <1>3 DEF WaitInv, Armed, Rearming, Polling, Imaging

LEMMA StagesKeepWaitInv ==
  ASSUME WaitInv, IInv', HistoryNext, FrameDoneStage
  PROVE  WaitInv'
  <1>1. /\ task_ssm = "CAP_FRAME_DONE" /\ task_ssm' = "CAP_POLL_FINGER"
        /\ finger_status' = "NEEDED"
    BY DEF FrameDoneStage, fpi_ssm_jump_to_state
  <1>2. UNCHANGED <<empty, dropped, unarmed>>
    BY <1>1, MoveIsObserved DEF ObserveStep, ObserveEmpty, Leaves
  <1>3. empty' = 0
    BY <1>1, <1>2 DEF WaitInv, Armed
  <1>4. EmptyPolls'
    BY <1>3, NoEmptyPolls
  <1>5. QED
    BY <1>1, <1>2, <1>3, <1>4 DEF WaitInv, Armed, Rearming, Polling

(* The end of an action, its start, and the cancellation. *)
LEMMA EndsAndCallsKeepWaitInv ==
  ASSUME WaitInv, IInv', HistoryNext,
         \/ TransferFails \/ CheckPresentFails \/ FrameDoneComplete
         \/ dev_enroll \/ dev_other \/ Cancel
  PROVE  WaitInv'
  <1>1. CASE TransferFails \/ CheckPresentFails \/ FrameDoneComplete
    <2>1. task_ssm' = "NULL" /\ idle_polls' = 0
      BY <1>1 DEF TransferFails, CheckPresentFails, FrameDoneComplete,
                  capture_ssm_failed, capture_ssm_completed, reset_task
    <2>2. task_ssm # "NULL"
      BY <1>1, ReadRows, WriteRows
      DEF TransferFails, TransferState, CheckPresentFails, FrameDoneComplete
    <2>3. UNCHANGED <<empty, dropped>>
      BY <2>1, <2>2 DEF HistoryNext, Starts, Ends, history
    <2>4. ~dropped' => EmptyPolls'
      BY <2>1, <2>3 DEF WaitInv, EmptyPolls, Polling, Pressing
    <2>5. QED
      BY <2>1, <2>3, <2>4 DEF WaitInv, Armed
  <1>2. CASE dev_enroll \/ dev_other
    <2>1. /\ task_ssm = "NULL" /\ task_ssm' = "CAP_POLL_FINGER"
          /\ finger_status' = "NEEDED"
      BY <1>2 DEF dev_enroll, dev_other, start_capture
    <2>2. empty' = 0 /\ ~unarmed'
      BY <2>1 DEF HistoryNext, Starts, ObserveStart
    <2>3. empty' \in 0..EmptyCap /\ EmptyPolls'
      BY <2>2, NoEmptyPolls, UncountedPolls
    <2>4. QED
      BY <2>1, <2>2, <2>3 DEF WaitInv, Armed, Rearming, Polling
  <1>3. CASE Cancel
    <2>1. UNCHANGED <<task_ssm, idle_polls, spurious_polls, frame, finger_status>>
      BY <1>3 DEF Cancel, counters, frames
    <2>2. UNCHANGED <<empty, dropped, unarmed, discarded>>
      BY <2>1 DEF HistoryNext, Starts, Ends, history
    <2>3. QED
      BY <2>1, <2>2 DEF WaitInv, EmptyPolls
  <1>4. QED
    BY <1>1, <1>2, <1>3

LEMMA NextKeepsWaitInv ==
  ASSUME HInv, HInv', WaitInv, [HistoryNext]_hvars
  PROVE  WaitInv'
  <1>1. CASE UNCHANGED hvars
    BY <1>1 DEF WaitInv, EmptyPolls, hvars, vars, history, fpdevice, counters, frames
  <1>2. CASE HistoryNext
    BY <1>2, RowsKeepWaitInv, PollsKeepWaitInv, PressesKeepWaitInv,
       DecisionsKeepWaitInv, ImagesKeepWaitInv, StagesKeepWaitInv,
       EndsAndCallsKeepWaitInv
    DEF HInv, HistoryNext, Next, capture_run_state
  <1>3. QED
    BY <1>1, <1>2

(* The counters of the wait for a finger are in step with what the history *)
(* has seen of it: the inductive invariant of the wait (CAP_POLL_FINGER).  *)
THEOREM WaitInvariance == HistorySpec => []WaitInv
  <1>1. HInv /\ HInv' /\ WaitInv /\ [HistoryNext]_hvars => WaitInv'
    BY NextKeepsWaitInv
  <1>2. QED
    BY InitWaitInv, FramesInvariance, <1>1, PTL DEF HistorySpec

(* Reports of a finger set idle_polls back to zero, but only a press that  *)
(* CAP_CHECK_READY drops escapes the limit on spurious presses: without    *)
(* one, 0x1f and 0x1e are written again after RenewalLimit empty polls.    *)
THEOREM RenewalsInTime == HistorySpec => []RenewedInTime
  <1>1. WaitInv => RenewedInTime
    BY DEF WaitInv, EmptyPolls, RenewedInTime
  <1>2. QED
    BY <1>1, WaitInvariance, PTL

(* No path leads from an image to the poll around the re-arm. *)
THEOREM PollsArmed == HistorySpec => []PollsOnlyAnArmedSensor
  <1>1. WaitInv => PollsOnlyAnArmedSensor
    BY DEF WaitInv, PollsOnlyAnArmedSensor, Rearming
  <1>2. QED
    BY <1>1, WaitInvariance, PTL

(* The prompt for a press survives renewals, spurious reports and dropped  *)
(* presses, and comes back for each stage.                                 *)
THEOREM PressesArePrompted == HistorySpec => []PromptedForEachStage
  <1>1. HInv /\ WaitInv => PromptedForEachStage
    BY DEF HInv, FramesInv, WaitInv, PromptedForEachStage, BeforeImage, Imaging
  <1>2. QED
    BY <1>1, FramesInvariance, WaitInvariance, PTL
=============================================================================
