# Formal models of the FocalTech FT9201 driver

This directory holds TLA+ models of the libfprint driver in `driver/`, the TLC
configurations that check them, and proofs for TLAPS.  Everything is translated
from `driver/focaltech_ft9201.c` and `.h`; `docs/PROTOCOL.md` and the comments
are used for what they *claim*, and four of those claims are checked and found
to differ from the code (last part of "What the runs show").  Two further modules
model `ft9201-extract-firmware.py`, which makes the firmware file.  The sensor
itself is not in the repository; the module of the sensor says what the document
reports of it, and only the properties of the composed system rest on it.

## 1. The system and its parts

The driver is one GObject, `FpiDeviceFocaltechFt9201`, run by one GLib main
loop inside libfprint.  There are no threads.  All concurrency is the
interleaving of three parties: the driver's state machine (`FpiSsm`, one at a
time in `task_ssm`), the USB sensor that answers transfers, and the client of
libfprint, which opens, closes, starts an action, and may cancel at any moment.

| Part | State it keeps | Operations | Talks to |
|---|---|---|---|
| Activation (`activate_run_state`) | `reg_buf`, `chip_id`, the dimensions, `retry_count`, `rearm_retries`, `fw_reloaded` | `dev_open`, 42 states, `activate_ssm_done`, `dev_close` | sensor by control transfers, disk, libfprint |
| Firmware download | `fw_data`, `fw_step`, the constant table | `ft9201_load_firmware`, `FW_STEP`, `FW_NEXT`, `ft9201_note_sfr_read` | entered by the activation from two places |
| Capture machine (`capture_run_state`) | `spurious_polls`, `idle_polls`, `rearm_retries`, `frame`, `enroll_frames`, `action` | `dev_enroll/verify/identify/capture`, 24 states, `ft9201_frame_read_cb`, `capture_ssm_done`, `ft9201_reset_task` | sensor, libfprint (finger status, progress, result) |
| USB helpers | `reg_buf` | `ft9201_ctrl_in/out`, `ft9201_bulk_out` and callbacks | the sensor, with timeouts and the cancellable |
| Template storage | none (data in the `FpPrint`) | `ft9201_template_pack/unpack` | the end of an enrolment, and each comparison |
| Match decision | the threshold, read once in a process | `ft9201_match_template`, `ft9201_match_threshold`, the choice of identify | `capture_ssm_done` |
| Match numerics | none | filters, keypoints, `ft9201_match_pair` | the match decision |
| Sensor | code RAM, power, armed state | answers | outside the source; known from `docs/PROTOCOL.md` |
| Extractor (`ft9201-extract-firmware.py`) | link types and payloads of a capture; the entries of the catalog | `main`, `download_driver_cab`, `extract`, `extract_from_binary` | the catalog, programs that unpack; makes the file that the download reads |
| Tools, packaging | none | offline programs | none of the above |

What is hard here, and hard to test on a sensor whose faults are "not
deterministic" (the driver's own words):

* **Shared scratch state.** Every read lands in the one `reg_buf`; one
  `retry_count` serves three loops; one `rearm_retries` serves both machines.
* **Jumps.** Both machines are lists of states with jumps over, into and out of
  them; the comment at `ACTIVATE_WAIT_READY_CHECK` reports one endless loop
  that came from a step where a jump was needed.
* **Recovery in the middle.** The activation may send new firmware after it
  configured the sensor, and then everything has to be done again.
* **Every transfer can fail,** by stall, timeout, unplugging or cancellation,
  in about fifty states, and what is held then must be given back.
* **One path, three users.** The arm states of the capture serve a good frame,
  a discarded frame and the renewal; `self->frame` alone tells where to go on.
* **Loops without a limit by design,** next to loops that must have one.
* **A sensor with a past.** Closing does not put the sensor to rest, and a
  process can end anywhere; the next open finds it asleep, searching, armed or
  in the middle of a download, and silence has two meanings.
* **Stored data from elsewhere.** A print comes back from the disk in another
  process, with other firmware, a sensor turned by 90 degrees, or damaged.

What makes each part correct is stated as the properties of section 4.

## 2. Modules

| Module | What it is |
|---|---|
| `Ft9201Protocol` | constants and the tests on the status register |
| `Ft9201FirmwareScript` | the download table of the driver, entry by entry |
| `Ft9201Activation` | the activation and the download, one action per state with a decision |
| `Ft9201ActivationHistory` | history variables for the activation, and the properties that need them |
| `Ft9201Capture` | the capture machine and the end of an action |
| `Ft9201CaptureHistory` | the same for the capture machine |
| `FpDevice` | the abstract device: what libfprint and an application see |
| `Ft9201Driver` | both machines on one device; implements `FpDevice` |
| `Ft9201Sensor` | the sensor (external) |
| `Ft9201System` | the driver and the sensor, with crashes and unplugging |
| `Ft9201Template` | pack and unpack of a stored print, on pixels |
| `Ft9201Matching` | the score of a template, the threshold, and the results of enrol, verify and identify |
| `Ft9201Features` | the keypoints of a frame, and the score of two frames |
| `Ft9201Extractor` | the extraction of the image from a binary or a USB capture |
| `Ft9201FirmwareTool` | the program around it: arguments, catalog, cabinet, output file |
| `Ft9201Activation_proofs`, `Ft9201Capture_proofs`, `Ft9201Driver_proofs`, `Ft9201System_proofs`, `Ft9201Matching_proofs`, `Ft9201Features_proofs`, `Ft9201FirmwareTool_proofs` | theorems and proofs |
| `LoopTheorems` | induction for loops: a set of natural numbers has a least member, induction up to a bound, and a recursive function of the number of rounds exists and is the only one |
| `MC...Values` | sensors, disks, pictures and sizes for TLC |
| `MC...` | a specification together with its values |

### How the state corresponds to the code

Variables have the names of the fields of `struct _FpiDeviceFocaltechFt9201`.

* `task_ssm` is the state that the running machine will execute next, or
  `"NULL"`.  libfprint runs a state, the state submits a transfer or a delay,
  and the callback moves on; nothing else of the driver runs in between, so
  one action is the code of one state up to and including the callback of its
  transfer.  The cancellation can still fall between any two of them.
* States that only exchange bytes are rows of three tables (`RegisterReads`,
  `RegisterWrites`, `Delays`, and the same for the capture) that say which
  register they read and where they go; states with a decision have an action
  of their own.
* A read gives *any* pair of bytes of `Reply[register]`, anew at each read.  So
  the model has the sensor that is silent, busy, idle, that changes its mind,
  that loses power, or that sends a short answer.  The two bytes are those
  that the driver looks at; it never looks at the other two.
* `fw_data` is the length of the image, 0 for `NULL`.  A load reads the disk
  anew, so the file may change or vanish between two loads.
* A frame is a member of `Picture`.  The two tests of `ft9201_frame_read_cb`
  are the actions `ReadImageBadHeader`, `ReadImageFlat`, `ReadImageGood`; a
  frame of one pixel is always flat, as in the code.
* A transfer with a cancelled cancellable fails; an uncancelled one may fail
  too (`TransferFails`).  Delays are not cancellable.
* `device`, `claimed`, `cancelled`, `open_error` (activation) and `cancelled`,
  `finger_status`, `outcome`, `delivered` (capture) are libfprint's view: what
  was reported to it and what it may ask for next.
* The capture machine starts from an open device: `Init` takes any dimensions
  that the activation can store.

* In `Ft9201Matching` a frame is the sequence of its pixels and a print is the
  variant of the code, `(w, h, blob)`.  `value` and `known` are the static
  variables of `ft9201_match_threshold`; the text of the environment variable is
  the record of what the tests of the parser see of it.  Scores and thresholds
  are hundredths; the score of one pair of frames is the constant operator
  `ft9201_match_pair`.  The loops of `ft9201_match_template`, of identify and of
  the packing are recursive functions of the number of rounds, with the
  accumulators of the code, so that they can be reasoned about.
* In `Ft9201Extractor` one action reads one block of a capture.  Where the code
  takes the maximum of a set, the choice among equals is open.
  `Ft9201FirmwareTool` has one action for each request and each program; every
  one of them may fail, and a directory or a local variable that the code has
  left is empty again.
* `Ft9201Driver` instantiates the two machines on one set of variables.  Each
  action is an action of one machine; the variables that only the other machine
  writes stay.  What they share (`shared`) is visible to both, so the capture
  runs with the size that the activation stored.
* `Ft9201System` gives each step of the driver its effect on the sensor
  (`Effect`), and each read the sensor's answer (`AnswersTruly`), which takes the
  place of the open `Reply`.  A transfer that fails may have reached the sensor
  or not.  `Crash` ends the process between any two steps: the variables of the
  driver go back to their first values and the sensor stays as it is.  `Replug`
  also takes the power from the sensor.
* `Ft9201Features` computes in exact numbers.  A mean is kept as the sum with its
  weights; the difference of two Gaussians is multiplied with both weights; the
  turn of two pairs is a complex number that is not divided by its length, and
  a comparison with its root is squared (`RootBelow`).  The loops over pixels and
  keypoints are recursive functions of the number of rounds, and a sum (`Total`)
  is one of them.  A descriptor is one number, since only the order of the
  distances matters to what follows.

### The refinement of the abstract device

`ImplementsFpDevice` is `Abstract!Spec` with

* `doing`: the action of the running machine on an open device, else `"nothing"`;
* `progress`: the number of frames in `enroll_frames`;
* `taken`: the frames of `enroll_frames`, with `self->frame` behind them if there
  is one.

`device`, `cancelled`, `finger_status`, `outcome` and `delivered` are the same in
both.  A state in which the driver only exchanges bytes is a stutter; a
good image is `Take`, the end of an enrolment stage `NextStage`, the end of the
machine `Finish` or `Fail`.

The history variables (`answered`, `polls`, `rearms`, `downloads`, `prepared`,
`silent`; `shots`, `empty`, `dropped`, `presses`, `discarded`, `unarmed`) read the
steps of the machine and never restrict one.

## 3. Bounds

The activation is checked with the limits of the header itself:
`FT9201_REARM_MAX_RETRY` 3, `FT9201_AUTO_POWER_MAX_RETRY` 5,
`FT9201_MCU_READY_MAX_POLLS` 50, and with the whole download table.
`MCFt9201Values` gives the status register the four answers the driver can tell
apart (`a5 5a`, `01 01`, silence, and a half answer), the others a good and a
bad one, and the disk a missing file, an empty one, one below the minimum, the
known image, one that is no multiple of 64, and one above the maximum.

The capture is checked with `REARM_MAX_RETRY` 2, `KEEPALIVE_POLLS` 3,
`SPURIOUS_MAX_POLLS` 2 and `ENROLL_STAGES` 3 instead of 3, 1000, 25 and 15.
Each is only compared with a counter, and the small values still let every
comparison come out each way with the counter below, at and reset from its
limit; three stages have a first, a middle and a last.  The proofs hold for all
values.  Two pictures are enough to tell a frame that is used twice or lost
from one used once; the dimensions are the usual 96x96, the largest 255x255 and
the 1x1 that a busy MCU fakes.  `PressCap` bounds the history counter of
presses one above the value that the violated property forbids, and `EmptyCap`
that of the polls without a finger one above the limit of `RenewedInTime`; both
history counters saturate and stop no step.

`matching` has frames of two pixels with two values, on sensors of 1x2 and 2x1,
so a print of the other sensor has the right number of bytes.  A pair of frames
scores 0, exactly the threshold, or more.  Enrolment has two stages, with all
sixteen templates; three foreign prints of three frames bring three different
scores in a falling, rising and mixed order, and the others fail at each test of
unpack.  Two prints (`MaxPrints`) give every order of a better, an equal and an
unusable one.  `extractor` has all binaries of up to seven bytes with units of two, and
all captures of up to six blocks (`MaxBlocks`) to three devices, the fewest of
which one can be outvoted; the catalog page has up to four rows (`MaxRows`) of three
entries, of which two are tried (`MAX_DIALOGS`) instead of five, so the page can
have fewer, as many and more entries than the limit.

`driver` and `system` have limits of 1 for the loops, two polls before a renewal
and two stages, and a short download that keeps the requests of which the
machines or the sensor take notice (`MCScript`); the loops by themselves are
checked with their full limits in `activation`, and here it is the order of the
operations that matters.  `driver` has a sensor that answers anything and two
pictures, so that a lost frame and one used twice can be told apart.  In `system`
the sensor decides the answers.  `MaxMisses` is 2: a write of `0x1e` may have no
effect twice in a row, as many arm operations as `REARM_MAX_RETRY` 1 allows
before the recovery, so the recovery is reached.

`system_opened` has the same limits and starts at the end of an open operation
(`OpenedInit`), with `[][SystemNext /\ device' = "open"]_system`.  Liveness needs
no more: an execution of `SystemSpec` that violates `FingerIsSeen` has an action
that never ends, so from the last open operation before it the device stays open
for ever, and this suffix is an execution of `OpenedSpec`.  That such a sensor
has its whole code, is armed, and hunts or was given up by the recovery is the
theorem `OpensStartTheSearch`.  `fw_step` and `fw_reloaded` are those of a warm open
or of a recovery; the capture machine reads neither.  What an earlier action of the same open device
leaves behind is inside the run; with the open operation in it, too, the state
space is ten times as large and the temporal check takes too long.

The history of `activation`
counts downloads up to three, one more than `EveryDownloadHasAReason` allows.

`features` has all black and white frames of 3x3 and 2x4 pixels, with a box that
is wider than the frame, kernels of different widths, a border of one pixel
and an array of three keypoints, so that a full array occurs; and 234,000 pairs
of four shapes of three to five keypoints with four descriptors in every order.
Motions, distances and the ratio test come out each way there.

Nothing else is bounded: no state or action constraint is used.

Deadlock is checked in every run of the driver: a closed device can always be
opened and an open one used.  The extractor and the computations of the matcher
end, and their runs do not check it.

## 4. What the runs show

**`activation`** (about 585,000 states).  Types and limits; the interface and
the image belong to the open operation on every way out
(`OwnsOnlyWhatItUses`); only a usable image is streamed, and the table is never
read past its end (`StreamsOnlyAUsableImage`); an open device was prepared
completely by the code that runs in it now, also after the recovery download
(`OpenMeansPrepared`); no download without one of the two reasons
(`EveryDownloadHasAReason`); no decision on a stale `reg_buf`
(`DecidesOnItsOwnAnswer`); the shared `retry_count` never cuts a wait short
(`GivesUpOnlyAfterFullBudget`); an idle MCU is accepted only after all of the
recovery (`IdleOnlyAfterFullRecovery`).  Under fairness the polls, nudges,
re-arms and the recovery download form no endless cycle (`OpenTerminates`).

**`capture`** (about 416,000 states).  `NothingOutlivesAnAction`;
`FrameDoneHasItsFrame` (the two pointers used without a test);
`AnnouncedIsRead` (16-bit request against the `gsize` of the read);
`GoodFramesAreUsedOnce`; `ResultsAreFromThisAction`;
`PollsOnlyAnArmedSensor`; `PromptedForEachStage`.  `RenewedInTime` counts the
polls without a finger since `0x1f` and `0x1e` were last written, over all
reports between them (`empty`), which is not what `idle_polls` counts: each
report sets that back to zero and writes nothing.  As long as
`CAP_CHECK_READY` drops no press since that write (`dropped`), each report that
leads to no image counts in `spurious_polls`, so the polls stay within
`RenewalLimit` = (`SPURIOUS_MAX_POLLS` + 1) * (`KEEPALIVE_POLLS` - 1) + 1; with
the numbers of the header that is 25,975 polls, about 35 minutes, and not 1000.
With dropped presses there is no limit at all: the machine may see 999 polls
without a finger, drop a press, and see 999 more.  Under fairness: a good frame
does not wait for ever for the sensor to hunt again (`FrameIsUsed`), and a
cancelled action ends (`CancelEndsTheAction`).

**`matching`** (about 316,000 states).  `EnrolledFramesSurvive` (what an
enrolment packs, every later unpack gives back); `VerifyNeedsTwoFrames` and
`IdentifyAgreesWithVerify` compare the decisions with a reference that counts
the frames which reach the threshold, pixel by pixel and without a loop, and
that knows nothing of first, second and scored; `IdentifyFindsTheBest`.  A
template of one frame, which only the disk can bring, is accepted by its one
frame.

**`driver`** (about 606,000 states).  `ImplementsFpDevice`: whatever the sensor
and the disk give, an application sees one operation at a time, one frame of a
reported finger for each stage, no frame without a finger, results from exactly
the frames of their action, an end to each open operation and to each cancelled
action.  `OneMachineOnItsInterface`: the machine that runs is the machine of the
operation, on a claimed interface, with a size that is not zero.

**`system`** (about 1,100,000 states).  With the image on the disk only a
failed transfer or claim makes an open fail, whatever a crash, a close or a loss
of power left behind (`OnlyTransfersFailAnOpen`); the image is never sent to a
sensor that has it and only sleeps (`SilenceMeansNoCode`); an open that succeeds
has started the search or has tried the recovery (`OpenStartsTheSearch`).

**`system_opened`** (about 102,000 states).  While the sensor is armed, a finger
that stays gives its frame or the action ends (`FingerIsSeen`): also after a
press that was dropped or counted as spurious because it made the MCU busy, a
report that stopped before it was read, a search that ran out, a write that did
not take, or a previous action that ended between its image and its arm writes.
An action that ends there leaves `0x1f` and `0x1e` unwritten, although the
comment at `enum capture_states` has them written "after each frame"; the
renewal of the next wait makes up for it.  The property stops where the engine has
lost its armed state (`~armed`).  The re-arm of the capture writes `0x1f` and
`0x1e` and not `0x30`, so nothing in the action brings `0xbb` back; each press
is then dropped, without a limit, which is what `capture_presses` shows.

**`features`** (about 469,000 states).  `BoxIsWindowSum` compares the running sum
with the sum over the window.  `TurnedFrameHasTurnedKeypoints`: the detection
prefers no direction; it does once the array is full, since the search then
stops before the lower lines.  `ScoreSurvivesMotion`, `EveryMotionFitsItsPairs`
(sign and order of the turn and the movement) and `RepeatedTextureScoresNothing`
(the ratio test as its comment explains it).  Two keypoints of the stored frame
may choose the same partner, so a score can be greater than 1.

**`extractor`** (about 288,000 states).  `BinaryImageIsComplete`,
`CaptureImageIsOneDownload`; a download that went whole to more than half of the
devices of a capture is the image, whatever torn or doubled downloads the others
got (`MostDownloadsDecide`, which takes the downloads by the places of the
payloads and knows nothing of runs, sets and counts); and the download gives up
without an address only when none of the entries that it may ask for has one
(`GivesUpOnlyWithoutACabinet`).

Every property has a mutant of the code that breaks it (`mutants` in
`PROJECT.json`); the mutated operator stands before the original.

Four runs are expected to be violated.  Each states a claim of a document or
a comment, and TLC shows an execution of the code that differs:

| Run | The claim | The code |
|---|---|---|
| `activation_stale_rearms` | the sensor is armed again three times before the recovery | `dev_open` does not reset `rearm_retries`; after an open that failed behind a re-arm the recovery comes early |
| `activation_no_firmware` | "the sensor has no firmware loaded" | the recovery of a sensor that runs its firmware fails with this error when the file is missing |
| `capture_presses` | a limit stands on presses without a usable frame | the presses dropped at `CAP_CHECK_READY` are not counted |
| `extractor_size` | "Bounds on what we are willing to call a firmware image" | not applied to an image from a binary |

## 5. Fairness

`FairHistorySpec` of the activation and `HistoryFairSpec` of the capture have weak
fairness of the machine's step and of nothing else: each
transfer has a timeout (`FT9201_CTRL_TIMEOUT_MS`, `FT9201_BULK_TIMEOUT_MS`,
`FT9201_FW_TIMEOUT_MS`), so its callback comes, and the main loop runs the
delays.  *Which* way a transfer ends is free: no answer is ever assumed to come
eventually.  Nobody has to open, close, act or cancel.  So `OpenTerminates`
holds for the most contrary sensor, and nothing is claimed about a user who
never presses.  `FairSpec` of the driver is the same for its two machines; it
implies the fairness of the abstract device.

`Fairness` of `Ft9201System` has the weak fairness of both machines and of the
end of a cancelled transfer, and these of the sensor:

* `Settles`, weak: a press keeps the MCU busy for a moment and not for ever.
* `Found`, strong: a search can run out before it finds the finger, and only a
  new one by the driver gives it another chance.  Of searches that are started
  again and again while the finger stays, one succeeds.
* `AsksPress`, strong, of `CAP_POLL_FINGER` and of each of the three reads of a
  press: of the presses that are found again and again, one is polled while
  the sensor still reports it, and at each read the MCU is not busy every time.

None of them says that a search is ever started or a press ever asked, which is
what the driver has to do.

### What is assumed of the sensor

`Ft9201Sensor` and the actions `Finger` to `Disarms` of `Ft9201System` assume:

* It answers zeroes while its code is empty or torn.  The wake handshake makes it
  idle from each mode (`docs/PROTOCOL.md`, lines 35 and 415).
* A write of `0x1e` misses at most `MaxMisses` times in a row.
* A finger makes the MCU busy when it arrives, or not, and again at any of the
  reads `0x30`, `0x1d` and of the image, or not (`PressReads`).  A busy MCU
  answers `01 01` to each register and gives no image; `0x43` reports the finger
  all the same (the comment at `CAP_CHECK_READY`).
* The report of a press stops after half a second, also when the finger stays
  (`docs/PROTOCOL.md`, lines 84 to 92).  This, the end of a search, and the sleep
  of an idle AFE are long against the steps of a machine, so they fall only where
  the driver waits (`SensorWaits`): the poll for a finger, no machine, or the
  first read of an open operation.  A busy press settles before its report
  stops.
* A finger that stays may be found again by the next search; one that arrives may
  start an AFE that has removed its power.
* The capture engine may lose its armed state at any time while an action runs or
  the device is idle (`Disarms`), but not while an open operation runs:
  between the write of `0x30` and the end of the open it stays armed.
  `OnlyTransfersFailAnOpen` and `OpenStartsTheSearch` rest on this; a sensor that
  loses it there fails the open at `ACTIVATE_ARM_VERIFY_CHECK`.
* It loses its power only when it is unplugged, which is the purpose of
  `packaging/60-ft9201-no-autosuspend.rules`.

## 6. Proofs

A run shows a property for the values of its configuration; a theorem shows it
for every value of the constants that satisfies the named assumptions of the
modules.  These are:

| Module | Assumptions |
|---|---|
| `Ft9201Activation` | the replies to a register are a non-empty set of byte pairs; a file is a length or missing; the table has exactly one end marker, its last entry, and exactly one entry that sends the image; the three limits are natural numbers, zero included |
| `Ft9201Capture` | the same of the replies; width and height are 1 to 255 (`ACTIVATE_STORE_DIM_HEIGHT` lets no zero pass); "no frame" is no picture; the renewal interval and the number of stages are not zero |
| `Ft9201Driver` | those of the pictures and the stages |
| `Ft9201System` | each file on the disk is a usable image; behind its last write of the code RAM the table has a `FIRMWARE_COMMIT`; the wait for the MCU has at least one poll |
| `Ft9201Template`, `Ft9201Matching` | the dimensions and the stages are not zero; the threshold lies between its limits; the score of two frames is a natural number; a text of the environment parses to an integer; a print of another client has the fields of the variant with any contents |
| `Ft9201Features` | the tolerance, the shortest distance of two pairs and the limits of the search are not zero; the border is at least a step; a kernel has an odd number of weights, the same on both sides of the middle (the weight at `i` depends on `i * i`); a frame has at least one pixel; the keypoints have integer places and descriptors whose distances are below `G_MAXFLOAT` |
| `Ft9201Extractor`, `Ft9201FirmwareTool` | a unit has at least one byte; `FW_TABLE_SIG` is not made of zeroes (it is `1e28323c46505a62`); files and payloads are sequences of bytes; the devices of a capture are a finite set; at least one dialog is tried |

### The activation

`IInv` is `TypeOK`, `OwnsOnlyWhatItUses`, and two parts that make them
inductive: `ImageInv` (an image in memory is usable, and is there in the
download states; `FW_NEXT` never stands on the end marker, so `fw_step + 1` is
still inside the table) and `ChipIdInv` (between its two reads the low byte of
`chip_id` is zero, so the sum stays a 16-bit number).  Three lemmas say that a
jump, a failure and a completion keep `IInv`; each action is then one of them.
`StreamsOnlyAUsableImage` follows from `IInv` and the arithmetic of lengths.

The history properties add `HInv`.  Its `PreparedInv` orders the states by what
was done to the sensor before them (`Detecting` inside `Armed` inside
`Configured`, and so on): a machine in such a state has the preparation behind
it.  `DownloadsInv` says that a pass through the table is paid for by its reason
when it starts and not when it ends, so a pass that has not sent its image yet
has a reason to spare.  `PollsInv` ties `retry_count`, which three loops share,
to the number of answers that the loop got, and it is zero where no loop runs, so
no loop starts with the count of another; `RearmsInv` does the same for the
re-arms behind the recovery download.

### The capture

`IInv` is `TypeOK`, `NothingOutlivesAnAction`, `FrameDoneHasItsFrame` and
`AnnouncedIsRead`.  They need each other: only because the last action left no
array does an action that is not an enrolment have none, and only because of
that is the array in `CAP_FRAME_DONE` the enrolment's own.  The length is a
matter of arithmetic: 255 * 255 + 2 is less than 65536 (`ImageFits`).

`HInv` adds the two properties of the frames and `FramesInv`: in the states from
the poll for a finger to the image (`BeforeImage`) the machine holds no frame.
This makes `GoodFramesAreUsedOnce` inductive, because a new image would
otherwise overwrite a frame that waits.  `RowsBeforeImage` reads it off the
tables: only the poll leads into these states, and `VerifyDone` returns to the
poll only without a frame.  `WaitInv` does the same for the wait: the sensor is
unarmed only inside the re-arm, a prompt stands while the machine polls, and
`EmptyPolls` bounds the polls without a finger by the two counters of the code.
While no press was dropped, each report since the last write has raised
`spurious_polls` or is still being asked for (`Pressing`, `Uncounted`), and
between two reports fewer than `KEEPALIVE_POLLS` polls fit; so the polls are at
most `spurious_polls` * (`KEEPALIVE_POLLS` - 1) + `idle_polls`, with one run more
for a press that is not counted yet.

### The driver, and the refinement

`DInv` is `MachineInv` (which machine runs while the device is in which state,
on a claimed interface and with a size) and `ActionInv` (what the capture holds
at its states: no frame before the image, a reported finger while the image is
read, fewer frames than stages, and nothing between actions). The refinement is
proved one step at a time: `InitRefines`, `OpenRefines`, `ActionRefines` and
`StepRefines` show that each action of either machine is an action of `FpDevice`
or a stutter under the mapping of section 2, and `DriverIsAnFpDevice` states
`Spec => Abstract!Safety`, the safety half of `ImplementsFpDevice`.

### The driver with its sensor

`SInv` relates the state of the machine to the state of the sensor at each place
where the driver assumes something: behind the handshake a silent sensor has no
code (`WakeInv`); behind `FIRMWARE_COMMIT` it has (`DownloadInv`); a sensor with
code that was nudged once is awake (`WaitInv`); while it is identified, armed and
switched on it is awake and answers what the driver asks for (`AnswerInv`); and at
the last decision it is busy if and only if it searches (`SearchInv`).  A press
makes the MCU busy only at its own reads, which no open operation makes, or when
the finger arrives in the wait for the MCU, where a nudge follows.  `Crash` and
`Replug` are steps like all others, so the theorems hold for a sensor that any
earlier process left in any mode.

### Loops: matching, the score and the extraction

What a loop computes is proved by induction over the number of its rounds.  The
induction theorems of the library take a predicate as a parameter, which the
provers cannot instantiate; `LoopTheorems` has the set of the rounds that are
right instead.  That natural numbers have a least one is proved there from the
library's theorem that strict inclusion of finite sets is well-founded, and
`LoopExists` gives the equations of a recursive function.  So:

* *Storage*: `PackedFrames`, `UnpackedFrames` and `RoundTrip` show that unpack
  finds each frame at its offset, for all sizes and all numbers of stages.
* *Match decision*: `Best`, `ScoreFrameKeepsBest`, `BestScoresOfFrames` and
  `TemplateScore` show that the two accumulators of the loop are the best and the
  second best score of the frames; `PrintScores` and `BestCandidates` do the loop
  of identify.  `MInv` is `ThresholdInv` (the two static variables hold the
  threshold of the process or its default), `SensorSize`, `PrintsInv` (types, and
  one origin for each print), `ReportInv` (a report is of a print that is there),
  and the properties.
* *Score*: `NearestTwo` shows that one pass keeps the two best distances, so a
  best one that occurs twice is both, and the ratio test refuses it.  `PairsType`
  and `PairsAfterMove` do the loop that makes the pairs.  The motions are
  polynomials over the integers: `TurnTakesOver` and `SecondFits` show that the
  turn of two pairs takes one distance over to the other up to the tolerance,
  with the root of `RootBelow` bounded by `WithinTheRoot`, and `SameTurn` and
  `InlierAfterMove` show that a right angle cancels out of each comparison.
* *Local mean*: `TotalSteps` and `SumsEndWithTotal` are the equations of a sum and
  say that nothing else has them; what follows about sums (reversed, moved by one,
  multiplied, a table by lines or by columns) needs no induction any more.
  `WindowMoves` is one step of the running sum and `RunningSumIsWindowSum` all of
  them; `BoxIsBoxSum` puts the lines and the columns together.
* *Detection*: `GaussIsKernelSum` makes one sum over the window of the two passes.
  In a frame turned by a right angle its terms stand in another order
  (`TermTurned`), which the symmetry of the kernel and the exchange of lines and
  columns undo (`KernelSumTurned`).  `ExtremumTurned` needs that the border is as
  wide as a step, so that no neighbour is outside.  `Collected` is the invariant
  of the search: the array has all extrema of the pixels so far, or is full.  The
  turn is a bijection of the extrema (`ExtremaTurned`), so the array of the turned
  frame is full exactly if that of the frame is.
* *Extraction*: `ScanStepKeeps` and `LongestRun` (the best run so far is whole,
  the current one ends here, and one of the two is as long as any before),
  `FlattenedUnits`, `ImageLength` and `PaddedUp`.  `CandidateIsLongest` shows that
  the run that the loop finds is one that is longest by the places of the
  payloads; a download of more than half of the devices is then the candidate of
  each of them, and no other can have as many (`MajorityIsTaken`, by the
  cardinalities of disjoint sets).  `EInv` adds that nothing is
  extracted before the end and that a capture has no binary.
* *Catalog*: `UpdateIds` (every entry, once) and `DialogInv`; that as many entries
  as dialogs were asked is the count of a bijection (`AskedAreManyOrAll`).

### The theorems

(`Activation` stands for `Ft9201Activation_proofs`, and so on.)

| Theorem | States |
|---|---|
| `Activation!Invariance` | `Spec => []IInv` |
| `Activation!TypeCorrectness` | `Spec => []TypeOK` |
| `Activation!Ownership` | `Spec => []OwnsOnlyWhatItUses` |
| `Activation!UsableImages` | `Spec => []StreamsOnlyAUsableImage` |
| `Capture!Invariance` | `Spec => []IInv` |
| `Capture!TypeCorrectness` | `Spec => []TypeOK` |
| `Capture!NothingLeftBehind` | `Spec => []NothingOutlivesAnAction` |
| `Capture!FrameDoneIsSafe` | `Spec => []FrameDoneHasItsFrame` |
| `Capture!LengthsAgree` | `Spec => []AnnouncedIsRead` |
| `Capture!FramesInvariance` | `HistorySpec => []HInv` |
| `Capture!FramesUsedOnce` | `HistorySpec => []GoodFramesAreUsedOnce` |
| `Capture!ResultsAreOwn` | `HistorySpec => []ResultsAreFromThisAction` |
| `Capture!RenewalsInTime` | `HistorySpec => []RenewedInTime` |
| `Capture!PollsArmed` | `HistorySpec => []PollsOnlyAnArmedSensor` |
| `Capture!PressesArePrompted` | `HistorySpec => []PromptedForEachStage` |
| `Activation!HistoryInvariance` | `HistorySpec => [](IInv /\ HInv)` |
| `Activation!OpenDevicesArePrepared` | `HistorySpec => []OpenMeansPrepared` |
| `Activation!DownloadsHaveReasons` | `HistorySpec => []EveryDownloadHasAReason` |
| `Activation!DecisionsUseTheirAnswer` | `HistorySpec => []DecidesOnItsOwnAnswer` |
| `Activation!LoopsUseTheirBudget` | `HistorySpec => GivesUpOnlyAfterFullBudget` |
| `Activation!IdleAfterFullRecovery` | `HistorySpec => IdleOnlyAfterFullRecovery` |
| `Driver!DriverInvariance` | `Spec => []DInv` |
| `Driver!OneMachine` | `Spec => []OneMachineOnItsInterface` |
| `Driver!DriverIsAnFpDevice` | `Spec => Abstract!Safety` |
| `System!SystemInvariance` | `SystemSpec => []SInv` |
| `System!OpensRecover` | `SystemSpec => []OnlyTransfersFailAnOpen` |
| `System!SilenceIsUnderstood` | `SystemSpec => SilenceMeansNoCode` |
| `System!OpensStartTheSearch` | `SystemSpec => OpenStartsTheSearch` |
| `Matching!MatchingInvariance` | `Spec => []MInv` |
| `Matching!ThresholdsAreBounded` | `Spec => []TypeOK` |
| `Matching!EnrollmentsSurvive` | `Spec => []EnrolledFramesSurvive` |
| `Matching!TwoFramesVerify` | `Spec => []VerifyNeedsTwoFrames` |
| `Matching!IdentifyIsVerify` | `Spec => []IdentifyAgreesWithVerify` |
| `Matching!IdentifyIsBest` | `Spec => []IdentifyFindsTheBest` |
| `Features!MotionsFit` | `Spec => []EveryMotionFitsItsPairs` |
| `Features!ScoreIsOfTheSkin` | `Spec => []ScoreSurvivesMotion` |
| `Features!RepeatedTextureIsIgnored` | `Spec => []RepeatedTextureScoresNothing` |
| `Features!MeanIsOfTheWindow` | `Spec => []BoxIsWindowSum` |
| `Features!DetectionPrefersNoDirection` | `Spec => []TurnedFrameHasTurnedKeypoints` |
| `FirmwareTool!ExtractionInvariance` | `ToolSpec => []EInv` |
| `FirmwareTool!BinaryGivesItsFirstImage` | `ToolSpec => []BinaryImageIsComplete` |
| `FirmwareTool!CaptureGivesOneDownload` | `ToolSpec => []CaptureImageIsOneDownload` |
| `FirmwareTool!CaptureGivesTheMostSent` | `ToolSpec => []MostDownloadsDecide` |
| `FirmwareTool!DialogsAreAsked` | `ToolSpec => GivesUpOnlyWithoutACabinet` |

### Only model-checked

Liveness under fairness is out of the prover's reach: `OpenTerminates`,
`FrameIsUsed`, `CancelEndsTheAction`, `FingerIsSeen`, and the liveness half of
`ImplementsFpDevice`.  Every other property of a passing run has a theorem.  The
four runs that expect a violation show a counterexample instead.

## 7. Not modelled

* The middle of the matcher: the division by the local deviation
  (`ft9201_normalize_local`), the gradients, and the direction and the descriptor
  of a keypoint.  They are floating point over square roots and trigonometric
  functions, and what they compute has no exact counterpart to compare with.
  The map of `ft9201_features_new` leaves their lines out.  `Ft9201Features` has
  both ends of it, and `Ft9201Matching` takes the score of a
  pair as a constant.  Rounding is not modelled anywhere.
* The content of the firmware image, the values written to registers, and the
  pixels beyond the two tests.
* The log, except that its claims are compared with the code in two runs.
* The bus reset of `ft9201_recover_and_fail`: it touches only the sensor, and the
  next open meets every state of the sensor anyway.
* The firmware of the sensor.  `Ft9201Sensor` is what the documents report; the
  known stall of the finger detection, whose cause they do not know, is in it
  only as the write of `0x1e` that does not take.  Nothing is claimed for a
  sensor that stays stalled, and nothing but the dropped presses of
  `capture_presses` for one that has lost its armed state during an action.
* The wake handshake before the recovery download: the comment of the table
  expects it, and the recovery enters the table without it.  What the sensor
  makes of that is written nowhere, and measurements in `docs/PROTOCOL.md` found
  the download on a running sensor to be safe.
* The byte layout of pcapng and USBPcap files, and the pages of the catalog
  beyond their update IDs.
* `tools/` and `packaging/`: programs that send a fixed list of requests and
  print the answers, measurements of scores, scripts.  They keep no state and
  share none with the driver.

## 8. Plan

The decision inside the capture: `Ft9201Matching` for `PossibleOutcomes`, so that
`ResultsAreFromThisAction` reaches the template that a verify compares.
