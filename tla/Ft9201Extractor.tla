-------------------------- MODULE Ft9201Extractor --------------------------
(***************************************************************************)
(* ft9201-extract-firmware.py: how the image that the driver downloads is  *)
(* taken from a driver binary of the vendor, or from a USB capture.  The   *)
(* constants are those of the file; a run may make them small.  Bytes are  *)
(* counted from 0 in the code, so byte k of data is data[k + 1].           *)
(***************************************************************************)
EXTENDS Integers, SequencesExt

CONSTANTS
  CHUNK_SIZE, MIN_FW_SIZE, MAX_FW_SIZE,
  FW_TABLE_SIG,      \* the table that every image holds
  FW_TABLE_OFFSET,   \* and where it lies in an image
  FW_VECTORS,        \* offset -> byte: the three other bytes of a start
  Binary,            \* the files that are no capture
  Device,            \* device addresses of a capture
  Payload,           \* what a bulk transfer to the endpoint 0x02 may hold
  MaxBlocks          \* bound: the blocks of a capture

ASSUME SizeAssumption ==
  /\ CHUNK_SIZE \in Nat \ {0}
  /\ MIN_FW_SIZE \in Nat /\ MAX_FW_SIZE \in Nat /\ MIN_FW_SIZE <= MAX_FW_SIZE

Byte == 0..255

(* The table is not made of zeroes, which would end a file. *)
ASSUME TableAssumption ==
  /\ FW_TABLE_OFFSET \in Nat
  /\ FW_TABLE_SIG \in Seq(Byte)
  /\ \E k \in DOMAIN FW_TABLE_SIG : FW_TABLE_SIG[k] # 0

ASSUME DataAssumption == Binary \subseteq Seq(Byte) /\ Payload \subseteq Seq(Byte)

(* A device address is a number of 16 bits. *)
ASSUME DeviceAssumption == IsFiniteSet(Device)

VARIABLES
  phase,       \* "start", "blocks" in a capture, "done"
  blocks,      \* the blocks read so far
  linktypes,   \* of each interface: is it USBPcap
  streams,     \* device -> its payloads, in capture order
  binary,      \* history: the binary that was searched
  result       \* "none", "error", "image"; and the image

vars == <<phase, blocks, linktypes, streams, binary, result>>

Error    == [status |-> "error", blob |-> <<>>]
Image(b) == [status |-> "image", blob |-> b]

-----------------------------------------------------------------------------
(* The search in a binary.                                                 *)

TableAt(data, off) ==
  /\ off + Len(FW_TABLE_SIG) <= Len(data)
  /\ SubSeq(data, off + 1, off + Len(FW_TABLE_SIG)) = FW_TABLE_SIG

looks_like_image_start(data, start) ==
  /\ start >= 0
  /\ start + FW_TABLE_OFFSET + Len(FW_TABLE_SIG) <= Len(data)
  /\ \A k \in DOMAIN FW_VECTORS : data[start + k + 1] = FW_VECTORS[k]

image_starts(data) ==
  { off - FW_TABLE_OFFSET : off \in
      {o \in 0..Len(data) : TableAt(data, o)
                            /\ looks_like_image_start(data, o - FW_TABLE_OFFSET)} }

(* The next image ends this one; the last one ends with the last byte of   *)
(* the file that is not zero.                                              *)
image_length(data) ==
  LET starts == image_starts(data)
      start  == Min(starts)
  IN  IF Cardinality(starts) > 1
      THEN Min(starts \ {start}) - start
      ELSE Max({k \in 1..Len(data) : data[k] # 0}) - start

(* Mutant: the length is rounded down. *)
padded_down(length) == (length \div CHUNK_SIZE) * CHUNK_SIZE

padded(length) == ((length + CHUNK_SIZE - 1) \div CHUNK_SIZE) * CHUNK_SIZE

extract_from_binary(data) ==
  IF image_starts(data) = {} THEN Error
  ELSE LET start == Min(image_starts(data))
           size  == padded(image_length(data))
       IN  IF start + size > Len(data) THEN Error
           ELSE Image(SubSeq(data, start + 1, start + size))

-----------------------------------------------------------------------------
(* The search in a capture.                                                *)

(* Mutant: a run goes on behind a shorter payload. *)
longest_run_joined(payloads) ==
  SelectSeq(payloads, LAMBDA p : Len(p) = CHUNK_SIZE)

(* The first of the longest runs of payloads of one unit. *)
longest_run(payloads) ==
  LET Longer(run, best) == IF Len(run) > Len(best) THEN run ELSE best
      after[n \in 0..Len(payloads)] ==
        IF n = 0 THEN [run |-> <<>>, best |-> <<>>]
        ELSE IF Len(payloads[n]) = CHUNK_SIZE
        THEN [after[n - 1] EXCEPT !.run = Append(@, payloads[n])]
        ELSE [run |-> <<>>, best |-> Longer(after[n - 1].run, after[n - 1].best)]
      end == after[Len(payloads)]
  IN  Longer(end.run, end.best)

HasRun(device) == streams[device] # <<>> /\ longest_run(streams[device]) # <<>>

candidate(device) == FlattenSeq(longest_run(streams[device]))

(* Mutant: the first candidate is taken. *)
most_common_any == {candidate(d) : d \in {e \in Device : HasRun(e)}}

(* max over a set: among images of the same count the order of the set     *)
(* decides, which is that of the hash values.                              *)
most_common ==
  LET devices == {d \in Device : HasRun(d)}
      Count(blob) == Cardinality({d \in devices : candidate(d) = blob})
  IN  { blob \in {candidate(d) : d \in devices} :
          \A d \in devices : Count(candidate(d)) <= Count(blob) }

-----------------------------------------------------------------------------
Start ==
  /\ phase = "start"
  /\ phase' = "blocks"
  /\ UNCHANGED <<blocks, linktypes, streams, binary, result>>

ExtractBinary ==
  /\ phase = "start"
  /\ phase' = "done"
  /\ \E data \in Binary :
       /\ binary' = data
       /\ result' = IF Len(data) < 4 THEN Error ELSE extract_from_binary(data)
  /\ UNCHANGED <<blocks, linktypes, streams>>

NextBlock ==
  /\ phase = "blocks"
  /\ blocks < MaxBlocks
  /\ blocks' = blocks + 1
  /\ UNCHANGED <<phase, binary, result>>

InterfaceBlock ==
  /\ NextBlock
  /\ \E isUsbPcap \in BOOLEAN : linktypes' = Append(linktypes, isUsbPcap)
  /\ UNCHANGED streams

(* A packet of an interface that no block described is taken, too. *)
PacketBlock ==
  /\ NextBlock
  /\ \E iface \in 1..(Len(linktypes) + 1), d \in Device, p \in Payload :
       /\ iface <= Len(linktypes) => linktypes[iface]
       /\ p # <<>>
       /\ streams' = [streams EXCEPT ![d] = Append(@, p)]
  /\ UNCHANGED linktypes

(* Another block, interface, endpoint or direction, or too short a packet. *)
SkippedBlock ==
  /\ NextBlock
  /\ UNCHANGED <<linktypes, streams>>

CorruptBlock ==
  /\ phase = "blocks"
  /\ phase' = "done"
  /\ result' = Error
  /\ UNCHANGED <<blocks, linktypes, streams, binary>>

EndOfCapture ==
  /\ phase = "blocks"
  /\ phase' = "done"
  /\ IF ~(\E i \in DOMAIN linktypes : linktypes[i]) \/ ~(\E d \in Device : HasRun(d))
     THEN result' = Error
     ELSE \E blob \in most_common :
            result' = IF Len(blob) \in MIN_FW_SIZE..MAX_FW_SIZE
                         /\ Len(blob) % CHUNK_SIZE = 0
                      THEN Image(blob) ELSE Error
  /\ UNCHANGED <<blocks, linktypes, streams, binary>>

Init ==
  /\ phase = "start"
  /\ blocks = 0
  /\ linktypes = <<>>
  /\ streams = [d \in Device |-> <<>>]
  /\ binary = <<>>
  /\ result = [status |-> "none", blob |-> <<>>]

Next ==
  \/ Start \/ ExtractBinary
  \/ InterfaceBlock \/ PacketBlock \/ SkippedBlock
  \/ CorruptBlock \/ EndOfCapture

Spec == Init /\ [][Next]_vars

-----------------------------------------------------------------------------
Extracted == result.status = "image"
FromBinary == binary # <<>>

(* What a binary gives is its first image and all of it: every byte from   *)
(* the start to the next image, or to the last byte that is not zero, and  *)
(* less than one unit of filler after it.                                  *)
BinaryImageIsComplete ==
  Extracted /\ FromBinary =>
    \E start \in image_starts(binary) :
      LET Belongs(k) == /\ k > start
                        /\ binary[k] # 0
                        /\ \A s \in image_starts(binary) : s > start => k <= s
          size == Len(result.blob)
      IN  /\ \A s \in image_starts(binary) : start <= s
          /\ result.blob = SubSeq(binary, start + 1, start + size)
          /\ \A k \in DOMAIN binary : Belongs(k) => k <= start + size
          /\ size % CHUNK_SIZE = 0
          /\ \/ \E k \in DOMAIN binary : Belongs(k) /\ k > start + size - CHUNK_SIZE
             \/ \E s \in image_starts(binary) : s > start + size - CHUNK_SIZE

(* What a capture gives was sent to one device without a gap, and that     *)
(* device was sent nothing longer, and nothing just before or after it.    *)
IsDownload(device, blob) ==
  LET sent  == streams[device]
      Run(i, j) == \A k \in i..j : Len(sent[k]) = CHUNK_SIZE
      Whole(i, j) == /\ i > 1 => Len(sent[i - 1]) # CHUNK_SIZE
                     /\ j < Len(sent) => Len(sent[j + 1]) # CHUNK_SIZE
  IN  /\ \E i \in DOMAIN sent : \E j \in i..Len(sent) :
           Run(i, j) /\ Whole(i, j) /\ FlattenSeq(SubSeq(sent, i, j)) = blob
      /\ \A i \in DOMAIN sent : \A j \in i..Len(sent) :
           Run(i, j) => (j - i + 1) * CHUNK_SIZE <= Len(blob)

CaptureImageIsOneDownload ==
  Extracted /\ ~FromBinary => \E d \in Device : IsDownload(d, result.blob)

(* Everything in a stream that came without a gap and that no other such   *)
(* run is longer than, found by the places of the payloads.                *)
LongestSent(sent) ==
  LET Runs == { r \in (DOMAIN sent) \X (DOMAIN sent) :
                  /\ r[1] <= r[2]
                  /\ \A k \in r[1]..r[2] : Len(sent[k]) = CHUNK_SIZE }
      Longest == {r \in Runs : \A q \in Runs : q[2] - q[1] <= r[2] - r[1]}
  IN  {FlattenSeq(SubSeq(sent, r[1], r[2])) : r \in Longest}

(* A device has a new address with each plug, and a capture may cut some   *)
(* of the downloads off.  Pieces never win, nor the order of the hash      *)
(* values, over a download that went to more than half of the addresses.   *)
MostDownloadsDecide ==
  Extracted /\ ~FromBinary =>
    LET Plugged == {d \in Device : LongestSent(streams[d]) # {}}
        Sent(blob) == {d \in Plugged : LongestSent(streams[d]) = {blob}}
    IN  \A d \in Plugged : \A blob \in LongestSent(streams[d]) :
          2 * Cardinality(Sent(blob)) > Cardinality(Plugged) => result.blob = blob

-----------------------------------------------------------------------------
(* What the documents say.                                                 *)

(* The comment at MIN_FW_SIZE: the bounds on what the program is willing   *)
(* to call a firmware image.                                               *)
ImageIsPlausible ==
  Extracted => Len(result.blob) \in MIN_FW_SIZE..MAX_FW_SIZE
=============================================================================
