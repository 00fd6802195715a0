-------------------------- MODULE Ft9201Template --------------------------
(***************************************************************************)
(* The data of a print on the disk of the host: ft9201_template_pack and   *)
(* ft9201_template_unpack.  A frame is the sequence of its pixels, row by  *)
(* row.  The variant "(yy@ay)" is a record; isFormat is false for data     *)
(* that is missing or has another type.                                    *)
(***************************************************************************)
EXTENDS Integers, Sequences

StoredPrint(w, h, blob) == [isFormat |-> TRUE, w |-> w, h |-> h, blob |-> blob]

(* The loop over the frames.  A frame of another length is left out.       *)
ft9201_template_pack(frames, w, h) ==
  LET blob[n \in 0..Len(frames)] ==
        IF n = 0 THEN <<>>
        ELSE IF Len(frames[n]) = w * h THEN blob[n - 1] \o frames[n]
        ELSE blob[n - 1]
  IN  StoredPrint(w, h, blob[Len(frames)])

WellFormed(print) ==
  /\ print.isFormat
  /\ print.w # 0 /\ print.h # 0
  /\ Len(print.blob) # 0
  /\ Len(print.blob) % (print.w * print.h) = 0

(* Mutant: the last frame is dropped. *)
ft9201_template_unpack_off_by_one(print) ==
  IF ~WellFormed(print) THEN <<>>
  ELSE LET size == print.w * print.h
       IN  [ i \in 1..(Len(print.blob) - 1) \div size |->
               SubSeq(print.blob, (i - 1) * size + 1, i * size) ]

(* The frames of a print.  No frames stand for NULL and the error: a       *)
(* well-formed print has at least one.                                     *)
ft9201_template_unpack(print) ==
  IF ~WellFormed(print) THEN <<>>
  ELSE LET size == print.w * print.h
       IN  [ i \in 1..Len(print.blob) \div size |->
               SubSeq(print.blob, (i - 1) * size + 1, i * size) ]
===========================================================================
