-------------------------- MODULE Ft9201Matching --------------------------
(***************************************************************************)
(* How the driver decides: ft9201_match_template, ft9201_match_threshold,  *)
(* and the three actions of capture_ssm_done that store or read a print.   *)
(* The prints stay with the client; the sensor may change its size between *)
(* two actions, when it runs other firmware, and the process may end at    *)
(* any time.  Scores and thresholds count hundredths.                      *)
(*                                                                         *)
(* The score of one frame against one frame is the constant                *)
(* ft9201_match_pair: the numerics are not modelled.                       *)
(***************************************************************************)
EXTENDS Ft9201Template, FiniteSets

CONSTANTS
  Pixel,
  Dimensions,               \* the <<width, height>> a sensor may report
  ft9201_match_pair(_, _),  \* the score of a stored frame and a new one
  ForeignPrint,             \* what else may lie on the disk
  Environment,              \* what FT9201_MATCH_THRESHOLD may hold
  MATCH_THRESHOLD, MATCH_THRESHOLD_MIN, MATCH_THRESHOLD_MAX,
  ENROLL_STAGES,
  MaxPrints                 \* bound: the prints that the client keeps

ASSUME ThresholdAssumption ==
  /\ MATCH_THRESHOLD_MIN \in Nat \ {0}
  /\ MATCH_THRESHOLD_MIN <= MATCH_THRESHOLD
  /\ MATCH_THRESHOLD <= MATCH_THRESHOLD_MAX
  /\ MATCH_THRESHOLD \in Nat /\ MATCH_THRESHOLD_MAX \in Nat

ASSUME StagesAssumption == ENROLL_STAGES \in Nat \ {0}

(* The two dimensions are not zero (ACTIVATE_STORE_DIM_HEIGHT). *)
ASSUME DimensionAssumption == Dimensions \subseteq (Nat \ {0}) \X (Nat \ {0})

(* A score is the number of the agreeing pairs of two frames by another.   *)
ASSUME ScoreAssumption ==
  \A d \in Dimensions : \A frame, probe \in [1..(d[1] * d[2]) -> Pixel] :
    ft9201_match_pair(frame, probe) \in Nat

ASSUME PrintAssumption ==
  ForeignPrint \subseteq [isFormat : BOOLEAN, w : Nat, h : Nat, blob : Seq(Pixel)]

ASSUME PrintsBoundAssumption == MaxPrints \in Nat

ASSUME EnvironmentAssumption == \A text \in Environment : text.parsed \in Int

VARIABLES
  env,            \* the variable of this process
  value, known,   \* the static variables of ft9201_match_threshold
  sensor_width, sensor_height,
  prints,         \* the prints of the client, in the order it gives them
  origin,         \* history: the frames each was enrolled from
  report          \* the last result that libfprint got

process == <<env, value, known>>
sensor  == <<sensor_width, sensor_height>>
vars    == <<process, sensor, prints, origin, report>>

Frame == [1..(sensor_width * sensor_height) -> Pixel]

(* print is the index of the print asked for by a verify operation, and of *)
(* the print found by an identify operation, 0 for NULL.                   *)
NoReport == [op |-> "none", print |-> 0, probe |-> <<>>, result |-> "none"]

-----------------------------------------------------------------------------
(* The text of the variable: parsed is what g_ascii_strtod makes of it, in *)
(* hundredths; space, range and rest say that a space precedes the number, *)
(* that errno is set, and that text follows (all of it, if no number does) *)
Acceptable(text) ==
  /\ ~text.space /\ ~text.range /\ ~text.rest /\ text.finite
  /\ MATCH_THRESHOLD_MIN <= text.parsed
  /\ text.parsed <= MATCH_THRESHOLD_MAX

(* Mutant: any number is taken. *)
ft9201_match_threshold_unlimited ==
  IF known THEN value
  ELSE IF env.set /\ ~env.empty /\ ~env.space /\ ~env.rest THEN env.parsed
  ELSE value

(* What the function returns, and leaves in value. *)
ft9201_match_threshold ==
  IF known THEN value
  ELSE IF env.set /\ ~env.empty /\ Acceptable(env) THEN env.parsed
  ELSE value

use_threshold ==
  /\ known' = TRUE
  /\ value' = ft9201_match_threshold
  /\ UNCHANGED env

-----------------------------------------------------------------------------
(* The loop over the frames of a template; -1 is worse than every score.   *)
ScoreFrame(best, s) ==
  [ first  |-> IF s > best.first THEN s ELSE best.first,
    second |-> IF s > best.first THEN best.first
               ELSE IF s > best.second THEN s ELSE best.second,
    scored |-> best.scored + 1 ]

BestScores(frames, probe, size) ==
  LET best[n \in 0..Len(frames)] ==
        IF n = 0 THEN [first |-> -1, second |-> -1, scored |-> 0]
        ELSE IF Len(frames[n]) # size THEN best[n - 1]
        ELSE ScoreFrame(best[n - 1], ft9201_match_pair(frames[n], probe))
  IN  best[Len(frames)]

(* Mutant: the best score counts. *)
ft9201_match_template_maximum(frames, probe, w, h) ==
  BestScores(frames, probe, w * h).first

ft9201_match_template(frames, probe, w, h) ==
  LET best == BestScores(frames, probe, w * h)
  IN  CASE best.scored = 0 -> -1
        [] best.scored = 1 -> best.first
        [] OTHER           -> best.second

(* Mutant: only the number of pixels has to be that of the sensor. *)
FitsSensor_by_area(print) ==
  /\ ft9201_template_unpack(print) # <<>>
  /\ print.w * print.h = sensor_width * sensor_height

FitsSensor(print) ==
  /\ ft9201_template_unpack(print) # <<>>
  /\ print.w = sensor_width
  /\ print.h = sensor_height

PrintScore(print, probe) ==
  ft9201_match_template(ft9201_template_unpack(print), probe, print.w, print.h)

(* Mutant: the last candidate that is no worse than those before. *)
BestCandidate_last(probe) ==
  LET best[n \in 0..Len(prints)] ==
        IF n = 0 THEN [score |-> -1, print |-> 0]
        ELSE IF ~FitsSensor(prints[n]) THEN best[n - 1]
        ELSE [score |-> PrintScore(prints[n], probe), print |-> n]
  IN  best[Len(prints)]

(* The loop of the identify operation over its candidates. *)
BestCandidate(probe) ==
  LET best[n \in 0..Len(prints)] ==
        IF n = 0 THEN [score |-> -1, print |-> 0]
        ELSE IF ~FitsSensor(prints[n]) THEN best[n - 1]
        ELSE LET score == PrintScore(prints[n], probe)
             IN  IF score > best[n - 1].score THEN [score |-> score, print |-> n]
                 ELSE best[n - 1]
  IN  best[Len(prints)]

-----------------------------------------------------------------------------
(* The end of the actions, with the frames that the capture has read.      *)

Enroll ==
  /\ Len(prints) < MaxPrints
  /\ \E frames \in [1..ENROLL_STAGES -> Frame] :
       /\ prints' = Append(prints,
                           ft9201_template_pack(frames, sensor_width, sensor_height))
       /\ origin' = Append(origin, frames)
  /\ report' = NoReport
  /\ UNCHANGED <<process, sensor>>

(* A print that cannot be used is an error, and no threshold is read. *)
VerifyInvalid ==
  /\ \E i \in DOMAIN prints, probe \in Frame :
       /\ ~FitsSensor(prints[i])
       /\ report' = [op |-> "VERIFY", print |-> i, probe |-> probe,
                     result |-> "DATA_INVALID"]
  /\ UNCHANGED <<process, sensor, prints, origin>>

Verify ==
  /\ \E i \in DOMAIN prints, probe \in Frame :
       /\ FitsSensor(prints[i])
       /\ report' = [op |-> "VERIFY", print |-> i, probe |-> probe,
                     result |-> IF PrintScore(prints[i], probe) >= ft9201_match_threshold
                                THEN "MATCH" ELSE "NO_MATCH"]
  /\ use_threshold
  /\ UNCHANGED <<sensor, prints, origin>>

Identify ==
  /\ \E probe \in Frame :
       LET best  == BestCandidate(probe)
           found == best.score >= ft9201_match_threshold
       IN  report' = [op |-> "IDENTIFY", print |-> IF found THEN best.print ELSE 0,
                      probe |-> probe,
                      result |-> IF found THEN "MATCH" ELSE "NO_MATCH"]
  /\ use_threshold
  /\ UNCHANGED <<sensor, prints, origin>>

-----------------------------------------------------------------------------
(* The client has a print of another driver, version or machine, or one    *)
(* that its disk has damaged.                                              *)
AddForeignPrint ==
  /\ Len(prints) < MaxPrints
  /\ \E print \in ForeignPrint :
       /\ prints' = Append(prints, print)
       /\ origin' = Append(origin, <<>>)
  /\ report' = NoReport
  /\ UNCHANGED <<process, sensor>>

(* A close and an open operation between which the firmware changes. *)
Reopen ==
  /\ \E d \in Dimensions : sensor_width' = d[1] /\ sensor_height' = d[2]
  /\ report' = NoReport
  /\ UNCHANGED <<process, prints, origin>>

(* The process of the driver ends and is started again. *)
Restart ==
  /\ env' \in Environment
  /\ value' = MATCH_THRESHOLD
  /\ known' = FALSE
  /\ report' = NoReport
  /\ UNCHANGED <<sensor, prints, origin>>

Init ==
  /\ env \in Environment
  /\ value = MATCH_THRESHOLD
  /\ known = FALSE
  /\ \E d \in Dimensions : sensor_width = d[1] /\ sensor_height = d[2]
  /\ prints = <<>>
  /\ origin = <<>>
  /\ report = NoReport

Next == Enroll \/ VerifyInvalid \/ Verify \/ Identify \/ AddForeignPrint \/ Reopen \/ Restart

Spec == Init /\ [][Next]_vars

-----------------------------------------------------------------------------
(* Types, and the limits of the threshold: no text that an environment     *)
(* holds takes it out of them.                                             *)
TypeOK ==
  /\ env \in Environment
  /\ known \in BOOLEAN
  /\ value \in MATCH_THRESHOLD_MIN..MATCH_THRESHOLD_MAX
  /\ <<sensor_width, sensor_height>> \in Dimensions
  /\ Len(prints) <= MaxPrints
  /\ DOMAIN origin = DOMAIN prints
  /\ report.print \in 0..Len(prints)

(* An enrolled print gives back its frames, each of them and in their      *)
(* order, whatever sensor and process read it later.                       *)
EnrolledFramesSurvive ==
  \A i \in DOMAIN prints :
    origin[i] # <<>> => ft9201_template_unpack(prints[i]) = origin[i]

(* The decisions again, from what docs/MATCHING.md says of them: by        *)
(* counting, pixel by pixel from the stored bytes, and without a loop.     *)

FrameCount(print) == IF print.w * print.h = 0 THEN 0
                     ELSE Len(print.blob) \div (print.w * print.h)

Usable(print) ==
  /\ print.isFormat
  /\ <<print.w, print.h>> = <<sensor_width, sensor_height>>
  /\ print.blob # <<>>
  /\ FrameCount(print) * print.w * print.h = Len(print.blob)

FrameAt(print, i) ==
  [ k \in 1..(print.w * print.h) |-> print.blob[(i - 1) * print.w * print.h + k] ]

(* Two frames have to agree; a print of one frame has no second one. *)
Agrees(print, probe, score) ==
  /\ Usable(print)
  /\ Cardinality({i \in 1..FrameCount(print) :
                    ft9201_match_pair(FrameAt(print, i), probe) >= score})
       >= IF FrameCount(print) = 1 THEN 1 ELSE 2

ThresholdOfProcess ==
  IF env.set /\ ~env.empty /\ Acceptable(env) THEN env.parsed ELSE MATCH_THRESHOLD

(* A verify operation reports a match exactly when two frames of the print *)
(* reach the threshold of this process, and an error exactly when the      *)
(* print is damaged or was made at another size.                           *)
VerifyNeedsTwoFrames ==
  report.op = "VERIFY" =>
    LET print == prints[report.print]
    IN  /\ report.result = "DATA_INVALID" <=> ~Usable(print)
        /\ report.result = "MATCH" <=> Agrees(print, report.probe, ThresholdOfProcess)

(* An identify operation finds a print exactly when a verify operation of  *)
(* some print would report a match, and the one that it finds would be one *)
(* of them, whatever unusable prints the client gives with it.             *)
IdentifyAgreesWithVerify ==
  report.op = "IDENTIFY" =>
    LET accepted == {i \in DOMAIN prints :
                       Agrees(prints[i], report.probe, ThresholdOfProcess)}
    IN  IF accepted = {} THEN report.result = "NO_MATCH" /\ report.print = 0
        ELSE report.result = "MATCH" /\ report.print \in accepted

(* No candidate is better than the one that an identify operation finds,   *)
(* and none before it is as good.                                          *)
IdentifyFindsTheBest ==
  report.op = "IDENTIFY" /\ report.print # 0 =>
    LET Reaches(i, j) ==  \* print i reaches every score that print j reaches
          \A k \in 1..FrameCount(prints[j]) :
            LET s == ft9201_match_pair(FrameAt(prints[j], k), report.probe)
            IN  Agrees(prints[j], report.probe, s) => Agrees(prints[i], report.probe, s)
    IN  \A i \in DOMAIN prints : Usable(prints[i]) =>
          /\ Reaches(report.print, i)
          /\ i < report.print => ~Reaches(i, report.print)
===========================================================================
