-------------------------- MODULE MCFt9201Capture --------------------------
(* The capture machine with its history, on small limits. *)
EXTENDS Ft9201CaptureHistory, MCFt9201CaptureValues
=============================================================================
