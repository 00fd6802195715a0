------------------------ MODULE MCFt9201Activation ------------------------
(* The activation with its history, for the safety runs. *)
EXTENDS Ft9201ActivationHistory, MCFt9201Values
===========================================================================
