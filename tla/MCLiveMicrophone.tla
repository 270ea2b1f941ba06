-------------------------- MODULE MCLiveMicrophone --------------------------
(* LiveMicrophone with one operator and one microphone session. *)
EXTENDS LiveMicrophone, TLC
CONSTANTS ann
=============================================================================
