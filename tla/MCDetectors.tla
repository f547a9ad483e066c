----------------------------- MODULE MCDetectors -----------------------------
(***************************************************************************)
(* Detectors on a small instance; the constants are in the .cfg file.      *)
(***************************************************************************)
EXTENDS Detectors
=============================================================================
