--------------------------- MODULE MCAnomalyRecords ---------------------------
(***************************************************************************)
(* AnomalyRecords on a small instance; the constants are in the .cfg file. *)
(***************************************************************************)
EXTENDS AnomalyRecords
=============================================================================
