--------------------------- MODULE MCMetricSources ---------------------------
(***************************************************************************)
(* MetricSources on a small instance; the constants are in the .cfg file.  *)
(***************************************************************************)
EXTENDS MetricSources
=============================================================================
