-------------------------- MODULE MCReportDelivery --------------------------
(***************************************************************************)
(* Small instances of ReportDelivery for TLC.                               *)
(***************************************************************************)
EXTENDS ReportDelivery

CONSTANTS n1, n2, r1, r2
=============================================================================
