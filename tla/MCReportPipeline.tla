-------------------------- MODULE MCReportPipeline --------------------------
(* Instance of ReportPipeline for TLC: one session in its loop, one that is   *)
(* still logging in.                                                        *)
EXTENDS ReportPipeline

CONSTANTS s1, s2

MCReports == [s \in Sessions |-> IF s \in Deaf THEN 1 ELSE 2]
=============================================================================
