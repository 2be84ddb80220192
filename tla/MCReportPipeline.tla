-------------------------- MODULE MCReportPipeline --------------------------
(* Small instances of ReportPipeline.                                      *)
EXTENDS ReportPipeline, TLC

\* Every user that is no owner is assigned to every project.
AllAssigned == Users \X Projects
=============================================================================
