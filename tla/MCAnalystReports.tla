-------------------------- MODULE MCAnalystReports --------------------------
(* Small instances of AnalystReports: a report's time is up after two      *)
(* ticks, a refresh is allowed after one, a window is two ticks long.      *)
EXTENDS AnalystReports, TLC

CONSTANTS p1, p2, p3

=============================================================================
