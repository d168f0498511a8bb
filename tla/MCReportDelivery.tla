-------------------------- MODULE MCReportDelivery --------------------------
(***************************************************************************)
(* Two runs of the app and one of the CLI, which compete for one           *)
(* connection of the server; the second report has too many results.       *)
(***************************************************************************)
EXTENDS ReportDelivery

CONSTANTS app, app2, cli, runA, runB, runC

MCRunId(r) == CASE r = app -> runA [] r = app2 -> runB [] r = cli -> runC
MCRows(r) == 1
MCResults(r) == IF r = app2 THEN 2 ELSE 1
MCWellFormed(r) == TRUE

=============================================================================
