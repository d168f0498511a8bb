--------------------------- MODULE MCReportQueue ---------------------------
(***************************************************************************)
(* The two files of the app's data directory: ReportQueue with two reports *)
(* and one flush or two, and ClientId with three runs.  No code touches    *)
(* both, so that a behaviour is about the one or the other: it begins with *)
(* every id loaded, or with no report to queue and none to flush.          *)
(***************************************************************************)
EXTENDS ReportQueue, ClientId

CONSTANTS r1, r2, f1, f2

QueueOnly ==
  /\ Init
  /\ idFile = Content("whole", Earlier)
  /\ loading = [r \in Runs |-> "done"]
  /\ id = [r \in Runs |-> idFile]

IdOnly ==
  /\ IdInit
  /\ exists = FALSE
  /\ file = <<>>
  /\ saving = [r \in Reports |-> "done"]
  /\ told = [r \in Reports |-> "none"]
  /\ flush = [f \in Flushes |-> "flushed"]
  /\ content = [f \in Flushes |-> <<>>]
  /\ counted = [f \in Flushes |-> 0]
  /\ wiped = [f \in Flushes |-> <<>>]

FilesSpec ==
  /\ QueueOnly \/ IdOnly
  /\ [][(Next /\ UNCHANGED idVars) \/ (IdNext /\ UNCHANGED vars)]_<<vars, idVars>>
  /\ \A r \in Reports : WF_vars(Save(r))
  /\ \A f \in Flushes : WF_vars(Flush(f))

=============================================================================
