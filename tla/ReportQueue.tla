---------------------------- MODULE ReportQueue ----------------------------
(***************************************************************************)
(* The app's offline queue, queued_reports.jsonl: append_queued_report and *)
(* flush_queue of app/src-tauri/src/queue.rs, called by the commands       *)
(* run_probes and flush_queued_reports of commands.rs.                     *)
(*                                                                         *)
(* Commands run on the threads of a tokio runtime and share the file       *)
(* without a lock.  The file is the sequence of what was appended to it; a *)
(* line ends after each piece that is                                      *)
(*    whole    the JSON of a report and its newline                        *)
(* and goes on after a piece that a failed write left behind:              *)
(*    cut      a proper prefix of the JSON                                 *)
(*    noeol    the JSON without its newline                                *)
(***************************************************************************)
EXTENDS Integers, Sequences

CONSTANTS
  Reports,     \* the reports whose POST fails, each of its own run_probes
  Flushes,     \* the calls of flush_queued_reports
  Nothing

VARIABLES
  exists,      \* queued_reports.jsonl is there
  file,        \* its contents
  saving,      \* where append_queued_report stands for each report
  told,        \* what run_probes told the app about each report
  flush,       \* where each flush stands
  content,     \* what each flush has read
  counted,     \* what each flush returned
  wiped        \* for each flush, what its truncation removed

vars == <<exists, file, saving, told, flush, content, counted, wiped>>

Piece(r, part) == [report |-> r, part |-> part]

\* Every line of the file parses as one report.
Parses(f) ==
  \A i \in DOMAIN f :
    /\ f[i].part # "cut"
    /\ f[i].part = "noeol" => i = Len(f)

\* The reports that are in f from the first byte to the last.
Intact(f) == {f[i].report : i \in {k \in DOMAIN f : f[k].part # "cut"}}

-----------------------------------------------------------------------------

Init ==
  /\ exists = FALSE
  /\ file = <<>>
  /\ saving = [r \in Reports |-> "sending"]
  /\ told = [r \in Reports |-> "none"]
  /\ flush = [f \in Flushes |-> "idle"]
  /\ content = [f \in Flushes |-> <<>>]
  /\ counted = [f \in Flushes |-> Nothing]
  /\ wiped = [f \in Flushes |-> <<>>]

\* send_report has failed; the file is opened for append, or created.
Open(r) ==
  /\ saving[r] = "sending"
  /\ exists' = TRUE
  /\ saving' = [saving EXCEPT ![r] = "opened"]
  /\ UNCHANGED <<file, told, flush, content, counted, wiped>>

\* The directory cannot be made or the file not opened.
OpenFails(r) ==
  /\ saving[r] = "sending"
  /\ saving' = [saving EXCEPT ![r] = "failed"]
  /\ UNCHANGED <<exists, file, told, flush, content, counted, wiped>>

\* Mutant: the file is opened with truncate instead of append.
WriteOver(r) ==
  /\ saving[r] = "opened"
  /\ file' = <<Piece(r, "whole")>>
  /\ saving' = [saving EXCEPT ![r] = "written"]
  /\ UNCHANGED <<exists, told, flush, content, counted, wiped>>

\* write_all of the line, in one write at the end of the file.
WriteLine(r) ==
  /\ saving[r] = "opened"
  /\ file' = Append(file, Piece(r, "whole"))
  /\ saving' = [saving EXCEPT ![r] = "written"]
  /\ UNCHANGED <<exists, told, flush, content, counted, wiped>>

\* write_all fails, perhaps after part of the line is in the file (a full
\* disk, or the app is being killed).
WriteFails(r) ==
  /\ saving[r] = "opened"
  /\ \/ file' = file
     \/ \E part \in {"cut", "noeol"} : file' = Append(file, Piece(r, part))
  /\ saving' = [saving EXCEPT ![r] = "failed"]
  /\ UNCHANGED <<exists, told, flush, content, counted, wiped>>

\* Mutant: a failed append leaves the command without an answer.
TellWritten(r) ==
  /\ saving[r] = "written"
  /\ told' = [told EXCEPT ![r] = "queued"]
  /\ saving' = [saving EXCEPT ![r] = "done"]
  /\ UNCHANGED <<exists, file, flush, content, counted, wiped>>

\* run_probes returns SendOutcome::Queued, with queue_failed in its reason
\* when the append failed.
Tell(r) ==
  /\ saving[r] \in {"written", "failed"}
  /\ told' = [told EXCEPT ![r] = IF saving[r] = "written" THEN "queued"
                                                         ELSE "queue_failed"]
  /\ saving' = [saving EXCEPT ![r] = "done"]
  /\ UNCHANGED <<exists, file, flush, content, counted, wiped>>

\* flush_queue finds no file: Ok(0).
FlushNothing(f) ==
  /\ flush[f] = "idle"
  /\ ~exists
  /\ counted' = [counted EXCEPT ![f] = 0]
  /\ flush' = [flush EXCEPT ![f] = "flushed"]
  /\ UNCHANGED <<exists, file, saving, told, content, wiped>>

\* flush_queue reads the file to the end.
FlushRead(f) ==
  /\ flush[f] = "idle"
  /\ exists
  /\ content' = [content EXCEPT ![f] = file]
  /\ flush' = [flush EXCEPT ![f] = "parsing"]
  /\ UNCHANGED <<exists, file, saving, told, counted, wiped>>

\* A line does not parse, or the file cannot be written: the error is
\* returned and the file left as it is.
FlushFails(f) ==
  /\ flush[f] = "parsing"
  /\ flush' = [flush EXCEPT ![f] = "failed"]
  /\ UNCHANGED <<exists, file, saving, told, content, counted, wiped>>

\* Mutants: the file is left as it is; lines that do not parse are skipped.
FlushKeeps(f) ==
  /\ flush[f] = "parsing"
  /\ Parses(content[f])
  /\ wiped' = [wiped EXCEPT ![f] = file]
  /\ counted' = [counted EXCEPT ![f] = Len(content[f])]
  /\ flush' = [flush EXCEPT ![f] = "flushed"]
  /\ UNCHANGED <<exists, file, saving, told, content>>

FlushSkipsBadLines(f) ==
  /\ flush[f] = "parsing"
  /\ file' = <<>>
  /\ wiped' = [wiped EXCEPT ![f] = file]
  /\ counted' = [counted EXCEPT ![f] = Len(content[f])]
  /\ flush' = [flush EXCEPT ![f] = "flushed"]
  /\ UNCHANGED <<exists, saving, told, content>>

\* Every line parsed: the file is truncated and the lines read are counted.
FlushClears(f) ==
  /\ flush[f] = "parsing"
  /\ Parses(content[f])
  /\ file' = <<>>
  /\ wiped' = [wiped EXCEPT ![f] = file]
  /\ counted' = [counted EXCEPT ![f] = Len(content[f])]
  /\ flush' = [flush EXCEPT ![f] = "flushed"]
  /\ UNCHANGED <<exists, saving, told, content>>

\* The app is killed and started again: the commands in progress end where
\* they are, the file is what they made of it.
Crash ==
  /\ \/ \E r \in Reports : saving[r] \in {"opened", "written", "failed"}
     \/ \E f \in Flushes : flush[f] = "parsing"
  /\ saving' = [r \in Reports |-> IF saving[r] = "sending" THEN "sending" ELSE "done"]
  /\ flush' = [f \in Flushes |-> IF flush[f] = "parsing" THEN "failed" ELSE flush[f]]
  /\ UNCHANGED <<exists, file, told, content, counted, wiped>>

Idle ==
  /\ \A r \in Reports : saving[r] = "done"
  /\ \A f \in Flushes : flush[f] \in {"failed", "flushed"}
  /\ UNCHANGED vars

Save(r) == Open(r) \/ OpenFails(r) \/ WriteLine(r) \/ WriteFails(r) \/ Tell(r)
Flush(f) == FlushNothing(f) \/ FlushRead(f) \/ FlushFails(f) \/ FlushClears(f)

Next ==
  \/ \E r \in Reports : Save(r)
  \/ \E f \in Flushes : Flush(f)
  \/ Crash
  \/ Idle

Spec == Init /\ [][Next]_vars

\* No command waits for another one: each runs to its end.
FairSpec ==
  /\ Spec
  /\ \A r \in Reports : WF_vars(Save(r))
  /\ \A f \in Flushes : WF_vars(Flush(f))

-----------------------------------------------------------------------------

\* A report the app calls queued (without queue_failed) is whole in the
\* file until a flush that read a parsing file truncates it: no later
\* append, failed write or crash damages what was queued before.
QueuedIsKept ==
  \A r \in Reports :
    told[r] = "queued" \/ saving[r] = "written" =>
      r \in Intact(file) \cup UNION {Intact(wiped[f]) : f \in Flushes}

\* No report is in the file and among what was truncated, or twice in either:
\* a report is queued once, whatever flushes and appends interleave.
QueuedOnce ==
  /\ \A i, k \in DOMAIN file : file[i].report = file[k].report => i = k
  /\ \A f \in Flushes : \A i \in DOMAIN file, k \in DOMAIN wiped[f] :
       file[i].report # wiped[f][k].report
  /\ \A f, g \in Flushes : f # g =>
       \A i \in DOMAIN wiped[f], k \in DOMAIN wiped[g] :
         wiped[f][i].report # wiped[g][k].report

\* Once a failed append has left a piece that does not parse, no flush that
\* starts afterwards can drain the queue: it stays, with all it holds, and
\* grows, until a flush that had read it before truncates it.
PoisonStays ==
  [][(~Parses(file) /\ \A f \in Flushes : flush[f] = "parsing" => ~Parses(content[f]))
       => ~Parses(file')]_vars

\* A command never waits for ever for the file.
CommandsEnd ==
  /\ \A r \in Reports : <>(saving[r] = "done")
  /\ \A f \in Flushes : <>(flush[f] \in {"failed", "flushed"})

\* README.md: flush_queued_reports "drains the offline queue. Currently
\* counts and clears entries": what a flush clears is what it counted.
FlushCountsWhatItClears ==
  \A f \in Flushes : flush[f] = "flushed" => counted[f] = Len(wiped[f])

=============================================================================
