------------------------------ MODULE ClientId ------------------------------
(***************************************************************************)
(* client_id.txt in the app's data directory: load_or_create_client_id of  *)
(* app/src-tauri/src/commands.rs, which every run_probes calls before it   *)
(* probes.  Several commands may be under way and share the file without a *)
(* lock; fs::write truncates the file and writes it in a second step.      *)
(***************************************************************************)
EXTENDS Integers

CONSTANT Runs        \* the calls of run_probes

ASSUME RunsAssumption == Runs \subseteq Nat \ {0}

VARIABLES
  idFile,      \* "absent", "empty", or what somebody wrote: the id of a run, whole or torn
  loading,     \* where each call stands
  id           \* the id each call returned

idVars == <<idFile, loading, id>>

Nobody == 0
Earlier == -1
Content(state, run) == [state |-> state, by |-> run]

Absent == Content("absent", Nobody)
Empty == Content("empty", Nobody)

\* The trimmed content of the file is not empty.
HoldsId == idFile.state \in {"whole", "torn"}

-----------------------------------------------------------------------------

\* An installation that has never run, or one with an earlier run's id.
IdInit ==
  /\ idFile \in {Absent, Content("whole", Earlier)}
  /\ loading = [r \in Runs |-> "idle"]
  /\ id = [r \in Runs |-> Empty]

Return(r, i) ==
  /\ id' = [id EXCEPT ![r] = i]
  /\ loading' = [loading EXCEPT ![r] = "done"]

\* The data directory is unknown: an id for this run only.
NoPath(r) ==
  /\ loading[r] = "idle"
  /\ Return(r, Content("whole", r))
  /\ UNCHANGED idFile

\* The path is known, and is what the rest of the call works on.
ResolvePath(r) ==
  /\ loading[r] = "idle"
  /\ loading' = [loading EXCEPT ![r] = "resolved"]
  /\ UNCHANGED <<idFile, id>>

\* Mutant: the file is read, and the run gets an id of its own all the same.
ReadIdIgnored(r) ==
  /\ loading[r] = "resolved"
  /\ HoldsId
  /\ Return(r, Content("whole", r))
  /\ UNCHANGED idFile

ReadId(r) ==
  /\ loading[r] = "resolved"
  /\ HoldsId
  /\ Return(r, idFile)
  /\ UNCHANGED idFile

\* There is no file, or nothing in it: the run makes up an id.
FindNoId(r) ==
  /\ loading[r] = "resolved"
  /\ ~HoldsId
  /\ loading' = [loading EXCEPT ![r] = "creating"]
  /\ UNCHANGED <<idFile, id>>

\* The file cannot be read, whatever is in it: the run makes up an id too.
ReadIdFails(r) ==
  /\ loading[r] = "resolved"
  /\ idFile # Absent
  /\ loading' = [loading EXCEPT ![r] = "replacing"]
  /\ UNCHANGED <<idFile, id>>

\* fs::write creates or truncates the file.
TruncateId(r) ==
  /\ loading[r] \in {"creating", "replacing"}
  /\ idFile' = Empty
  /\ loading' = [loading EXCEPT ![r] = "truncated"]
  /\ UNCHANGED id

\* It cannot, and nobody is told.
TruncateIdFails(r) ==
  /\ loading[r] \in {"creating", "replacing"}
  /\ Return(r, Content("whole", r))
  /\ UNCHANGED idFile

WriteId(r) ==
  /\ loading[r] = "truncated"
  /\ idFile' = Content("whole", r)
  /\ Return(r, Content("whole", r))

\* A full disk: the id is not in the file or only its beginning, over what
\* another run may have written in the meantime.  The run does not notice.
WriteIdFails(r) ==
  /\ loading[r] = "truncated"
  /\ idFile' \in {idFile, Content("torn", r)}
  /\ Return(r, Content("whole", r))

\* The app is killed: the calls under way end, one of them perhaps within
\* its write.
IdCrash ==
  /\ \E r \in Runs : loading[r] \notin {"idle", "done"}
  /\ idFile' \in {idFile} \cup {Content("torn", r) : r \in {q \in Runs : loading[q] = "truncated"}}
  /\ loading' = [r \in Runs |-> IF loading[r] = "idle" THEN "idle" ELSE "done"]
  /\ UNCHANGED id

IdLoad(r) ==
  \/ NoPath(r) \/ ResolvePath(r) \/ ReadId(r) \/ FindNoId(r) \/ ReadIdFails(r)
  \/ TruncateId(r) \/ TruncateIdFails(r) \/ WriteId(r) \/ WriteIdFails(r)

IdNext == IdCrash \/ \E r \in Runs : IdLoad(r)

IdSpec == IdInit /\ [][IdNext]_idVars

-----------------------------------------------------------------------------

\* There is an id in the file and nobody is about to replace it.
Settled ==
  /\ HoldsId
  /\ \A r \in Runs : loading[r] \in {"idle", "resolved", "done"}

\* README.md: "A persistent client_id UUID is generated on first launch and
\* stored in AppData".  However many first runs there were, and whichever of
\* their writes failed: once an id is in the file, even a torn one, and they
\* are over, it stays, through crashes too, and it is this id that every later
\* run returns that knows the path, until one cannot read the file and makes
\* up another.
IdSticks ==
  [][Settled /\ (\A r \in Runs : loading'[r] # "replacing") =>
       /\ Settled' /\ idFile' = idFile
       /\ \A r \in Runs :
            loading[r] = "resolved" /\ id'[r] # id[r] => id'[r] = idFile]_idVars

=============================================================================
