---------------------------- MODULE AppProofs -------------------------------
(***************************************************************************)
(* Proofs about the app: the files of its data directory (ReportQueue, for *)
(* any reports and flushes, and ClientId, for any runs) and the map tab    *)
(* (MapView, for any sections and any number of clicks).                   *)
(***************************************************************************)
EXTENDS ReportQueue, ClientId, MapView, TLAPS

Pieces == [report : Reports, part : {"whole", "cut", "noeol"}]

QueueTypeOK ==
  /\ file \in Seq(Pieces)
  /\ saving \in [Reports -> {"sending", "opened", "written", "failed", "done"}]
  /\ told \in [Reports -> {"none", "queued", "queue_failed"}]
  /\ flush \in [Flushes -> {"idle", "parsing", "failed", "flushed"}]
  /\ wiped \in [Flushes -> Seq(Pieces)]

\* A report is written once: what is in the file, or was, has had its write.
WrittenBefore ==
  /\ \A i \in DOMAIN file : saving[file[i].report] \notin {"sending", "opened"}
  /\ \A f \in Flushes : \A k \in DOMAIN wiped[f] :
       saving[wiped[f][k].report] \notin {"sending", "opened"}

\* A flush truncates once, at its end.
WipedAtEnd == \A f \in Flushes : flush[f] # "flushed" => wiped[f] = <<>>

QInv == QueueTypeOK /\ WrittenBefore /\ WipedAtEnd /\ QueuedOnce /\ QueuedIsKept

\* The pieces are those of reports.
LEMMA PiecesOfReports ==
  ASSUME QueueTypeOK
  PROVE  /\ \A i \in DOMAIN file : file[i].report \in Reports
         /\ \A f \in Flushes : \A k \in DOMAIN wiped[f] : wiped[f][k].report \in Reports
<1>1. \A s \in Seq(Pieces) : \A i \in DOMAIN s : s[i] \in Pieces
  OBVIOUS
<1>2. \A p \in Pieces : p.report \in Reports
  BY DEF Pieces
<1>3. file \in Seq(Pieces) /\ \A f \in Flushes : wiped[f] \in Seq(Pieces)
  BY DEF QueueTypeOK
<1> QED
  BY <1>1, <1>2, <1>3

\* Appending a piece keeps what is there, whole or torn.
LEMMA AppendEffect ==
  ASSUME NEW f \in Seq(Pieces), NEW p \in Pieces
  PROVE  /\ Append(f, p) \in Seq(Pieces)
         /\ DOMAIN Append(f, p) = DOMAIN f \cup {Len(f) + 1}
         /\ \A i \in DOMAIN f : i # Len(f) + 1 /\ Append(f, p)[i] = f[i]
         /\ Append(f, p)[Len(f) + 1] = p
         /\ Intact(f) \subseteq Intact(Append(f, p))
         /\ p.part # "cut" => p.report \in Intact(Append(f, p))
         /\ ~Parses(f) => ~Parses(Append(f, p))
<1>1. /\ Append(f, p) \in Seq(Pieces)
      /\ Len(f) \in Nat /\ DOMAIN f = 1 .. Len(f)
      /\ Len(Append(f, p)) = Len(f) + 1
      /\ DOMAIN Append(f, p) = DOMAIN f \cup {Len(f) + 1}
      /\ \A i \in DOMAIN f : Append(f, p)[i] = f[i]
      /\ Append(f, p)[Len(f) + 1] = p
  OBVIOUS
<1>2. \A i \in DOMAIN f : i # Len(f) + 1 /\ i # Len(Append(f, p))
  BY <1>1
<1>3. Intact(f) \subseteq Intact(Append(f, p))
  BY <1>1 DEF Intact
<1>4. p.part # "cut" => p.report \in Intact(Append(f, p))
  BY <1>1 DEF Intact
<1>5. ~Parses(f) => ~Parses(Append(f, p))
  BY <1>1, <1>2 DEF Parses
<1> QED
  BY <1>1, <1>2, <1>3, <1>4, <1>5

LEMMA InitQInv == Init => QInv
<1> SUFFICES ASSUME Init PROVE QInv
  OBVIOUS
<1>1. QueueTypeOK
  BY DEF Init, QueueTypeOK
<1>2. DOMAIN file = {} /\ \A f \in Flushes : wiped[f] = <<>> /\ DOMAIN wiped[f] = {}
  BY DEF Init
<1> QED
  BY <1>1, <1>2 DEF Init, QInv, WrittenBefore, WipedAtEnd, QueuedOnce, QueuedIsKept

\* A step of run_probes that appends no piece.
LEMMA NoAppendStep ==
  ASSUME QInv, NEW r \in Reports, Open(r) \/ OpenFails(r) \/ Tell(r)
  PROVE  QInv'
<1>1. /\ UNCHANGED <<file, flush, wiped>>
      /\ QueueTypeOK'
      /\ \A q \in Reports : q # r => saving'[q] = saving[q] /\ told'[q] = told[q]
      /\ saving[r] \notin {"sending", "opened"} => saving'[r] \notin {"sending", "opened"}
      /\ told'[r] = "queued" => told[r] = "queued" \/ saving[r] = "written"
      /\ saving'[r] # "written"
  BY DEF QInv, QueueTypeOK, Open, OpenFails, Tell
<1>2. WrittenBefore'
  BY <1>1, PiecesOfReports DEF QInv, WrittenBefore
<1>3. WipedAtEnd' /\ QueuedOnce'
  BY <1>1 DEF QInv, WipedAtEnd, QueuedOnce
<1>4. QueuedIsKept'
  BY <1>1 DEF QInv, QueuedIsKept, Intact
<1> QED
  BY <1>1, <1>2, <1>3, <1>4 DEF QInv

\* A step that appends a piece of the report.
LEMMA AppendStep ==
  ASSUME QInv, NEW r \in Reports, NEW part \in {"whole", "cut", "noeol"},
         file' = Append(file, Piece(r, part)), saving[r] = "opened",
         saving' = [saving EXCEPT ![r] = IF part = "whole" THEN "written" ELSE "failed"],
         UNCHANGED <<told, flush, wiped>>
  PROVE  QInv'
<1> DEFINE p == Piece(r, part)
<1>1. p \in Pieces /\ p.report = r /\ p.part = part
  BY DEF Piece, Pieces
<1>2. file \in Seq(Pieces)
  BY DEF QInv, QueueTypeOK
<1>3. /\ file' \in Seq(Pieces)
      /\ DOMAIN file' = DOMAIN file \cup {Len(file) + 1}
      /\ \A i \in DOMAIN file : i # Len(file) + 1 /\ file'[i] = file[i]
      /\ file'[Len(file) + 1] = p
      /\ Intact(file) \subseteq Intact(file')
      /\ p.part # "cut" => p.report \in Intact(file')
  BY <1>1, <1>2, AppendEffect
<1>4. QueueTypeOK'
  BY <1>3 DEF QInv, QueueTypeOK
<1>5. /\ \A q \in Reports : q # r => saving'[q] = saving[q]
      /\ saving'[r] = IF part = "whole" THEN "written" ELSE "failed"
  BY DEF QInv, QueueTypeOK
<1>6. /\ \A i \in DOMAIN file : file[i].report # r /\ file[i].report \in Reports
      /\ \A f \in Flushes : \A k \in DOMAIN wiped[f] :
           wiped[f][k].report # r /\ wiped[f][k].report \in Reports
  BY PiecesOfReports DEF QInv, WrittenBefore
<1>7. WrittenBefore'
  BY <1>1, <1>3, <1>5, <1>6 DEF QInv, WrittenBefore
<1>8. WipedAtEnd'
  BY DEF QInv, WipedAtEnd
<1>9. QueuedOnce'
  BY <1>1, <1>3, <1>6 DEF QInv, QueuedOnce
<1>10. told[r] # "queued" \/ r \in Intact(file)
          \cup UNION {Intact(wiped[f]) : f \in Flushes}
  BY DEF QInv, QueuedIsKept
<1>11. QueuedIsKept'
  BY <1>1, <1>3, <1>5, <1>10 DEF QInv, QueuedIsKept
<1> QED
  BY <1>4, <1>7, <1>8, <1>9, <1>11 DEF QInv

\* A step that leaves the file and what was truncated alone.
LEMMA FlushStep ==
  ASSUME QInv, NEW f \in Flushes, FlushNothing(f) \/ FlushRead(f) \/ FlushFails(f)
  PROVE  QInv'
<1>1. /\ UNCHANGED <<file, saving, told, wiped>>
      /\ QueueTypeOK'
      /\ \A g \in Flushes : flush'[g] # "flushed" => flush[g] # "flushed"
  BY DEF QInv, QueueTypeOK, FlushNothing, FlushRead, FlushFails
<1> QED
  BY <1>1 DEF QInv, WrittenBefore, WipedAtEnd, QueuedOnce, QueuedIsKept, Intact

\* The truncation moves what the file holds to what this flush removed.
LEMMA ClearStep ==
  ASSUME QInv, NEW f \in Flushes, FlushClears(f)
  PROVE  QInv'
<1>1. /\ file' = <<>> /\ DOMAIN file' = {}
      /\ \A g \in Flushes : wiped'[g] = IF g = f THEN file ELSE wiped[g]
      /\ \A g \in Flushes : g # f => flush'[g] = flush[g]
      /\ flush'[f] = "flushed" /\ wiped[f] = <<>> /\ DOMAIN wiped[f] = {}
      /\ UNCHANGED <<saving, told>>
  BY DEF QInv, QueueTypeOK, WipedAtEnd, FlushClears
<1>2. QueueTypeOK'
  BY DEF QInv, QueueTypeOK, FlushClears
<1>3. WrittenBefore' /\ WipedAtEnd'
  BY <1>1 DEF QInv, WrittenBefore, WipedAtEnd
<1>4. QueuedOnce'
  BY <1>1 DEF QInv, QueuedOnce
<1>5. /\ Intact(wiped'[f]) = Intact(file)
      /\ Intact(wiped[f]) = {}
      /\ \A g \in Flushes : g # f => Intact(wiped'[g]) = Intact(wiped[g])
  BY <1>1 DEF Intact
<1>6. Intact(file) \cup UNION {Intact(wiped[g]) : g \in Flushes}
        \subseteq UNION {Intact(wiped'[g]) : g \in Flushes}
  BY <1>5
<1>7. QueuedIsKept'
  BY <1>1, <1>6 DEF QInv, QueuedIsKept
<1> QED
  BY <1>2, <1>3, <1>4, <1>7 DEF QInv

\* The app is killed: no command touches the file.
LEMMA CrashStep ==
  ASSUME QInv, Crash
  PROVE  QInv'
<1>1. /\ UNCHANGED <<file, told, wiped>>
      /\ QueueTypeOK'
      /\ \A r \in Reports : /\ saving'[r] = "written" => saving[r] = "written"
                            /\ saving'[r] \in {"sending", "opened"} => saving'[r] = saving[r]
      /\ \A f \in Flushes : flush'[f] # "flushed" => flush[f] # "flushed"
  BY DEF QInv, QueueTypeOK, Crash
<1>2. WrittenBefore'
  BY <1>1, PiecesOfReports DEF QInv, WrittenBefore
<1> QED
  BY <1>1, <1>2 DEF QInv, WipedAtEnd, QueuedOnce, QueuedIsKept, Intact

LEMMA QInvStep == QInv /\ [Next]_vars => QInv'
<1> SUFFICES ASSUME QInv, [Next]_vars PROVE QInv'
  OBVIOUS
<1>1. ASSUME NEW r \in Reports, WriteLine(r)
      PROVE  QInv'
  BY <1>1, AppendStep DEF WriteLine
<1>2. ASSUME NEW r \in Reports, WriteFails(r)
      PROVE  QInv'
  <2>1. CASE file' = file
    <3>1. /\ UNCHANGED <<told, flush, wiped>>
          /\ QueueTypeOK'
          /\ \A q \in Reports : q # r => saving'[q] = saving[q]
          /\ saving'[r] = "failed"
      BY <1>2, <2>1 DEF WriteFails, QInv, QueueTypeOK
    <3>2. WrittenBefore'
      BY <2>1, <3>1, PiecesOfReports DEF QInv, WrittenBefore
    <3>3. \A q \in Reports : told'[q] = "queued" \/ saving'[q] = "written" =>
                             told[q] = "queued" \/ saving[q] = "written"
      BY <3>1
    <3> QED
      BY <2>1, <3>1, <3>2, <3>3 DEF QInv, WipedAtEnd, QueuedOnce, QueuedIsKept, Intact
  <2>2. CASE \E part \in {"cut", "noeol"} : file' = Append(file, Piece(r, part))
    BY <1>2, <2>2, AppendStep DEF WriteFails
  <2> QED
    BY <1>2, <2>1, <2>2 DEF WriteFails
<1>3. CASE Idle \/ UNCHANGED vars
  <2>1. UNCHANGED vars
    BY <1>3 DEF Idle
  <2>2. QueueTypeOK' /\ WrittenBefore' /\ WipedAtEnd' /\ QueuedOnce'
    BY <2>1 DEF vars, QInv, QueueTypeOK, WrittenBefore, WipedAtEnd, QueuedOnce
  <2>3. QueuedIsKept'
    BY <2>1 DEF vars, QInv, QueuedIsKept, Intact
  <2> QED
    BY <2>2, <2>3 DEF QInv
<1> QED
  BY <1>1, <1>2, <1>3, NoAppendStep, FlushStep, ClearStep, CrashStep
  DEF Next, Save, Flush

\* The invariant holds for any interleaving of appends, flushes and crashes.
THEOREM Invariant == Spec => []QInv
BY InitQInv, QInvStep, PTL DEF Spec

\* run_probes answers queued only for a report that is whole in the file,
\* until a flush truncates it.
THEOREM QueuedReportsAreKept == Spec => []QueuedIsKept
BY Invariant, PTL DEF QInv

\* append_queued_report writes a report once and flush_queue truncates it once.
THEOREM ReportsAreQueuedOnce == Spec => []QueuedOnce
BY Invariant, PTL DEF QInv

\* flush_queue returns at the first line that does not parse: after a torn
\* append no flush that starts then drains the queue.
THEOREM PoisonIsForEver == Spec => PoisonStays
<1>1. QInv /\ [Next]_vars =>
        [(~Parses(file) /\ \A f \in Flushes : flush[f] = "parsing" => ~Parses(content[f]))
           => ~Parses(file')]_vars
  <2> SUFFICES ASSUME QInv, [Next]_vars, ~Parses(file),
                      \A f \in Flushes : flush[f] = "parsing" => ~Parses(content[f])
               PROVE  ~Parses(file')
    OBVIOUS
  <2>1. CASE file' = file
    BY <2>1
  <2>2. ASSUME NEW r \in Reports, NEW part \in {"whole", "cut", "noeol"},
               file' = Append(file, Piece(r, part))
        PROVE  ~Parses(file')
    <3>1. file \in Seq(Pieces) /\ Piece(r, part) \in Pieces
      BY DEF QInv, QueueTypeOK, Piece, Pieces
    <3> QED
      BY <2>2, <3>1, AppendEffect
  <2> QED
    BY <2>1, <2>2 DEF Next, Save, Open, OpenFails, WriteLine, WriteFails, Tell, Flush,
       FlushNothing, FlushRead, FlushFails, FlushClears, Crash, Idle, vars
<1> QED
  BY <1>1, Invariant, PTL DEF Spec, PoisonStays

-----------------------------------------------------------------------------

IdTypeOK == DOMAIN loading = Runs /\ DOMAIN id = Runs

LEMMA IdTypes == IdSpec => []IdTypeOK
<1>1. IdInit => IdTypeOK
  BY DEF IdInit, IdTypeOK
<1>2. IdTypeOK /\ [IdNext]_idVars => IdTypeOK'
  BY DEF IdTypeOK, IdNext, IdCrash, IdLoad, NoPath, ResolvePath, ReadId, FindNoId,
     ReadIdFails, TruncateId, TruncateIdFails, WriteId, WriteIdFails, Return, idVars
<1> QED
  BY <1>1, <1>2, PTL DEF IdSpec

\* load_or_create_client_id: an id that is in the file when no run is about
\* to replace it is what every later run returns that knows the path and can
\* read the file.
THEOREM IdIsForEver == IdSpec => IdSticks
<1>1. IdTypeOK /\ [IdNext]_idVars =>
        [Settled /\ (\A r \in Runs : loading'[r] # "replacing") =>
           /\ Settled' /\ idFile' = idFile
           /\ \A r \in Runs :
                loading[r] = "resolved" /\ id'[r] # id[r] => id'[r] = idFile]_idVars
  <2> SUFFICES ASSUME IdTypeOK, IdNext, Settled,
                      \A r \in Runs : loading'[r] # "replacing"
               PROVE  /\ Settled' /\ idFile' = idFile
                      /\ \A r \in Runs :
                           loading[r] = "resolved" /\ id'[r] # id[r] => id'[r] = idFile
    OBVIOUS
  <2>1. IdCrash \/ \E r \in Runs : NoPath(r) \/ ResolvePath(r) \/ ReadId(r)
    BY DEF IdTypeOK, IdNext, IdLoad, FindNoId, ReadIdFails, TruncateId,
       TruncateIdFails, WriteId, WriteIdFails, Settled
  <2>2. CASE IdCrash
    <3>1. \A r \in Runs : loading[r] # "truncated"
      BY DEF Settled
    <3> QED
      BY <2>2, <3>1 DEF IdCrash, Settled, HoldsId
  <2>3. ASSUME NEW r \in Runs, NoPath(r) \/ ResolvePath(r) \/ ReadId(r)
        PROVE  /\ Settled' /\ idFile' = idFile
               /\ \A q \in Runs : loading[q] = "resolved" /\ id'[q] # id[q] => id'[q] = idFile
    BY <2>3 DEF IdTypeOK, NoPath, ResolvePath, ReadId, Return, Settled, HoldsId
  <2> QED
    BY <2>1, <2>2, <2>3
<1> QED
  BY <1>1, IdTypes, PTL DEF IdSpec, IdSticks

-----------------------------------------------------------------------------

\* As long as no two requests overlap, the last request has asked for what is
\* selected, unless the effect that will ask for it is due.
LastLoadIsCurrent ==
  /\ ~overlapped => \A p, q \in pending : p = q
  /\ ~overlapped /\ pending # {} => status = "loading"
  /\ ~overlapped /\ mapReady /\ ~dirty =>
       /\ \A p \in pending : p.kinds = selected
       /\ pending = {} /\ status = "idle" => shown = selected

\* Nothing is under way before the map is there, and no map is on the other tab.
NoMapNoLoad ==
  /\ ~mapReady => ~dirty /\ pending = {}
  /\ tab = "probes" => ~mapReady

VInv ==
  /\ mapReady \in BOOLEAN /\ dirty \in BOOLEAN /\ overlapped \in BOOLEAN
  /\ LastLoadIsCurrent
  /\ NoMapNoLoad

USE DEF VInv, LastLoadIsCurrent, NoMapNoLoad

LEMMA VInvStep == VInv /\ [MapNext]_viewVars => VInv'
<1> SUFFICES ASSUME VInv, [MapNext]_viewVars PROVE VInv'
  OBVIOUS
<1>1. CASE OpenMap
  BY <1>1 DEF OpenMap, mapVars
<1>2. CASE CloseMap
  BY <1>2 DEF CloseMap
<1>3. CASE MapLoads
  BY <1>3 DEF MapLoads
<1>4. ASSUME NEW kinds, Change(kinds)
      PROVE  VInv'
  BY <1>4 DEF Change
<1>5. CASE Effect \/ Refresh
  <2>1. /\ mapReady /\ mapReady' = mapReady /\ tab' = tab /\ selected' = selected
        /\ dirty' = FALSE /\ status' = "loading"
        /\ pending' = pending \cup {[number |-> loads + 1, kinds |-> selected]}
        /\ overlapped' = (overlapped \/ pending # {})
    BY <1>5 DEF Effect, Refresh, StartLoad
  <2>2. CASE pending = {}
    <3>1. pending' = {[number |-> loads + 1, kinds |-> selected]}
      BY <2>1, <2>2
    <3>2. overlapped' = overlapped
      BY <2>1, <2>2
    <3>3. LastLoadIsCurrent'
      BY <2>1, <3>1
    <3> QED
      BY <2>1, <3>2, <3>3
  <2>3. CASE pending # {}
    <3>1. overlapped' = TRUE
      BY <2>1, <2>3
    <3> QED
      BY <2>1, <3>1
  <2> QED
    BY <2>2, <2>3
<1>6. ASSUME NEW p \in pending, Loaded(p) \/ LoadFails(p)
      PROVE  VInv'
  BY <1>6 DEF Loaded, LoadFails
<1>7. CASE Rest \/ UNCHANGED viewVars
  BY <1>7 DEF Rest, viewVars, mapVars
<1> QED
  BY <1>1, <1>2, <1>3, <1>4, <1>5, <1>6, <1>7 DEF MapNext, ToggleKind, ToggleSection, SelectAll

\* A map whose requests have not overlapped settles on the kinds selected.
THEOREM SettlesOnSelected == MapSpec => []SettledShowsSelected
<1>1. MapInit => VInv
  BY DEF MapInit
<1>2. VInv => SettledShowsSelected
  BY DEF SettledShowsSelected, MapSettled
<1> QED
  BY <1>1, <1>2, VInvStep, PTL DEF MapSpec

=============================================================================
