----------------------------- MODULE GeoReports -----------------------------
(***************************************************************************)
(* What the map is drawn from: the app's get_geo_reports command and       *)
(* fetch_geo_reports of reporting.rs, GET /api/geo-reports of              *)
(* server/app/main.py and the aggregate of storage.py.                     *)
(***************************************************************************)
EXTENDS Orders

CONSTANT Limit        \* the LIMIT of the query, 2000 in the code

\* A stored report: located, what lookup_ip found of its coordinates; age in
\* months; at, its received_at; runs, its rows of probe_runs.

\* The runs of a report FILTERed by ok; an absent filter counts all kinds.
CountRuns(report, ok, kinds) ==
  Cardinality({i \in DOMAIN report.runs :
                 /\ report.runs[i].ok = ok
                 /\ kinds # {} => report.runs[i].kind \in kinds})

\* Mutant: failures are counted without the filter.
RowCountingAllFailures(report, kinds) ==
  [at |-> report.at, ok_count |-> CountRuns(report, TRUE, kinds),
   fail_count |-> CountRuns(report, FALSE, {})]

Row(report, kinds) ==
  [at |-> report.at, ok_count |-> CountRuns(report, TRUE, kinds),
   fail_count |-> CountRuns(report, FALSE, kinds)]

\* WHERE ... GROUP BY r.id HAVING ... ORDER BY r.received_at DESC LIMIT $1,
\* without the HAVING if there are no kinds.
FetchGeoReports(reports, kinds) ==
  LET grouped == {r \in reports :
                    /\ r.located = {"latitude", "longitude"}
                    /\ r.age <= 12
                    /\ kinds # {} => \E i \in DOMAIN r.runs : r.runs[i].kind \in kinds}
      newest == Ascending(grouped, [r \in grouped |-> -r.at])
  IN  [i \in 1 .. Min({Len(newest), Limit}) |-> Row(newest[i], kinds)]

Comma == ","
Blank == ""

\* The client's ?kinds=a,b: the selected kinds joined with commas, or nothing.
Query(selected) ==
  [i \in 1 .. 2 * Len(selected) - 1 |-> IF i % 2 = 1 THEN selected[(i + 1) \div 2] ELSE Comma]

\* The endpoint: the query split at the commas, without blank pieces.
KindsList(query) == ToSet(query) \ {Comma, Blank}

\* What get_geo_reports hands to the map.
GetGeoReports(reports, selected) ==
  LET rows == FetchGeoReports(reports, KindsList(Query(selected)))
  IN  [i \in DOMAIN rows |->
         [at |-> rows[i].at, ok_count |-> rows[i].ok_count, fail_count |-> rows[i].fail_count,
          total |-> rows[i].ok_count + rows[i].fail_count]]

=============================================================================
