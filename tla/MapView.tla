------------------------------ MODULE MapView ------------------------------
(***************************************************************************)
(* The map tab: loadData, the effects and the controls of                  *)
(* app/src/MapView.jsx.  Every change of the filter while the map is ready *)
(* starts a request; the answers come back in any order, and each shows    *)
(* its points when it arrives.  The other tab of App.jsx takes the map     *)
(* away: what is under way then finds no map and no component any more.    *)
(***************************************************************************)
EXTENDS Integers, FiniteSets

CONSTANTS
  Sections,    \* the sections of the dropdown, each a set of probe kinds
  NoData,
  MaxClicks    \* bound: clicks of the user in a behaviour

VARIABLES
  tab,         \* "probes" or "map"
  selected,    \* selectedKinds as a set; {} stands for all probes
  mapReady,    \* the map has fired "load" and mapRef is set
  dirty,       \* the effect on [mapReady, selectedKinds] is due
  status,      \* "idle", "loading" or "error"
  pending,     \* the requests not answered yet: number and kinds
  loads,       \* requests started
  shown,       \* the kinds whose points the map shows
  clicks,
  overlapped   \* a request has been started while another was under way

mapVars ==
  <<selected, mapReady, dirty, status, pending, loads, shown, clicks, overlapped>>
viewVars == <<tab, mapVars>>

Kinds == UNION Sections

MapInit ==
  /\ tab = "probes"
  /\ selected = {}
  /\ mapReady = FALSE
  /\ dirty = FALSE
  /\ status = "idle"
  /\ pending = {}
  /\ loads = 0
  /\ shown = NoData
  /\ clicks = 0
  /\ overlapped = FALSE

Click == clicks < MaxClicks /\ clicks' = clicks + 1

\* The Map tab: the component is mounted with its initial state.
OpenMap ==
  /\ tab = "probes"
  /\ tab' = "map"
  /\ UNCHANGED mapVars

\* The Probes tab: the component is unmounted, its state is gone, the map
\* removed and mapRef null, so that an answer still to come is an error
\* nobody sees.
CloseMap ==
  /\ tab = "map"
  /\ Click
  /\ tab' = "probes"
  /\ selected' = {}
  /\ mapReady' = FALSE
  /\ dirty' = FALSE
  /\ status' = "idle"
  /\ pending' = {}
  /\ shown' = NoData
  /\ overlapped' = FALSE
  /\ UNCHANGED loads

\* map.on("load"): the source exists, and setMapReady makes the effect due.
MapLoads ==
  /\ tab = "map"
  /\ ~mapReady
  /\ mapReady' = TRUE
  /\ dirty' = TRUE
  /\ UNCHANGED <<tab, selected, status, pending, loads, shown, clicks, overlapped>>

\* Mutant: the effect does not depend on selectedKinds.
ChangeUnseen(kinds) ==
  /\ tab = "map"
  /\ Click
  /\ selected' = kinds
  /\ UNCHANGED <<tab, mapReady, dirty, status, pending, loads, shown, overlapped>>

\* onChange of the dropdown: a new array, so the effect is due even when it
\* holds the same kinds.
Change(kinds) ==
  /\ tab = "map"
  /\ Click
  /\ selected' = kinds
  /\ dirty' = mapReady
  /\ UNCHANGED <<tab, mapReady, status, pending, loads, shown, overlapped>>

ToggleKind(k) == Change(IF k \in selected THEN selected \ {k} ELSE selected \cup {k})

ToggleSection(S) == Change(IF S \subseteq selected THEN selected \ S ELSE selected \cup S)

SelectAll == Change({})

\* loadData(selectedKinds) up to its await.
StartLoad ==
  /\ status' = "loading"
  /\ loads' = loads + 1
  /\ pending' = pending \cup {[number |-> loads + 1, kinds |-> selected]}
  /\ overlapped' = (overlapped \/ pending # {})
  /\ UNCHANGED <<tab, selected, mapReady, shown>>

Effect ==
  /\ dirty
  /\ dirty' = FALSE
  /\ StartLoad
  /\ UNCHANGED clicks

\* The Refresh button, which is not there while the status is loading.
Refresh ==
  /\ mapReady
  /\ ~dirty
  /\ status # "loading"
  /\ Click
  /\ StartLoad
  /\ UNCHANGED dirty

\* getGeoReports returns: its points are shown, whatever is selected now.
Loaded(p) ==
  /\ pending' = pending \ {p}
  /\ shown' = p.kinds
  /\ status' = "idle"
  /\ UNCHANGED <<tab, selected, mapReady, dirty, loads, clicks, overlapped>>

\* Mutant: the catch block does not reset the status.
LoadFailsSilently(p) ==
  /\ pending' = pending \ {p}
  /\ UNCHANGED <<tab, selected, mapReady, dirty, status, loads, shown, clicks, overlapped>>

\* getGeoReports throws: the points stay as they are.
LoadFails(p) ==
  /\ pending' = pending \ {p}
  /\ status' = "error"
  /\ UNCHANGED <<tab, selected, mapReady, dirty, loads, shown, clicks, overlapped>>

MapSettled == mapReady /\ ~dirty /\ pending = {}

Rest == (tab = "probes" \/ MapSettled) /\ UNCHANGED viewVars

MapNext ==
  \/ OpenMap
  \/ CloseMap
  \/ MapLoads
  \/ \E k \in Kinds : ToggleKind(k)
  \/ \E S \in Sections : ToggleSection(S)
  \/ SelectAll
  \/ Effect
  \/ Refresh
  \/ \E p \in pending : Loaded(p) \/ LoadFails(p)
  \/ Rest

MapSpec == MapInit /\ [][MapNext]_viewVars

\* React runs the effects it has scheduled, and get_geo_reports ends within
\* its timeout.  Nothing says that the map ever loads.
MapFairSpec ==
  /\ MapSpec
  /\ WF_viewVars(Effect)
  /\ WF_viewVars(\E p \in pending : Loaded(p) \/ LoadFails(p))

-----------------------------------------------------------------------------

\* As long as no two requests overlap, a settled map without an error shows
\* the points of the kinds selected, also after changes made before the map
\* was ready, undone, or refreshed, or with the tab left and opened again.
SettledShowsSelected ==
  MapSettled /\ ~overlapped /\ status = "idle" => shown = selected

\* "Loading" never stays on: every request ends and clears it.
LoadingEnds == status = "loading" ~> status # "loading"

\* README.md: the map "plots every reported location on MapLibre with a
\* filter by probe kind": a settled map without an error shows the points
\* the filter asks for.
MapObeysFilter == MapSettled /\ status = "idle" => shown = selected

=============================================================================
