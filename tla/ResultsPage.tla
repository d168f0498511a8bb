---------------------------- MODULE ResultsPage ----------------------------
(***************************************************************************)
(* How app/src/App.jsx shows a report: three tables by kind of probe and a *)
(* note below the second; and the kinds the map's filter offers            *)
(* (app/src/MapView.jsx), which are a list of their own.                   *)
(***************************************************************************)
EXTENDS Labels

\* KIND_LABELS: the kinds a row has a label for.
KindLabels == {
  "dns_resolve", "tcp_connect", "tls_handshake", "http_control",
  "https_json_rpc", "https_json_rpc_write", "wss_json_rpc", "wss_subscribe",
  "p2p_tcp_connect", "discv4_ping", "dns_compare", "discv5_ping", "rlpx_handshake",
  "beacon_discv5_ping", "beacon_tcp_connect", "lib_p2p_handshake", "beacon_https"}

\* EXEC_P2P_KINDS and BEACON_KINDS.
ExecP2pKinds == {"p2p_tcp_connect", "discv4_ping", "dns_compare", "discv5_ping", "rlpx_handshake"}

\* Mutant: the name the documents use for the libp2p probe.
BeaconKindsAsDocumented ==
  {"beacon_discv5_ping", "beacon_tcp_connect", "libp2p_handshake", "beacon_https"}

BeaconKinds == {"beacon_discv5_ping", "beacon_tcp_connect", "lib_p2p_handshake", "beacon_https"}

\* rpcResults, execP2pResults and beaconResults: the places of the results
\* that are in them, in the order of the report.
Tables(results) == <<
  {i \in DOMAIN results : results[i].kind \notin ExecP2pKinds \cup BeaconKinds},
  {i \in DOMAIN results : results[i].kind \in ExecP2pKinds},
  {i \in DOMAIN results : results[i].kind \in BeaconKinds}>>

\* PROBE_SECTIONS of the map.
ProbeSections == <<
  {"dns_resolve", "tcp_connect", "tls_handshake", "http_control", "https_json_rpc",
   "https_json_rpc_write", "wss_json_rpc", "wss_subscribe"},
  {"p2p_tcp_connect", "discv4_ping", "discv5_ping", "rlpx_handshake", "dns_compare"},
  {"beacon_discv5_ping", "beacon_tcp_connect", "lib_p2p_handshake", "beacon_https"}>>

\* The names of the results of one kind with one verdict.
NamesOf(results, kind, ok) ==
  {NameIn(r.target) : r \in {q \in results : q.kind = kind /\ q.ok = ok}}

\* Nodes we can reach over TCP but not over DiscV4 UDP; matched by name.
DetectUdpTcpMismatch(execResults) ==
  NamesOf(execResults, "p2p_tcp_connect", TRUE) \cap NamesOf(execResults, "discv4_ping", FALSE)

=============================================================================
