----------------------------- MODULE MCRunPlan -----------------------------
(***************************************************************************)
(* RunPlan on the sources and peers of MCBeaconPeers and a configuration   *)
(* with empty, single and repeated sections, built without "discv5".       *)
(***************************************************************************)
EXTENDS RunPlan, MCBeaconPeers

MCConfig == [
  control_http |-> <<>>,
  tcp |-> <<"rpc1", "rpc2">>,
  https_jsonrpc |-> <<"rpc1", "rpc2", "rpc1">>,
  wss_jsonrpc |-> <<"wss1">>,
  discv5_execution |-> <<>>,
  p2p_boot_nodes |-> <<"boot1", "boot2">>,
  discv4_execution |-> <<"boot1">>,
  rlpx_targets |-> <<"boot2">>,
  dns_compare |-> <<"rpc1">>,
  discv5_consensus |-> <<"enr1">>,
  beacon_https |-> <<"api1", "api2", "api3">>]

MCCompiled == DOMAIN MCConfig \ {"discv5_execution", "discv5_consensus"}

=============================================================================
