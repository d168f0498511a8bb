------------------------------ MODULE JobPlan ------------------------------
(***************************************************************************)
(* From a configuration to jobs: build_jobs and build_live_peer_jobs of    *)
(* crates/prober_core/src/probes/mod.rs, and the configuration the app is  *)
(* built with (default_config of config.rs).  A target stands for what its *)
(* label is made of.                                                       *)
(***************************************************************************)
EXTENDS Integers, SequencesExt

\* The sections of build_jobs in source order, and the jobs of one target.
Plan == <<
  <<"control_http",     <<"http_control">>>>,
  <<"tcp",              <<"dns_resolve", "tcp_connect", "tls_handshake">>>>,
  <<"https_jsonrpc",    <<"https_json_rpc", "https_json_rpc_write">>>>,
  <<"wss_jsonrpc",      <<"wss_json_rpc", "wss_subscribe">>>>,
  <<"discv5_execution", <<"discv5_ping">>>>,
  <<"p2p_boot_nodes",   <<"p2p_tcp_connect">>>>,
  <<"discv4_execution", <<"discv4_ping">>>>,
  <<"rlpx_targets",     <<"rlpx_handshake">>>>,
  <<"dns_compare",      <<"dns_compare">>>>,
  <<"discv5_consensus", <<"beacon_discv5_ping">>>>,
  <<"beacon_https",     <<"beacon_https">>>> >>

\* One job of each kind for each target, the jobs of a target side by side.
JobsFor(targets, kinds) ==
  FlattenSeq([i \in DOMAIN targets |->
                [k \in DOMAIN kinds |-> [kind |-> kinds[k], target |-> targets[i]]]])

\* config: for each section its targets (control_http: one if enabled);
\* compiled: the sections whose Cargo feature is on, or that need none.
BuildJobs(config, compiled) ==
  FlattenSeq([s \in DOMAIN Plan |->
                IF Plan[s][1] \in compiled THEN JobsFor(config[Plan[s][1]], Plan[s][2])
                                           ELSE <<>>])

LivePeerJobs(targets) == JobsFor(targets, <<"beacon_tcp_connect", "lib_p2p_handshake">>)

-----------------------------------------------------------------------------

Target(name, at) == [name |-> name, at |-> at]

RpcHosts == <<
  Target("publicnode", "ethereum-rpc.publicnode.com"), Target("cloudflare", "cloudflare-eth.com"),
  Target("llamarpc", "eth.llamarpc.com"), Target("drpc", "eth.drpc.org"),
  Target("flashbots", "rpc.flashbots.net"), Target("1rpc", "1rpc.io"),
  Target("mevblocker", "rpc.mevblocker.io"), Target("blast", "eth-mainnet.public.blastapi.io")>>

BootNodes == <<
  Target("EF-ap-southeast", "18.138.108.67"), Target("EF-us-east", "3.209.45.79"),
  Target("EF-hetzner-hel", "65.108.70.101"), Target("EF-hetzner-fsn", "157.90.35.166")>>

\* Mutant: the names of two boot nodes are swapped in one of the two lists.
BootNodesSwapped == <<
  Target("EF-us-east", "18.138.108.67"), Target("EF-ap-southeast", "3.209.45.79"),
  Target("EF-hetzner-hel", "65.108.70.101"), Target("EF-hetzner-fsn", "157.90.35.166")>>

\* discv4_execution, a second list of the boot nodes.
BootNodesAgain == <<
  Target("EF-ap-southeast", "18.138.108.67"), Target("EF-us-east", "3.209.45.79"),
  Target("EF-hetzner-hel", "65.108.70.101"), Target("EF-hetzner-fsn", "157.90.35.166")>>

\* The enode and ENR of a node, and the URL of a host, are its address here.
DefaultConfig == [
  control_http |-> <<>>,                       \* enabled: false
  tcp |-> RpcHosts,
  https_jsonrpc |-> RpcHosts,
  wss_jsonrpc |-> <<RpcHosts[1], RpcHosts[4]>>,
  discv5_execution |-> <<>>,
  p2p_boot_nodes |-> BootNodes,
  discv4_execution |-> BootNodesAgain,
  rlpx_targets |-> BootNodes,
  dns_compare |-> SubSeq(RpcHosts, 1, 4) \o
                  <<Target("beacon-publicnode", "ethereum-beacon-api.publicnode.com"),
                    Target("beacon-chainsafe", "lodestar-mainnet.chainsafe.io")>>,
  discv5_consensus |-> <<Target("teku-aws-ohio", "3.147.37.0"),
                         Target("teku-aws-sydney", "3.107.124.68"),
                         Target("nimbus-frankfurt", "3.120.104.18")>>,
  beacon_https |-> <<Target("publicnode", "ethereum-beacon-api.publicnode.com"),
                     Target("chainsafe-lodestar", "lodestar-mainnet.chainsafe.io")>>]

=============================================================================
