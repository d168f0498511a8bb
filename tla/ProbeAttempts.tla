--------------------------- MODULE ProbeAttempts ---------------------------
(***************************************************************************)
(* One attempt of any of the probes: the jobs of a run are of many kinds,  *)
(* and run_jobs only sees a ProbeFn.  A control probe with an expect_body  *)
(* and one without count as two kinds.                                     *)
(***************************************************************************)
EXTENDS Naturals, Sequences

CONSTANTS
  MaxSaid,
  Addresses       \* what a name may resolve to

VARIABLES
  kind,       \* the kind of the probe
  pc, up, down, remote, result      \* those of Attempt

attempt == <<pc, up, down, remote, result>>
vars == <<kind, pc, up, down, remote, result>>

Discv4 == INSTANCE Discv4Ping
Rlpx == INSTANCE RlpxHandshake
Libp2p == INSTANCE Libp2pHandshake
WssRpc == INSTANCE WssSession WITH Subscribe <- FALSE
WssSub == INSTANCE WssSession WITH Subscribe <- TRUE

HttpRead == INSTANCE HttpExchange WITH Probes <- "https_json_rpc", Expects <- FALSE
HttpWrite == INSTANCE HttpExchange WITH Probes <- "https_json_rpc_write", Expects <- FALSE
HttpBeacon == INSTANCE HttpExchange WITH Probes <- "beacon_https", Expects <- FALSE
Control == INSTANCE HttpExchange WITH Probes <- "http_control", Expects <- FALSE
ControlBody == INSTANCE HttpExchange WITH Probes <- "http_control", Expects <- TRUE
Dns2 == INSTANCE DnsCompare
Dns == INSTANCE ConnectProbe
         WITH Calls <- 1, Prepares <- FALSE, FailureWord <- "dns_error", TimeoutWord <- "timeout"
Tcp == INSTANCE ConnectProbe
         WITH Calls <- 1, Prepares <- FALSE, FailureWord <- "none", TimeoutWord <- "none"
Tls == INSTANCE ConnectProbe
         WITH Calls <- 2, Prepares <- FALSE, FailureWord <- "none", TimeoutWord <- "timeout"
Discv5 == INSTANCE ConnectProbe
            WITH Calls <- 2, Prepares <- TRUE, FailureWord <- "none", TimeoutWord <- "none"

Init ==
  \/ kind = "discv4_ping" /\ Discv4!Init
  \/ kind = "rlpx_handshake" /\ Rlpx!Init
  \/ kind = "lib_p2p_handshake" /\ Libp2p!Init
  \/ kind = "wss_json_rpc" /\ WssRpc!Init
  \/ kind = "wss_subscribe" /\ WssSub!Init
  \/ kind = "https_json_rpc" /\ HttpRead!Init
  \/ kind = "https_json_rpc_write" /\ HttpWrite!Init
  \/ kind = "beacon_https" /\ HttpBeacon!Init
  \/ kind = "http_control" /\ Control!Init
  \/ kind = "http_control_body" /\ ControlBody!Init
  \/ kind = "dns_compare" /\ Dns2!Init
  \/ kind = "dns_resolve" /\ Dns!Init
  \/ kind = "tcp_connect" /\ Tcp!Init
  \/ kind = "tls_handshake" /\ Tls!Init
  \/ kind = "discv5_ping" /\ Discv5!Init

\* A step of run() itself.
Probe ==
  /\ \/ kind = "discv4_ping" /\ Discv4!Probe
     \/ kind = "rlpx_handshake" /\ Rlpx!Probe
     \/ kind = "lib_p2p_handshake" /\ Libp2p!Probe
     \/ kind = "wss_json_rpc" /\ WssRpc!Probe
     \/ kind = "wss_subscribe" /\ WssSub!Probe
     \/ kind = "https_json_rpc" /\ HttpRead!Probe
     \/ kind = "https_json_rpc_write" /\ HttpWrite!Probe
     \/ kind = "beacon_https" /\ HttpBeacon!Probe
     \/ kind = "http_control" /\ Control!Probe
     \/ kind = "http_control_body" /\ ControlBody!Probe
     \/ kind = "dns_compare" /\ Dns2!Probe
     \/ kind = "dns_resolve" /\ Dns!Probe
     \/ kind = "tcp_connect" /\ Tcp!Probe
     \/ kind = "tls_handshake" /\ Tls!Probe
     \/ kind = "discv5_ping" /\ Discv5!Probe
  /\ UNCHANGED kind

\* A step of the network or of the remote side.
Environment ==
  /\ \/ kind = "discv4_ping" /\ Discv4!Network
     \/ kind = "rlpx_handshake" /\ Rlpx!TcpRemote(Rlpx!Messages)
     \/ kind = "lib_p2p_handshake" /\ Libp2p!TcpRemote(Libp2p!Messages)
     \/ kind = "wss_json_rpc" /\ WssRpc!TcpRemote(WssRpc!Messages)
     \/ kind = "wss_subscribe" /\ WssSub!TcpRemote(WssSub!Messages)
     \/ kind = "https_json_rpc" /\ HttpRead!Server
     \/ kind = "https_json_rpc_write" /\ HttpWrite!Server
     \/ kind = "beacon_https" /\ HttpBeacon!Server
     \/ kind = "http_control" /\ Control!Server
     \/ kind = "http_control_body" /\ ControlBody!Server
  /\ UNCHANGED kind

Returned == pc = "done" /\ UNCHANGED vars

Next == Probe \/ Environment \/ Returned

Spec == Init /\ [][Next]_vars

\* The runtime polls the probe, the resolver answers or gives up, and the
\* timer fires; the remote side owes nothing.
FairSpec == Spec /\ WF_vars(Probe)

-----------------------------------------------------------------------------

\* The endpoint proof never leaves the node and the probe waiting for each
\* other.
NoStandoff == kind = "discv4_ping" => Discv4!NoStandoff

\* What has arrived decides in favour of the node: strays in front of a PONG
\* never hide it, and every reaction to the RLPx auth packet passes, a closed
\* connection too.
EvidencePasses ==
  [][/\ kind = "discv4_ping" => Discv4!PongPasses(result')
     /\ kind = "rlpx_handshake" => Rlpx!ReactionPasses(result')]_vars

\* No verdict without evidence.  Silence, as of a filter that drops the auth
\* packet, never passes as RLPx; a pass over HTTP is backed by a whole answer
\* of the provider; and a DNS block is suspected only of a name that resolves
\* elsewhere.
VerdictIsEvidenced ==
  /\ kind = "rlpx_handshake" => Rlpx!PassIsAReaction
  /\ kind = "https_json_rpc" => HttpRead!PassNeedsAnswer
  /\ kind = "https_json_rpc_write" => HttpWrite!PassNeedsAnswer
  /\ kind = "beacon_https" => HttpBeacon!PassNeedsAnswer
  /\ kind = "http_control_body" => ControlBody!PassNeedsAnswer
  /\ kind = "dns_compare" => Dns2!BlockNeedsARecord

\* The remote's first messages decide, whatever it sends later: the first two
\* lines of a libp2p node, the first text frame of a WebSocket server.  No other
\* message makes a verdict, and once they have arrived no other verdict is made,
\* unless a reset overtakes them and they are never read.
FirstMessagesDecide ==
  /\ [](/\ kind = "lib_p2p_handshake" => Libp2p!VerdictOnFirstLines
        /\ kind = "wss_json_rpc" => WssRpc!FirstTextDecides
        /\ kind = "wss_subscribe" => WssSub!FirstTextDecides)
  /\ [][/\ kind = "lib_p2p_handshake" => Libp2p!LinesStand
        /\ kind = "wss_json_rpc" => WssRpc!FirstTextStands
        /\ kind = "wss_subscribe" => WssSub!FirstTextStands]_vars

\* run() returns, whatever the remote side does or leaves undone.
AttemptEnds == <>(pc = "done")

\* The comment in libp2p_handshake.rs: "if the remote echoes it back, it is
\* a live libp2p node and the probe passes".
EchoPasses == kind = "lib_p2p_handshake" => Libp2p!EchoPasses

=============================================================================
