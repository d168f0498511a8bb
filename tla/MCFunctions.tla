---------------------------- MODULE MCFunctions ----------------------------
(***************************************************************************)
(* Inputs at the edges of what the pure functions tell apart.              *)
(***************************************************************************)
EXTENDS PureFunctions

\* Up to 4 attempts, times that divide evenly and not.
MCAttempts == UNION {[1 .. n -> AttemptResult({1, 4, 6})] : n \in 0 .. 4}
MCThresholds == 0 .. 5

\* Byte strings at the edges of the encodings, numbers at those of the bytes.
MCStrings ==
  {<<0>>, <<127>>, <<128>>, <<255>>} \cup {Filler(n, 128) : n \in {0, 2, 54, 55, 56, 57, 255, 256}}
MCNumbers ==
  {0, 1, 127, 128, 255, 256, 65535, 65536, 16777215, 16777216, 1779000000, 2147483647}
MCPorts == {0, 1, 80, 127, 128, 255, 256, 30303, 65535}
MCSecrets == {0, 1, 128, 255}

\* All that PeersAssumption allows.
MCPeerCounts == 0 .. 216

\* Reports at the limits of what the query takes, of at most two runs.
Runs == UNION {[1 .. n -> [kind : {"tcp_connect", "dns_resolve"}, ok : BOOLEAN]] : n \in 0 .. 2}
MCStored ==
  [at : {1}, located : {{"latitude", "longitude"}}, age : {12}, runs : Runs] \cup
  [at : {1}, located : {{"latitude"}, {}}, age : {0}, runs : {<<[kind |-> "tcp_connect", ok |-> TRUE]>>}]
MCOthers == {
  [at |-> 2, located |-> {"latitude", "longitude"}, age |-> 0,
   runs |-> <<[kind |-> "dns_resolve", ok |-> TRUE], [kind |-> "tcp_connect", ok |-> FALSE]>>],
  [at |-> 3, located |-> {"latitude", "longitude"}, age |-> 13,
   runs |-> <<[kind |-> "tcp_connect", ok |-> TRUE]>>],
  [at |-> 4, located |-> {"latitude", "longitude"}, age |-> 3,
   runs |-> <<[kind |-> "tcp_connect", ok |-> FALSE]>>]}
MCSelections == {<<>>, <<"tcp_connect">>, <<"tcp_connect", "dns_resolve">>, <<"rlpx_handshake">>}

=============================================================================
