-------------------------- MODULE Libp2pHandshake --------------------------
(***************************************************************************)
(* The libp2p_handshake probe: multistream-select with a consensus node.   *)
(* A message of the remote is one length-prefixed line; a line cut short   *)
(* by the end of the stream is that end.                                   *)
(***************************************************************************)
EXTENDS Attempt

Messages == {"multistream", "noise", "other"}

Init == pc = "connecting" /\ TcpInit

Connect ==
  /\ pc = "connecting"
  /\ Established
  /\ pc' = "writing_header"
  /\ UNCHANGED <<up, down, result>>

ConnectFails ==
  /\ pc = "connecting"
  /\ Return(FALSE, TRUE, "network")
  /\ UNCHANGED <<up, down, remote>>

WriteHeader ==
  /\ pc = "writing_header"
  /\ Write("header")
  /\ pc' = "reading_header"
  /\ UNCHANGED <<down, remote, result>>

\* MS_HEADER or MS_NOISE cannot be written.
WriteFails ==
  /\ pc \in {"writing_header", "proposing_noise"}
  /\ CannotWrite
  /\ Return(FALSE, TRUE, "network")
  /\ UNCHANGED <<up, down, remote>>

Line == down # <<>> /\ Head(down) \in Messages
StreamEnds == down # <<>> /\ Head(down) \notin Messages

\* read_ms_line returns the remote's first line.
ReadHeader ==
  /\ pc = "reading_header"
  /\ Line
  /\ down' = Tail(down)
  /\ IF Head(down) = "multistream"
     THEN pc' = "proposing_noise" /\ UNCHANGED result
     ELSE Return(FALSE, TRUE, "not_libp2p")
  /\ UNCHANGED <<up, remote>>

ReadHeaderFails ==
  /\ pc = "reading_header"
  /\ StreamEnds
  /\ Return(FALSE, TRUE, "network")
  /\ UNCHANGED <<up, down, remote>>

ProposeNoise ==
  /\ pc = "proposing_noise"
  /\ Write("noise")
  /\ pc' = "reading_noise"
  /\ UNCHANGED <<down, remote, result>>

\* The answer, or the end of the stream, which counts as an empty answer.
ReadNoise ==
  /\ pc = "reading_noise"
  /\ down # <<>>
  /\ Return(TRUE, TRUE, IF Head(down) = "noise" THEN "noise_accepted" ELSE "noise_refused")
  /\ UNCHANGED <<up, down, remote>>

\* Mutant: only the connection has a timeout.
TimeoutConnecting ==
  /\ pc = "connecting"
  /\ Return(FALSE, FALSE, "timeout")
  /\ UNCHANGED <<up, down, remote>>

Timeout ==
  /\ \/ pc = "connecting"
     \/ pc \in {"reading_header", "reading_noise"} /\ down = <<>>
  /\ Return(FALSE, FALSE, "timeout")
  /\ UNCHANGED <<up, down, remote>>

Probe ==
  \/ Connect \/ ConnectFails
  \/ WriteHeader \/ WriteFails
  \/ ReadHeader \/ ReadHeaderFails
  \/ ProposeNoise \/ ReadNoise
  \/ Timeout

Next == Probe \/ TcpRemote(Messages)

\* The verdict is about the remote's own first lines, in their order, at
\* whatever pace they come: a pass means that the first one acknowledges
\* multistream, noise_accepted that the second one is /noise, and
\* not_libp2p that the first one was something else.
VerdictOnFirstLines ==
  LET said(i) == IF i \in DOMAIN remote.said THEN remote.said[i] ELSE "nothing"
  IN  /\ result.ok => said(1) = "multistream"
      /\ result.meta = "noise_accepted" => said(2) = "noise"
      /\ result.meta = "not_libp2p" => said(1) \in {"noise", "other"}

\* And the other way round: a header that has arrived is not refused, and what
\* arrives after the proposal, the end of the stream too, is a pass.
LinesStand ==
  /\ pc = "reading_header" /\ down # <<>> /\ Head(down) = "multistream" => pc' # "done"
  /\ pc = "reading_noise" /\ down # <<>> /\ pc' = "done" => result'.ok

\* The probe's own comment: "if the remote echoes it back, it is a live
\* libp2p node and the probe passes".  The probe proposes /noise only when it
\* has read the remote's header.
EchoPasses ==
  pc = "done" /\ "noise" \in remote.heard \cup {up[i] : i \in DOMAIN up} => result.ok

=============================================================================
