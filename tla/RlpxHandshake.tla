--------------------------- MODULE RlpxHandshake ---------------------------
(***************************************************************************)
(* The rlpx_handshake probe: connect, send the encrypted auth packet, and  *)
(* take any reaction of the remote for a pass.                             *)
(***************************************************************************)
EXTENDS Attempt

Messages == {"reply"}        \* auth-ack or disconnect

Init == pc = "preparing" /\ TcpInit

\* parse_enode and build_auth_packet.
Prepare ==
  /\ pc = "preparing"
  /\ pc' = "connecting"
  /\ UNCHANGED <<up, down, remote, result>>

\* The enode URL, its public key or the signature is no good.
CannotPrepare ==
  /\ pc = "preparing"
  /\ Return(FALSE, TRUE, "network")
  /\ UNCHANGED <<up, down, remote>>

Connect ==
  /\ pc = "connecting"
  /\ Established
  /\ pc' = "writing"
  /\ UNCHANGED <<up, down, result>>

ConnectFails ==
  /\ pc = "connecting"
  /\ Return(FALSE, TRUE, "tcp_blocked")
  /\ UNCHANGED <<up, down, remote>>

WriteAuth ==
  /\ pc = "writing"
  /\ Write("auth")
  /\ pc' = "reading"
  /\ UNCHANGED <<down, remote, result>>

WriteFails ==
  /\ pc = "writing"
  /\ CannotWrite
  /\ Return(FALSE, TRUE, "network")
  /\ UNCHANGED <<up, down, remote>>

Reaction(first) ==
  CASE first = "fin" -> "remote_closed"
    [] first = "rst" -> "remote_reset"
    [] OTHER -> "ack_received"

\* Mutant: a closed connection is an error, as read_exact would have it.
ReadExact ==
  /\ pc = "reading"
  /\ down # <<>>
  /\ Return(Head(down) \in Messages, TRUE, Reaction(Head(down)))
  /\ UNCHANGED <<up, down, remote>>

\* read() returns bytes, end of file or an error.
Read ==
  /\ pc = "reading"
  /\ down # <<>>
  /\ Return(TRUE, TRUE, Reaction(Head(down)))
  /\ UNCHANGED <<up, down, remote>>

Timeout ==
  /\ \/ pc = "connecting"
     \/ pc = "reading" /\ down = <<>>
  /\ Return(FALSE, FALSE, "timeout")
  /\ UNCHANGED <<up, down, remote>>

Probe ==
  \/ Prepare \/ CannotPrepare
  \/ Connect \/ ConnectFails
  \/ WriteAuth \/ WriteFails
  \/ Read \/ Timeout

Next == Probe \/ TcpRemote(Messages)

\* "Any reaction counts as success: auth-ack, disconnect, FIN or RST": once
\* one has arrived after the auth packet was sent, the attempt cannot fail.
ReactionPasses(next) ==
  pc = "reading" /\ down # <<>> /\ pc' = "done" => next.ok

\* Silence never passes: a filter that lets the connection open and drops
\* what follows is told from a node that answers, and the reaction named in
\* meta is one the remote has had.  (To what it is a reaction the probe cannot
\* tell: a FIN sent before the auth packet arrived counts.)
PassIsAReaction ==
  result.ok =>
    /\ result.meta = "ack_received" => remote.said # <<>>
    /\ result.meta = "remote_closed" => remote.state # "open"
    /\ result.meta = "remote_reset" => remote.state = "rst"
    /\ remote.said # <<>> \/ remote.state \notin {"listening", "open"}

=============================================================================
