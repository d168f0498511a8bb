----------------------------- MODULE Discv4Ping -----------------------------
(***************************************************************************)
(* The discv4_ping probe: one PING to the node, and a PONG expected back.  *)
(* A node that wants an endpoint proof first PINGs the probe and goes on   *)
(* when the probe has answered it with a PONG of its own.  Datagrams may   *)
(* be lost in either direction.  Others may come from elsewhere, a PING or *)
(* a PONG among them: the probe looks at the type of a packet only, not at *)
(* its sender, its hash or the PING it answers.                            *)
(***************************************************************************)
EXTENDS Attempt

Strays == {"foreign_ping", "foreign_pong", "short", "other", "recv_error"}
Pongs == {"pong", "foreign_pong"}

\* strict: the node wants an endpoint proof; owes: datagrams it is going to
\* send; lost: some datagram has been lost.
Init ==
  /\ pc = "resolving"
  /\ up = <<>>
  /\ down = <<>>
  /\ remote \in [heard : {{}}, owes : {{}}, strict : BOOLEAN, lost : {FALSE}, sent : {0}]
  /\ result = NoResult

\* lookup_host, which is not under the timeout, finds an IPv4 address.
Resolve ==
  /\ pc = "resolving"
  /\ pc' = "sending"
  /\ UNCHANGED <<up, down, remote, result>>

ResolveFails ==
  /\ pc = "resolving"
  /\ Return(FALSE, FALSE, "dns_error")
  /\ UNCHANGED <<up, down, remote>>

BindFails ==
  /\ pc = "sending"
  /\ Return(FALSE, FALSE, "internal")
  /\ UNCHANGED <<up, down, remote>>

SendPing ==
  /\ pc = "sending"
  /\ up' = Append(up, "ping")
  /\ pc' = "receiving"
  /\ UNCHANGED <<down, remote, result>>

SendFails ==
  /\ pc = "sending"
  /\ Return(FALSE, TRUE, "network")
  /\ UNCHANGED <<up, down, remote>>

Receives(packets) == pc = "receiving" /\ down # <<>> /\ Head(down) \in packets

ReceivePong ==
  /\ Receives(Pongs)
  /\ Return(TRUE, TRUE, "ok")
  /\ UNCHANGED <<up, down, remote>>

\* Mutant: the node's PING is passed over like any other packet.
IgnorePing ==
  /\ Receives({"ping"})
  /\ down' = Tail(down)
  /\ UNCHANGED <<pc, up, remote, result>>

\* The node wants an endpoint proof: it is PONGed, and the error of a
\* send_to that fails is dropped.
ReceivePing ==
  /\ Receives({"ping"})
  /\ down' = Tail(down)
  /\ \/ up' = Append(up, "pong") /\ UNCHANGED remote
     \/ up' = up /\ remote' = [remote EXCEPT !.lost = TRUE]
  /\ UNCHANGED <<pc, result>>

\* Another sender's PING is PONGed there.
ReceiveForeignPing ==
  /\ Receives({"foreign_ping"})
  /\ down' = Tail(down)
  /\ UNCHANGED <<pc, up, remote, result>>

\* Shorter than a header, or of another type: ignored.
ReceiveOther ==
  /\ Receives({"short", "other"})
  /\ down' = Tail(down)
  /\ UNCHANGED <<pc, up, remote, result>>

ReceiveFails ==
  /\ Receives({"recv_error"})
  /\ Return(FALSE, TRUE, "network")
  /\ UNCHANGED <<up, down, remote>>

Timeout ==
  /\ pc = "receiving"
  /\ down = <<>>
  /\ Return(FALSE, FALSE, "timeout")
  /\ UNCHANGED <<up, down, remote>>

Probe ==
  \/ Resolve \/ ResolveFails
  \/ BindFails \/ SendPing \/ SendFails
  \/ ReceivePong \/ ReceivePing \/ ReceiveForeignPing
  \/ ReceiveOther \/ ReceiveFails
  \/ Timeout

\* The node receives a datagram.  What it owes then: to a PING a PONG, but
\* a strict node owes a PING until it has heard a PONG.
NodeReceives ==
  /\ up # <<>>
  /\ up' = Tail(up)
  /\ LET heard == remote.heard \cup {Head(up)}
         owes == IF remote.strict /\ "pong" \notin heard THEN {"ping"} ELSE {"pong"}
     IN  remote' = [remote EXCEPT !.heard = heard, !.owes = @ \cup owes]
  /\ UNCHANGED <<pc, down, result>>

NodeSends(p) ==
  /\ p \in remote.owes
  /\ remote' = [remote EXCEPT !.owes = @ \ {p}]
  /\ down' = Append(down, p)
  /\ UNCHANGED <<pc, up, result>>

Lose ==
  /\ \/ /\ up # <<>>
        /\ up' = Tail(up)
        /\ remote' = [remote EXCEPT !.lost = TRUE]
     \/ /\ up' = up
        /\ \E p \in remote.owes :
             remote' = [remote EXCEPT !.owes = @ \ {p}, !.lost = TRUE]
  /\ UNCHANGED <<pc, down, result>>

\* Another datagram arrives, or the system reports an error.
Stray ==
  /\ remote.sent < MaxSaid
  /\ pc = "receiving"
  /\ remote' = [remote EXCEPT !.sent = @ + 1]
  /\ \E p \in Strays : down' = Append(down, p)
  /\ UNCHANGED <<pc, up, result>>

Network ==
  /\ pc # "done"
  /\ NodeReceives \/ (\E p \in remote.owes : NodeSends(p)) \/ Lose \/ Stray

Next == Probe \/ Network

\* No PONG is missed: with one waiting to be read, whatever else arrives
\* before it, the attempt ends well unless the socket breaks.
PongPasses(next) ==
  pc = "receiving" /\ Delivered \cap Pongs # {} /\ "recv_error" \notin Delivered
    /\ pc' = "done" => next.ok

\* The probe and the node never wait for each other: as long as nothing is
\* lost, a probe that has nothing to read has a datagram on the way to the
\* node, or the node one to send.
NoStandoff ==
  pc = "receiving" /\ down = <<>> /\ ~remote.lost =>
    up # <<>> \/ remote.owes # {}

=============================================================================
