------------------------------ MODULE Attempt ------------------------------
(***************************************************************************)
(* What the socket probes of crates/prober_core/src/probes have in common: *)
(* one call of ProbeFn::run, the two directions of its socket, and a       *)
(* remote side that answers, hangs up, resets or falls silent when it      *)
(* likes.  The probe's protocol runs inside tokio::time::timeout, which    *)
(* polls the protocol first: what has arrived when the time is up counts.  *)
(***************************************************************************)
EXTENDS Naturals, Sequences, FiniteSets

CONSTANT MaxSaid        \* bound: messages of the remote side in one attempt

VARIABLES
  pc,        \* where run() stands
  up,        \* what run() sent and the remote has not received
  down,      \* what has arrived and run() has not read
  remote,    \* the remote side
  result     \* the AttemptResult

NoResult == [ok |-> FALSE, rtt |-> FALSE, meta |-> "none"]

\* run() returns: rtt says whether a time was measured, meta is the word of
\* the meta object that tells the cases apart.
Return(ok, rtt, meta) ==
  /\ pc' = "done"
  /\ result' = [ok |-> ok, rtt |-> rtt, meta |-> meta]

Delivered == {down[i] : i \in DOMAIN down}

-----------------------------------------------------------------------------
\* A TCP remote.  said is what it has sent, heard what it has received;
\* after "fin" or "rst" it sends no more, a "cut" path carries nothing.

TcpInit ==
  /\ up = <<>>
  /\ down = <<>>
  /\ remote = [heard |-> {}, said |-> <<>>, state |-> "listening"]
  /\ result = NoResult

\* TcpStream::connect succeeds.
Established == remote' = [remote EXCEPT !.state = "open"]

Arrive ==
  /\ up # <<>>
  /\ remote.state # "cut"
  /\ remote' = [remote EXCEPT !.heard = @ \cup {Head(up)}]
  /\ up' = Tail(up)
  /\ UNCHANGED <<pc, down, result>>

Say(m) ==
  /\ remote.state = "open"
  /\ Len(remote.said) < MaxSaid
  /\ remote' = [remote EXCEPT !.said = Append(@, m)]
  /\ down' = Append(down, m)
  /\ UNCHANGED <<pc, up, result>>

HangUp ==
  /\ remote.state = "open"
  /\ remote' = [remote EXCEPT !.state = "fin"]
  /\ down' = Append(down, "fin")
  /\ UNCHANGED <<pc, up, result>>

\* A reset overtakes what is not read yet, or does not, as the system has it.
Reset ==
  /\ remote.state \in {"open", "fin"}
  /\ remote' = [remote EXCEPT !.state = "rst"]
  /\ down' \in {<<"rst">>, Append(down, "rst")}
  /\ UNCHANGED <<pc, up, result>>

\* A filter on the path drops everything from now on.
Cut ==
  /\ remote.state \in {"open", "fin"}
  /\ remote' = [remote EXCEPT !.state = "cut"]
  /\ UNCHANGED <<pc, up, down, result>>

TcpRemote(Messages) ==
  /\ pc # "done"
  /\ Arrive \/ (\E m \in Messages : Say(m)) \/ HangUp \/ Reset \/ Cut

\* write_all succeeds unless a reset has come in.
Write(m) == "rst" \notin Delivered /\ up' = Append(up, m)
CannotWrite == "rst" \in Delivered

=============================================================================
