---------------------------- MODULE ConnectProbe ----------------------------
(***************************************************************************)
(* The probes that await a chain of library calls under one timeout and    *)
(* pass when all succeed: dns_resolve, tcp_connect (also p2p_tcp_connect   *)
(* and beacon_tcp_connect), tls_handshake and discv5_ping.                 *)
(***************************************************************************)
EXTENDS Attempt

CONSTANTS
  Calls,         \* the number of calls awaited
  Prepares,      \* something can fail before the timeout starts
  FailureWord,   \* category of a failed call
  TimeoutWord    \* category of a timeout

\* remote.done: calls that have succeeded.
Init ==
  /\ pc = IF Prepares THEN "preparing" ELSE "awaiting"
  /\ up = <<>>
  /\ down = <<>>
  /\ remote = [done |-> 0]
  /\ result = NoResult

Prepare ==
  /\ pc = "preparing"
  /\ pc' = "awaiting"
  /\ UNCHANGED <<up, down, remote, result>>

PrepareFails ==
  /\ pc = "preparing"
  /\ Return(FALSE, FALSE, "none")
  /\ UNCHANGED <<up, down, remote>>

Succeed ==
  /\ pc = "awaiting"
  /\ remote' = [remote EXCEPT !.done = @ + 1]
  /\ IF remote'.done = Calls THEN Return(TRUE, TRUE, "none") ELSE UNCHANGED <<pc, result>>
  /\ UNCHANGED <<up, down>>

\* The awaited call fails; no address at all is a failed lookup too.
Fail ==
  /\ pc = "awaiting"
  /\ Return(FALSE, TRUE, FailureWord)
  /\ UNCHANGED <<up, down, remote>>

Timeout ==
  /\ pc = "awaiting"
  /\ Return(FALSE, FALSE, TimeoutWord)
  /\ UNCHANGED <<up, down, remote>>

Probe == Prepare \/ PrepareFails \/ Succeed \/ Fail \/ Timeout

=============================================================================
