----------------------------- MODULE DnsCompare -----------------------------
(***************************************************************************)
(* The dns_compare probe: the system resolver first, then DNS over HTTPS,  *)
(* each with a timeout of its own, and a verdict on the pair of answers.   *)
(***************************************************************************)
EXTENDS Attempt

CONSTANT Addresses

\* What the two resolvers have for the name: addresses for the system
\* resolver; for DoH the Status and, by record type, the answers.
Init ==
  /\ pc = "asking_system"
  /\ up = <<>>
  /\ down = [system |-> {}, doh |-> {}]
  /\ remote \in [system : SUBSET Addresses, noerror : BOOLEAN,
                 a : SUBSET Addresses, cname : BOOLEAN]
  /\ result = NoResult

\* lookup_host ends in time; no address and an error are the same.
SystemAnswers ==
  /\ pc = "asking_system"
  /\ down' = [down EXCEPT !.system = remote.system]
  /\ pc' = "asking_DoH"
  /\ UNCHANGED <<up, remote, result>>

SystemTimesOut ==
  /\ pc = "asking_system"
  /\ pc' = "asking_DoH"
  /\ UNCHANGED <<up, down, remote, result>>

Word(system, doh) ==
  CASE system = {} /\ doh = {} -> "dns_failure"
    [] system = {} /\ doh # {} -> "dns_block"
    [] system # {} /\ doh # {} /\ system \cap doh = {} -> "ip_mismatch"    \* category ok
    [] OTHER -> "ok"

Judge(doh) ==
  /\ down' = [down EXCEPT !.doh = doh]
  /\ Return(down.system # {}, TRUE, Word(down.system, doh))

\* query_doh_cloudflare: the A records, if Status is NOERROR.
DohAnswers ==
  /\ pc = "asking_DoH"
  /\ Judge(IF remote.noerror THEN remote.a ELSE {})
  /\ UNCHANGED <<up, remote>>

\* No client, no answer in time, or no JSON.
DohFails ==
  /\ pc = "asking_DoH"
  /\ Judge({})
  /\ UNCHANGED <<up, remote>>

Probe == SystemAnswers \/ SystemTimesOut \/ DohAnswers \/ DohFails

\* A block is suspected only of a name that has an A record, and a system
\* resolver that answers with an address is never suspected, whatever
\* becomes of the second query.
BlockNeedsARecord ==
  /\ result.meta = "dns_block" => remote.noerror /\ remote.a # {}
  /\ pc = "done" /\ down.system # {} => result.ok
  /\ result.ok => remote.system # {}

=============================================================================
