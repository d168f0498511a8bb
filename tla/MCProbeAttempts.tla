-------------------------- MODULE MCProbeAttempts --------------------------
(***************************************************************************)
(* ProbeAttempts with remotes that send at most MaxSaid messages.          *)
(***************************************************************************)
EXTENDS ProbeAttempts
=============================================================================
