----------------------------- MODULE MCMapView -----------------------------
(***************************************************************************)
(* MapView with one section of two kinds and one of a single kind.         *)
(***************************************************************************)
EXTENDS MapView

MCSections == {{"dns_resolve", "dns_compare"}, {"tls_handshake"}}

=============================================================================
