------------------------- MODULE MCBinaryTransport -------------------------
(* Two servers, two calls, and a pool of two connections, or one.          *)
EXTENDS BinaryTransport

MCHosts == <<"s1", "s2">>
=============================================================================
