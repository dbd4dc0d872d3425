--------------------------- MODULE MCProxySession ---------------------------
(* Two ids, used twice, in two sessions.                            *)
EXTENDS ProxySession

CONSTANTS i1, i2
=============================================================================
