--------------------------- MODULE MCProxyServer ----------------------------
(***************************************************************************)
(* A small instance of ProxyServer: an HTTP service with two ports and a   *)
(* TCP service that wants one of them.                                     *)
(***************************************************************************)
EXTENDS ProxyServer

CONSTANTS web, raw, p1, p2

MCPortsOf == [s \in Services |-> IF s = web THEN <<p1, p2>> ELSE <<p2>>]
MCProtocol == [s \in Services |-> IF s = web THEN "http" ELSE "tcp"]
=============================================================================
