---------------------------- MODULE MCTlsStream ----------------------------
(* TlsStream for TLC: two tasks on the client's stream, one on the server's. *)
EXTENDS TlsStream

CONSTANTS c1, c2, s1

TwoOnClient == [t \in {c1, c2, s1} |-> IF t = s1 THEN "server" ELSE "client"]
=============================================================================
