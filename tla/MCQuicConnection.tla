-------------------------- MODULE MCQuicConnection --------------------------
(* Small instances of QuicConnection for TLC.                               *)
EXTENDS QuicConnection

HeadAndBody == <<"f", "e", "b">>

\* Own and peer's streams of a QUIC client; the requests of HTTP/3.
OfLayer == [l \in {"quic", "http3"} |-> IF l = "quic" THEN {0, 1, 4} ELSE {0, 4}]

\* One of them has an idle timer, and all have that of the handshake.
ThreeKinds == { [layer |-> "http3", server |-> TRUE, idle |-> Never], [layer |-> "http3", server |-> FALSE, idle |-> 1],
                [layer |-> "quic", server |-> FALSE, idle |-> Never] }

Lengths == [i \in {0, 1, 4} |-> IF i = 0 THEN 2 ELSE 1]

\* With a deadline, and some without.
SomeCalls == [op : {"connect", "pump", "read", "body"}, deadline : {1}] \cup [op : {"connect", "head"}, deadline : {Never}]
SomeWrites == {[id |-> 0, n |-> 0, fin |-> TRUE], [id |-> 1, n |-> 2, fin |-> TRUE]}
=============================================================================
