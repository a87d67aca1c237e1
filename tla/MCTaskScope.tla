---------------------------- MODULE MCTaskScope ----------------------------
(* TaskScope for TLC. *)
EXTENDS TaskScope

CONSTANTS c1, c2, c3, o1

\* A scope that only its owner and its children spawn into, and one that somebody else does too.
ThreeOrTwo == { {Parent, c1, c2, c3}, {Parent, c1, c2, o1} }
=============================================================================
