--------------------------- MODULE MCWakeProtocol ---------------------------
(* Small instances of WakeProtocol for TLC: the configurations give it two  *)
(* calling threads, so that one can be overtaken between its two steps.     *)
EXTENDS WakeProtocol
=============================================================================
