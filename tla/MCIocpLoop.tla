------------------------------ MODULE MCIocpLoop ------------------------------
(* Small instances of IocpLoop for TLC.                                     *)
EXTENDS IocpLoop, TLC

Io(kind, h, stop, dl) ==
  [kind |-> kind, handle |-> h, stoppable |-> stop, wake |-> Never, deadline |-> dl]
Sleep(stop, at, dl) ==
  [kind |-> "timer", handle |-> NoHandle, stoppable |-> stop, wake |-> at, deadline |-> dl]

\* An accept that can be stopped and has a deadline, alone or beside a sleep.
Accepts == {Io("accept", h, TRUE, 1) : h \in Handles}
OneSleep == {Sleep(TRUE, 1, Never)}
NameSymmetry == Permutations(Handles) \cup Permutations(Addrs)
=============================================================================
