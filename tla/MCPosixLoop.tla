----------------------------- MODULE MCPosixLoop -----------------------------
(* Small instances of PosixLoop for TLC.                                    *)
EXTENDS PosixLoop, TLC

Wait(fd, d, datagram, stop, dl) ==
  [kind |-> "readiness", fd |-> fd, dir |-> d, datagram |-> datagram,
   stoppable |-> stop, wake |-> Never, deadline |-> dl]
Sleep(stop, at, dl) ==
  [kind |-> "timer", fd |-> NoFd, dir |-> "read", datagram |-> FALSE,
   stoppable |-> stop, wake |-> at, deadline |-> dl]

\* Both directions of every socket: a stop token and a deadline on one of them, or one on each.
DatagramWaits == {Wait(fd, "read", TRUE, TRUE, 1) : fd \in Fds}
                   \cup {Wait(fd, "write", TRUE, FALSE, Never) : fd \in Fds}
StreamWaits   == {Wait(fd, "read", FALSE, TRUE, Never) : fd \in Fds}
                   \cup {Wait(fd, "write", FALSE, FALSE, 1) : fd \in Fds}
PlainWaits    == {Wait(fd, d, FALSE, FALSE, Never) : fd \in Fds, d \in Dirs}

\* Sleeps whose deadline comes before, with and after their wake-up.
Sleepers == {Sleep(FALSE, 2, 1), Sleep(FALSE, 1, 1), Sleep(FALSE, 1, 2)}
NoSleeps == {}
FdSymmetry == Permutations(Fds)
=============================================================================
