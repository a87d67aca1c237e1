---------------------------- MODULE WakeProtocol ----------------------------
(***************************************************************************)
(* How other threads get a loop that is blocked in the kernel to look at   *)
(* its queues: post(), request_cancel() and stop() queue their work, then  *)
(* wake(), which collapses bursts through wake_pending_ and signals through *)
(* a self-pipe (POSIX) or a packet on the completion port (Windows).       *)
(*                                                                         *)
(* The loop thread runs run(): decide the timeout, block, collect under    *)
(* the lock, on POSIX drain the pipe, and run what was collected.  An      *)
(* operation that never completes keeps run() going; no timer is pending,  *)
(* so that an empty queue means blocking without a limit.                  *)
(***************************************************************************)
EXTENDS Naturals, FiniteSets

CONSTANTS
  Callers,    \* threads that call post, request_cancel or stop
  Backends,   \* the builds: a subset of {"posix", "iocp"}
  MaxCalls    \* bound on the calls each of them makes

ASSUME CallsAssumption == MaxCalls \in Nat /\ IsFiniteSet(Callers)
ASSUME BackendsAssumption == Backends \subseteq {"posix", "iocp"}

VARIABLES
  backend,    \* the build in use
  queued,     \* posted_ and pending_cancels_: the number of entries
  stopped,    \* stop_requested_
  pending,    \* wake_pending_
  signals,    \* bytes in the pipe, or wake-up packets in the port
  calls,      \* [Callers -> Nat]: calls started
  caller,     \* [Callers -> {"idle", "queued", "signalling"}]
  loop,       \* "run", "timeout", "poll", "collect", "drain", "deliver" or "returned"
  immediate,  \* resolve_timeout_ms answered 0
  fired,      \* wakeup_fired
  taken       \* entries collected and not yet run

vars == <<backend, queued, stopped, pending, signals, calls, caller, loop, immediate, fired, taken>>
loopVars == <<backend, loop, immediate, fired, taken>>

Init ==
  /\ backend \in Backends
  /\ queued = 0 /\ stopped = FALSE /\ pending = FALSE /\ signals = 0
  /\ calls = [c \in Callers |-> 0]
  /\ caller = [c \in Callers |-> "idle"]
  /\ loop = "run" /\ immediate = FALSE /\ fired = FALSE /\ taken = 0

-----------------------------------------------------------------------------
(* Other threads.                                                           *)

Starts(c) ==
  /\ caller[c] = "idle" /\ calls[c] < MaxCalls
  /\ calls' = [calls EXCEPT ![c] = @ + 1]
  /\ caller' = [caller EXCEPT ![c] = "queued"]

\* post and request_cancel: the entry goes in under the lock.
Queue(c) ==
  /\ Starts(c)
  /\ queued' = queued + 1
  /\ UNCHANGED <<stopped, pending, signals, loopVars>>

Stop(c) ==
  /\ Starts(c)
  /\ stopped' = TRUE
  /\ UNCHANGED <<queued, pending, signals, loopVars>>

\* wake(): only the caller that finds the flag clear goes on to signal.
Exchange(c) ==
  /\ caller[c] = "queued"
  /\ pending' = TRUE
  /\ caller' = [caller EXCEPT ![c] = IF pending THEN "idle" ELSE "signalling"]
  /\ UNCHANGED <<queued, stopped, signals, calls, loopVars>>

Signal(c) ==
  /\ caller[c] = "signalling"
  /\ signals' = signals + 1
  /\ caller' = [caller EXCEPT ![c] = "idle"]
  /\ UNCHANGED <<queued, stopped, pending, calls, loopVars>>

-----------------------------------------------------------------------------
(* The loop thread.                                                         *)

\* Slip: run() goes on as long as there are operations.
RunCheck_NotAsked ==
  /\ loop = "run"
  /\ loop' = "timeout"
  /\ UNCHANGED <<backend, queued, stopped, pending, signals, calls, caller, immediate, fired, taken>>

\* run(): another round unless stopped.
RunCheck ==
  /\ loop = "run"
  /\ loop' = IF stopped THEN "returned" ELSE "timeout"
  /\ UNCHANGED <<backend, queued, stopped, pending, signals, calls, caller, immediate, fired, taken>>

\* run_once, first locked block.
DecideTimeout ==
  /\ loop = "timeout" /\ loop' = "poll"
  /\ immediate' = (queued > 0 \/ stopped)
  /\ UNCHANGED <<backend, queued, stopped, pending, signals, calls, caller, fired, taken>>

\* The wait ends at once, or when a signal is there.  Dequeuing a packet
\* consumes it; a readable pipe keeps its bytes.
Poll ==
  /\ loop = "poll" /\ (immediate \/ signals > 0)
  /\ loop' = "collect"
  /\ fired' = (signals > 0)
  /\ signals' = IF backend = "iocp" THEN 0 ELSE signals
  /\ UNCHANGED <<backend, queued, stopped, pending, calls, caller, immediate, taken>>

\* Slip: the flag is left set when the queues are taken.
Collect_KeepsFlag ==
  /\ loop = "collect"
  /\ loop' = IF backend = "posix" /\ fired THEN "drain" ELSE "deliver"
  /\ taken' = queued /\ queued' = 0
  /\ UNCHANGED <<backend, pending, stopped, signals, calls, caller, immediate, fired>>

\* run_once, second locked block: the queues are taken and the flag cleared.
Collect ==
  /\ loop = "collect"
  /\ loop' = IF backend = "posix" /\ fired THEN "drain" ELSE "deliver"
  /\ taken' = queued /\ queued' = 0
  /\ pending' = FALSE
  /\ UNCHANGED <<backend, stopped, signals, calls, caller, immediate, fired>>

\* drain_wakeup and arm_wakeup, after the lock is released.
Drain ==
  /\ loop = "drain" /\ loop' = "deliver"
  /\ signals' = 0
  /\ UNCHANGED <<backend, queued, stopped, pending, calls, caller, immediate, fired, taken>>

\* What was collected runs.  It may submit a timer, which wakes the loop too.
Deliver ==
  /\ loop = "deliver" /\ loop' = "run"
  /\ taken' = 0
  /\ \/ UNCHANGED <<pending, signals>>
     \/ ~pending /\ pending' = TRUE /\ signals' = signals + 1
  /\ UNCHANGED <<backend, queued, stopped, calls, caller, immediate, fired>>

Next ==
  \/ \E c \in Callers : Queue(c) \/ Stop(c) \/ Exchange(c) \/ Signal(c)
  \/ RunCheck \/ DecideTimeout \/ Poll \/ Collect \/ Drain \/ Deliver

Spec == Init /\ [][Next]_vars

\* Every thread keeps running; the loop's only wait is in Poll.
FairSpec ==
  /\ Spec
  /\ \A c \in Callers : WF_vars(Exchange(c)) /\ WF_vars(Signal(c))
  /\ WF_vars(RunCheck) /\ WF_vars(DecideTimeout) /\ WF_vars(Poll)
  /\ WF_vars(Collect) /\ WF_vars(Drain) /\ WF_vars(Deliver)

-----------------------------------------------------------------------------
(* Properties.                                                              *)

\* Queues and signals are counted, never owed, and each thread is at one place
\* of its code.
TypeOK ==
  /\ backend \in Backends
  /\ queued \in Nat /\ taken \in Nat /\ signals \in Nat
  /\ stopped \in BOOLEAN /\ pending \in BOOLEAN /\ immediate \in BOOLEAN /\ fired \in BOOLEAN
  /\ calls \in [Callers -> 0 .. MaxCalls]
  /\ caller \in [Callers -> {"idle", "queued", "signalling"}]
  /\ loop \in {"run", "timeout", "poll", "collect", "drain", "deliver", "returned"}

OverPort == backend = "iocp"

\* Over a completion port no wake-up is lost.  The flag that suppresses signals is backed by
\* a packet under way or by a loop that has yet to clear it; and while the loop waits without
\* a limit and no packet, whoever queued something is still on the way to wake it.  Over either
\* backend bursts collapse to a signal per calling thread and one for each of two clearings of
\* the flag, so that a write to the non-blocking pipe always has room.
NoWakeUpLost ==
  /\ TypeOK
  /\ signals <= Cardinality(Callers) + 2
  /\ OverPort /\ pending => \/ signals > 0 \/ loop = "collect"
                            \/ \E c \in Callers : caller[c] = "signalling"
  /\ (OverPort /\ loop = "poll" /\ ~immediate /\ signals = 0 /\ (queued > 0 \/ stopped))
       => \E c \in Callers : caller[c] # "idle"

\* Over a completion port work queued from another thread is taken by the loop, unless run()
\* is told to stop, and a stop() makes run() return.
RequestsAreNoticed ==
  /\ (OverPort /\ queued > 0) ~> (queued = 0 \/ loop = "returned")
  /\ (OverPort /\ stopped) ~> loop = "returned"

\* stop(), from any thread, makes run() return, whatever the backend.
StopReturns == stopped ~> loop = "returned"
=============================================================================
