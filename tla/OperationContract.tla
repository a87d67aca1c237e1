-------------------------- MODULE OperationContract --------------------------
(***************************************************************************)
(* What an EventLoop backend promises about one operation (the shared      *)
(* rules of event_loop.hpp): a submitted operation is pending until it is  *)
(* resolved once, and the answer is one the caller can account for.  A     *)
(* cancellation was asked for, a timeout follows a deadline that passed,   *)
(* and nothing changes after the answer.                                   *)
(*                                                                         *)
(* Both backends are shown to implement this module.                       *)
(***************************************************************************)
CONSTANT Ids            \* operation identities, never reused

VARIABLES
  phase,     \* [Ids -> Phases]: where each operation is
  asked,     \* the operations something asked to cancel: stop token, close, shutdown
  late       \* the operations whose deadline has passed

contractVars == <<phase, asked, late>>

Answers == {"ok", "timed_out", "cancelled", "error"}
Phases  == {"unused", "pending"} \cup Answers

ContractInit ==
  /\ phase = [i \in Ids |-> "unused"]
  /\ asked = {}
  /\ late = {}

\* The caller starts operation i.
Submit(i) ==
  /\ phase[i] = "unused"
  /\ phase' = [phase EXCEPT ![i] = "pending"]
  /\ UNCHANGED <<asked, late>>

\* The system refuses operation i at submission, and the caller is told at once.
Refuse(i) ==
  /\ phase[i] = "unused"
  /\ phase' = [phase EXCEPT ![i] = "error"]
  /\ UNCHANGED <<asked, late>>

\* Requests to cancel arrive and deadlines pass; neither is ever taken back.
Surroundings ==
  /\ asked \subseteq asked' /\ asked' \subseteq Ids
  /\ late \subseteq late' /\ late' \subseteq Ids
  /\ UNCHANGED phase

\* The loop answers operation i with a.
Resolve(i, a) ==
  /\ phase[i] = "pending"
  /\ a = "cancelled" => i \in asked
  /\ a = "timed_out" => i \in late
  /\ phase' = [phase EXCEPT ![i] = a]
  /\ UNCHANGED <<asked, late>>

ContractNext ==
  \/ \E i \in Ids : Submit(i) \/ Refuse(i)
  \/ Surroundings
  \/ \E i \in Ids, a \in Answers : Resolve(i, a)

ContractSpec == ContractInit /\ [][ContractNext]_contractVars
=============================================================================
