------------------------------ MODULE TaskScope ------------------------------
(***************************************************************************)
(* Mira::TaskScope: structured ownership of child coroutines on one        *)
(* thread.                                                                 *)
(*                                                                         *)
(* Everything happens on one native stack.  A native frame is a resume()   *)
(* call somebody made: by the loop, by a coroutine that opens a gate, by a *)
(* stop callback, or by Runner::start inside spawn.  A coroutine that      *)
(* suspends or finishes leaves its native frame without an occupant, and   *)
(* the call returns; the last child to finish hands its native frame to    *)
(* the joining parent instead (symmetric transfer).  The parent owns the   *)
(* scope and may destroy it as soon as join has returned, wherever on the  *)
(* stack that happens.                                                     *)
(***************************************************************************)
EXTENDS Naturals, Sequences, FiniteSets

CONSTANTS
  Children,   \* the tasks that may be spawned
  Parent,     \* the coroutine that owns the scope and joins it
  Outsiders,  \* coroutines that hold a reference to the scope and are not its children
  Casts,      \* which of them there may be
  Nobody      \* no occupant, no failure

ASSUME ActorsAssumption ==
  /\ IsFiniteSet(Children)
  /\ Parent \notin Children \cup Outsiders /\ Children \cap Outsiders = {}
  /\ Nobody \notin Children \cup Outsiders \cup {Parent}
  /\ \A cast \in Casts : Parent \in cast /\ cast \subseteq Children \cup Outsiders \cup {Parent}

Actors == Children \cup Outsiders \cup {Parent}

VARIABLES
  alive,     \* the TaskScope object exists
  pending,   \* pending_
  used,      \* used_
  join,      \* "open" | "requested" (joining_) | "waiting" (waiter_ is set) | "joined" (joined_)
  failure,   \* failure_: whose exception is kept
  stopped,   \* stop_source_ has been asked to stop
  retired,   \* retired_: runner frames handed over at their final suspension
  runner,    \* each child's Runner frame: "none" | "live" | "retired" | "freed"
  body,      \* each child's own Task frame: "none" | "started" | "freed"
  co,        \* each coroutine: "idle" | "running" | "suspended" | "catching" | "waiting" | "done"
  stack,     \* the native stack; of = the child whose Runner::start made the call, by = its spawner
  dangling   \* who used freed memory: a finishing child, the destructor's owner, a spawner

scope == <<alive, pending, used, join, failure, stopped, retired>>
vars == <<scope, runner, body, co, stack, dangling>>

NativeFrame == [of : Children \cup {Nobody}, by : Actors \cup {Nobody}, who : Actors \cup {Nobody}]

Top == stack[Len(stack)]
Running(x) == stack # <<>> /\ Top.who = x /\ co[x] = "running"
Call(of, by, x) == Append(stack, [of |-> of, by |-> by, who |-> x])
Using(freed, x) == dangling' = IF freed THEN dangling \cup {x} ELSE dangling
Handover(x) == [stack EXCEPT ![Len(stack)].who = x]

Init ==
  /\ alive = TRUE /\ pending = 0 /\ used = FALSE /\ join = "open"
  /\ failure = Nobody /\ stopped = FALSE /\ retired = {}
  /\ runner = [c \in Children |-> "none"] /\ body = [c \in Children |-> "none"]
  /\ \E cast \in Casts :
       co = [x \in Actors |-> IF x \notin cast THEN "done" ELSE IF x \in Children THEN "idle" ELSE "suspended"]
  /\ stack = <<>> /\ dangling = {}

-----------------------------------------------------------------------------
(* Coroutines at large.                                                    *)

\* Somebody resumes a suspended coroutine: the loop when nothing runs, or the
\* coroutine on top (by opening a gate, or through a stop callback).
Resume(x) ==
  /\ stack # <<>> => Top.who # Nobody
  /\ co[x] = "suspended"
  /\ co' = [co EXCEPT ![x] = "running"]
  /\ stack' = Call(Nobody, Nobody, x)
  /\ UNCHANGED <<scope, runner, body, dangling>>

\* A running coroutine waits for something of its own.
Suspend(x) ==
  /\ Running(x)
  /\ co' = [co EXCEPT ![x] = "suspended"]
  /\ stack' = Handover(Nobody)
  /\ UNCHANGED <<scope, runner, body, dangling>>

-----------------------------------------------------------------------------
(* Children.                                                               *)

\* spawn's early throw; the caller keeps the scope alive.
Admits == alive /\ join = "open"

\* The awaiter takes the child's Task frame over and starts it; it frees the
\* frame when the await expression ends, normally or by an exception.
StartBody(c) == body' = [body EXCEPT ![c] = "started"]
ReleaseBody(c) == body' = [body EXCEPT ![c] = "freed"]

\* spawn and Runner::start up to resume(): the child is counted before it runs.
Spawn(x, c) ==
  /\ Running(x) /\ Admits /\ co[c] = "idle"
  /\ pending' = pending + 1 /\ used' = TRUE
  /\ StartBody(c) /\ runner' = [runner EXCEPT ![c] = "live"]
  /\ co' = [co EXCEPT ![c] = "running"]
  /\ stack' = Call(c, x, c)
  /\ UNCHANGED <<alive, join, failure, stopped, retired, dangling>>

\* Slip: the count is tested before it is lowered.
ChildCompleted_TestsFirst(c) ==
  /\ pending' = pending - 1
  /\ IF pending = 0 /\ join = "waiting"
     THEN /\ join' = "joined" /\ stack' = Handover(Parent)
          /\ co' = [co EXCEPT ![c] = "done", ![Parent] = "running"]
     ELSE /\ stack' = Handover(Nobody) /\ co' = [co EXCEPT ![c] = "done"]
          /\ UNCHANGED join

\* child_completed: the last child hands its native frame to the waiting
\* parent, which comes back from JoinAwaiter and sets joined_.
ChildCompleted(c) ==
  /\ pending' = pending - 1
  /\ IF pending' = 0 /\ join = "waiting"
     THEN /\ join' = "joined" /\ stack' = Handover(Parent)
          /\ co' = [co EXCEPT ![c] = "done", ![Parent] = "running"]
     ELSE /\ stack' = Handover(Nobody) /\ co' = [co EXCEPT ![c] = "done"]
          /\ UNCHANGED join

\* Slip: the frame destroys itself at its final suspension.
FinalSuspend_DestroysItself(c) ==
  /\ Using(~alive, c)
  /\ runner' = [runner EXCEPT ![c] = "freed"] /\ UNCHANGED retired
  /\ ChildCompleted(c)
  /\ UNCHANGED <<alive, used>>

\* FinalAwaiter: the runner's frame goes to retired_ and stays until a safe point.
FinalSuspend(c) ==
  /\ Using(~alive, c)
  /\ runner' = [runner EXCEPT ![c] = "retired"] /\ retired' = retired \cup {c}
  /\ ChildCompleted(c)
  /\ UNCHANGED <<alive, used>>

\* run_child when the body returns, or throws after another child has.
Complete(c) ==
  /\ Running(c) /\ body[c] = "started"
  /\ ReleaseBody(c) /\ FinalSuspend(c)
  /\ UNCHANGED <<failure, stopped>>

\* run_child's handler for the first exception, until request_stop returns: the
\* stop callbacks run inside it and may resume other coroutines.
Throw(c) ==
  /\ Running(c) /\ body[c] = "started" /\ failure = Nobody
  /\ ReleaseBody(c)
  /\ failure' = c /\ stopped' = TRUE
  /\ co' = [co EXCEPT ![c] = "catching"]
  /\ UNCHANGED <<alive, pending, used, join, retired, runner, stack, dangling>>

\* The handler is left and the runner reaches its final suspension.
Caught(c) ==
  /\ stack # <<>> /\ Top.who = c /\ co[c] = "catching"
  /\ FinalSuspend(c)
  /\ UNCHANGED <<failure, stopped, body>>

\* reclaim: a child that finished inside its own start is freed there.
Reclaim(c) ==
  /\ retired' = retired \ {c} /\ runner' = [runner EXCEPT ![c] = "freed"]

Stale(c) == runner[c] = "freed" \/ (runner[c] = "retired" /\ ~alive)

\* A native call whose occupant has left returns.  Runner::start then looks at
\* the frame it resumed, and at the scope if that frame has retired.
Return ==
  /\ stack # <<>> /\ Top.who = Nobody
  /\ stack' = SubSeq(stack, 1, Len(stack) - 1)
  /\ IF Top.of \in Children /\ runner[Top.of] = "retired"
     THEN Reclaim(Top.of)
     ELSE UNCHANGED <<retired, runner>>
  /\ Using(Top.of \in Children /\ Stale(Top.of), Top.by)
  /\ UNCHANGED <<alive, pending, used, join, failure, stopped, body, co>>

-----------------------------------------------------------------------------
(* The owner.                                                              *)

\* request_stop; its callbacks are resumptions made by the caller.
RequestStop(x) ==
  /\ Running(x) /\ alive /\ ~stopped
  /\ stopped' = TRUE
  /\ UNCHANGED <<alive, pending, used, join, failure, retired, runner, body, co, stack, dangling>>

\* join closes the scope at once; its Task is awaited later.
Join ==
  /\ Running(Parent) /\ alive /\ join = "open"
  /\ join' = "requested"
  /\ UNCHANGED <<alive, pending, used, failure, stopped, retired, runner, body, co, stack, dangling>>

\* Slip: JoinAwaiter suspends without looking at pending_.
AwaitJoin_AlwaysWaits ==
  /\ Running(Parent) /\ join = "requested"
  /\ join' = "waiting"
  /\ co' = [co EXCEPT ![Parent] = "waiting"] /\ stack' = Handover(Nobody)
  /\ UNCHANGED <<alive, pending, used, failure, stopped, retired, runner, body, dangling>>

\* wait_for_children up to its suspension, or through it when nothing is pending.
AwaitJoin ==
  /\ Running(Parent) /\ join = "requested"
  /\ IF pending = 0
     THEN join' = "joined" /\ UNCHANGED <<co, stack>>
     ELSE /\ join' = "waiting"
          /\ co' = [co EXCEPT ![Parent] = "waiting"] /\ stack' = Handover(Nobody)
  /\ UNCHANGED <<alive, pending, used, failure, stopped, retired, runner, body, dangling>>

\* ~TaskScope where it does not terminate: joined, or never used.
Destroy ==
  /\ Running(Parent) /\ alive
  /\ join = "joined" \/ (join = "open" /\ ~used)
  /\ alive' = FALSE
  /\ runner' = [c \in Children |-> IF c \in retired THEN "freed" ELSE runner[c]]
  /\ retired' = {}
  /\ Using(\E c \in retired : runner[c] = "freed", Parent)
  /\ UNCHANGED <<pending, used, join, failure, stopped, body, co, stack>>

Next ==
  \/ \E x \in Actors : Resume(x) \/ Suspend(x) \/ RequestStop(x)
  \/ \E x \in Actors, c \in Children : Spawn(x, c)
  \/ \E c \in Children : Complete(c) \/ Throw(c) \/ Caught(c)
  \/ Return \/ Join \/ AwaitJoin \/ Destroy

Spec == Init /\ [][Next]_vars

\* Join waits for the children, so it is promised only if they end: a suspended
\* child is resumed, a running one gets to return, and calls return.  An
\* outsider does not keep the thread for ever.
FairSpec ==
  /\ Spec /\ WF_vars(Return)
  /\ \A c \in Children : SF_vars(stack = <<>> /\ Resume(c)) /\ SF_vars(Complete(c)) /\ SF_vars(Caught(c))
  /\ \A x \in Outsiders \cup {Parent} : SF_vars(Suspend(x))

-----------------------------------------------------------------------------

\* The fields of the scope and the frames it knows have their types, and the
\* native stack is made of calls.
TypeOK ==
  /\ alive \in BOOLEAN /\ used \in BOOLEAN /\ stopped \in BOOLEAN /\ dangling \subseteq Actors
  /\ pending \in 0 .. Cardinality(Children)
  /\ join \in {"open", "requested", "waiting", "joined"}
  /\ failure \in Children \cup {Nobody} /\ retired \subseteq Children
  /\ runner \in [Children -> {"none", "live", "retired", "freed"}]
  /\ body \in [Children -> {"none", "started", "freed"}]
  /\ co \in [Actors -> {"idle", "running", "suspended", "catching", "waiting", "done"}]
  /\ stack \in Seq(NativeFrame)

\* pending_ is the number of runners that have not reached their final
\* suspension, and a parent that waits always waits for one of them: no order of
\* synchronous completions, nested spawns and stop callbacks loses its wake-up, or wakes
\* it before every child has ended and its own frame is gone.
WaitIsForSomebody ==
  /\ TypeOK
  /\ pending = Cardinality({c \in Children : runner[c] = "live"})
  /\ join = "waiting" <=> co[Parent] = "waiting"
  /\ join = "waiting" => pending > 0
  /\ join = "joined" => \A c \in Children : body[c] # "started" /\ runner[c] # "live"

\* Nothing the scope does after resuming somebody touches a scope or a runner frame that has
\* been destroyed meanwhile, as long as its owner and its children are the ones to spawn: only
\* the start() of a child spawned by somebody else can come back to find them gone.
NothingDangles == dangling \subseteq Outsiders

\* A parent that waits for children that all end is resumed.
JoinReturns == join = "waiting" ~> join = "joined"
=============================================================================
