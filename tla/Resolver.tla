------------------------------ MODULE Resolver ------------------------------
(***************************************************************************)
(* The name resolver of the transport module: a fixed pool of threads runs *)
(* blocking lookups for coroutines of an event loop.                       *)
(*                                                                         *)
(* A query is a coroutine on the loop thread.  It queues a Job and sleeps  *)
(* on the loop for ever, with the job's completion token as its stop       *)
(* token: a worker, the user's stop callback and the destructor all wake   *)
(* it by asking that token to stop, and the loop wakes it for its deadline *)
(* or its own shutdown.  What it returns is decided when it runs again.    *)
(* The state's mutex makes one action of what is done under it; the job's  *)
(* mutex is explicit, because a query holds it while it leaves.            *)
(***************************************************************************)
EXTENDS Naturals, Sequences, FiniteSets, Functions

CONSTANTS
  Queries, Workers,
  Stoppable, Timed,   \* queries whose options carry a stop token, a deadline
  Capacity,     \* ResolverOptions::queue_capacity
  MaxResults,   \* ResolverOptions::max_results
  Endpoints,
  Idle          \* no query

ASSUME OptionsAssumption == Capacity \in Nat \ {0} /\ MaxResults \in Nat \ {0} /\ Idle \notin Queries
ASSUME FiniteAssumption == IsFiniteSet(Workers) /\ IsFiniteSet(Endpoints)

VARIABLES
  closing,     \* State::closing
  queue,       \* State::queue
  active,      \* State::active
  result,      \* Job::result
  cancelled,   \* Job::user_cancelled
  abandoned,   \* Job::abandoned
  shutdown,    \* Job::shutdown
  completion,  \* jobs whose completion source has been asked to stop
  phase,       \* each query: "new" | "checked" | "waiting" | "woken" | "deciding" | "leaving" | "done"
  verdict,     \* what sleep_until returned: "none" | "cancelled" | "timed_out"
  answer,      \* what resolve returned
  asked,       \* queries whose caller's stop token has been stopped
  callback,    \* the stop callback of a query: "off" | "armed" | "begun" | "flagged" | "ran"
  late,        \* queries whose deadline has passed
  loopClosed,  \* the event loop is shutting down
  worker       \* each thread: at = "wait" | "check" | "lookup" | "append" | "publish" | "signal" |
               \* "erase" | "exited", its job, and the result it has so far

shared == <<closing, queue, active>>
jobs == <<result, cancelled, abandoned, shutdown, completion>>
clients == <<phase, verdict, answer>>
world == <<asked, callback, late, loopClosed>>
vars == <<shared, jobs, clients, world, worker>>

None == <<"none">>
Failed(e) == <<"error", e>>
Found(s) == <<"ok", s>>
Errors == {"cancelled", "timed_out", "limit_exceeded", "noname", "io_error"}

Init ==
  /\ closing = FALSE /\ queue = <<>> /\ active = {}
  /\ result = [q \in Queries |-> None]
  /\ cancelled = {} /\ abandoned = {} /\ shutdown = {} /\ completion = {}
  /\ phase = [q \in Queries |-> "new"] /\ verdict = [q \in Queries |-> "none"]
  /\ answer = [q \in Queries |-> None]
  /\ asked = {} /\ callback = [q \in Queries |-> "off"] /\ late = {} /\ loopClosed = FALSE
  /\ worker = [w \in Workers |-> [at |-> "wait", job |-> Idle, found |-> None]]

\* A query holds its job's mutex from the moment it decides until it leaves.
Unlocked(q) == phase[q] # "deciding"

-----------------------------------------------------------------------------
(* Results.                                                                *)

\* append_endpoint: a known endpoint is dropped, one too many is an error.
AppendEndpoint(out, e) ==
  IF out[1] # "ok" THEN out
  ELSE IF \E k \in 1 .. Len(out[2]) : out[2][k] = e THEN out
  ELSE IF Len(out[2]) = MaxResults THEN Failed("limit_exceeded")
  ELSE Found(Append(out[2], e))

-----------------------------------------------------------------------------
(* The query, on the loop thread.                                          *)

Answer(q, a) ==
  /\ answer' = [answer EXCEPT ![q] = a]
  /\ phase' = [phase EXCEPT ![q] = "done"]
  /\ UNCHANGED verdict

\* resolve's checks before it makes a job: stop comes before the deadline.
Check(q) ==
  /\ phase[q] = "new"
  /\ IF q \in asked THEN Answer(q, Failed("cancelled"))
     ELSE IF q \in late THEN Answer(q, Failed("timed_out"))
     ELSE phase' = [phase EXCEPT ![q] = "checked"] /\ UNCHANGED <<verdict, answer>>
  /\ UNCHANGED <<shared, jobs, world, worker>>

\* Jobs that no longer count against the capacity.
Dead(q) == q \in abandoned \cup cancelled

\* erase_if: what is left of the queue without them, in its order.
Pruned ==
  {s \in UNION {[1 .. n -> Range(queue)] : n \in 0 .. Len(queue)} :
    \E from \in [DOMAIN s -> DOMAIN queue] :
      /\ \A j, k \in DOMAIN s : j < k => from[j] < from[k]
      /\ \A k \in DOMAIN s : s[k] = queue[from[k]]
      /\ Range(from) = {k \in DOMAIN queue : ~Dead(queue[k])}}

\* Slip: closing is not looked at again under the lock.
Refuses_NotClosing == FALSE
Refuses == closing

\* The stop callback is registered (and runs at once if the stop has come
\* meanwhile), the queue is pruned and the job queued, or the query refused;
\* leaving takes the callback off again.
Enqueue(q) ==
  /\ phase[q] = "checked" /\ \A p \in Queries : Unlocked(p)
  /\ IF Refuses
     THEN Answer(q, Failed("cancelled")) /\ UNCHANGED <<shared, jobs, world>>
     ELSE /\ cancelled' = cancelled \cup ({q} \cap asked)
          /\ completion' = completion \cup ({q} \cap asked)
          /\ \E kept \in Pruned :
               IF Len(kept) >= Capacity
               THEN /\ queue' = kept
                    /\ Answer(q, Failed("limit_exceeded")) /\ UNCHANGED callback
               ELSE /\ queue' = Append(kept, q)
                    /\ phase' = [phase EXCEPT ![q] = "waiting"] /\ UNCHANGED <<verdict, answer>>
                    /\ callback' = [callback EXCEPT ![q] = IF q \in asked THEN "ran" ELSE "armed"]
          /\ UNCHANGED <<closing, active, result, abandoned, shutdown, asked, late, loopClosed>>
  /\ UNCHANGED worker

\* The loop ends the sleep: the token was stopped, the deadline passed or the
\* loop shuts down.
Wake(q) ==
  /\ phase[q] = "waiting"
  /\ \E v \in {"cancelled", "timed_out"} :
       /\ v = "cancelled" => q \in completion \/ loopClosed
       /\ v = "timed_out" => q \in late
       /\ verdict' = [verdict EXCEPT ![q] = v]
  /\ phase' = [phase EXCEPT ![q] = "woken"]
  /\ UNCHANGED <<shared, jobs, answer, world, worker>>

\* A published result, then the user's stop, then the deadline, then a shutdown.
Decision(q) ==
  IF result[q] # None THEN result[q]
  ELSE IF q \in cancelled THEN Failed("cancelled")
  ELSE IF verdict[q] = "timed_out" THEN Failed("timed_out")
  ELSE Failed("cancelled")

\* The query runs again: it takes the job's mutex, abandons the job and decides.
Decide(q) ==
  /\ phase[q] = "woken"
  /\ abandoned' = abandoned \cup {q}
  /\ answer' = [answer EXCEPT ![q] = Decision(q)]
  /\ phase' = [phase EXCEPT ![q] = "deciding"]
  /\ UNCHANGED <<shared, result, cancelled, shutdown, completion, verdict, world, worker>>

\* Slip: the callback is declared after the lock, so it has to end first.
Unlock_AfterCallback(q) ==
  /\ phase[q] = "deciding" /\ callback[q] \in {"armed", "ran"}
  /\ phase' = [phase EXCEPT ![q] = "leaving"]
  /\ UNCHANGED <<shared, jobs, verdict, answer, world, worker>>

\* The lock, declared last, is released first.
Unlock(q) ==
  /\ phase[q] = "deciding"
  /\ phase' = [phase EXCEPT ![q] = "leaving"]
  /\ UNCHANGED <<shared, jobs, verdict, answer, world, worker>>

\* ~stop_callback waits for a callback that is running in another thread.
Leave(q) ==
  /\ phase[q] = "leaving" /\ callback[q] \in {"armed", "ran"}
  /\ phase' = [phase EXCEPT ![q] = "done"]
  /\ UNCHANGED <<shared, jobs, verdict, answer, world, worker>>

-----------------------------------------------------------------------------
(* The caller's stop token, the clock and the loop.                        *)

RequestStop(q) ==
  /\ q \in Stoppable \ asked /\ phase[q] # "done"
  /\ asked' = asked \cup {q}
  /\ callback' = [callback EXCEPT ![q] = IF @ = "armed" THEN "begun" ELSE @]
  /\ UNCHANGED <<shared, jobs, clients, late, loopClosed, worker>>

\* The callback sets user_cancelled under the job's mutex ...
Flag(q) ==
  /\ callback[q] = "begun" /\ Unlocked(q)
  /\ cancelled' = cancelled \cup {q}
  /\ callback' = [callback EXCEPT ![q] = "flagged"]
  /\ UNCHANGED <<shared, result, abandoned, shutdown, completion, clients, asked, late, loopClosed, worker>>

\* ... and asks for completion after letting go of it.
Complete(q) ==
  /\ callback[q] = "flagged"
  /\ completion' = completion \cup {q}
  /\ callback' = [callback EXCEPT ![q] = "ran"]
  /\ UNCHANGED <<shared, result, cancelled, abandoned, shutdown, clients, asked, late, loopClosed, worker>>

Expire(q) ==
  /\ q \in Timed \ late /\ phase[q] # "done"
  /\ late' = late \cup {q}
  /\ UNCHANGED <<shared, jobs, clients, asked, callback, loopClosed, worker>>

LoopShutdown ==
  /\ ~loopClosed
  /\ loopClosed' = TRUE
  /\ UNCHANGED <<shared, jobs, clients, asked, callback, late, worker>>

-----------------------------------------------------------------------------
(* The worker threads.                                                     *)

With(w, at, q, r) == worker' = [worker EXCEPT ![w] = [at |-> at, job |-> q, found |-> r]]
At(w, at, q) == With(w, at, q, None)

Exits(w) == worker[w].at = "wait" /\ closing

Exit(w) ==
  /\ Exits(w)
  /\ At(w, "exited", Idle)
  /\ UNCHANGED <<shared, jobs, clients, world>>

\* The wait is over: the first job moves from the queue to the active ones.
Take(w) ==
  /\ worker[w].at = "wait" /\ ~closing /\ queue # <<>>
  /\ queue' = Tail(queue) /\ active' = active \cup {Head(queue)}
  /\ At(w, "check", Head(queue))
  /\ UNCHANGED <<closing, jobs, clients, world>>

\* Under the job's mutex: is anybody still interested?
Skip(w) ==
  LET q == worker[w].job
  IN  /\ worker[w].at = "check" /\ Unlocked(q)
      /\ At(w, IF Dead(q) \/ q \in shutdown THEN "signal" ELSE "lookup", q)
      /\ UNCHANGED <<shared, jobs, clients, world>>

\* The backend fails, or returns endpoints for work to go through.
Lookup(w) ==
  /\ worker[w].at = "lookup"
  /\ \/ With(w, "publish", worker[w].job, Failed("io_error"))
     \/ With(w, "append", worker[w].job, Found(<<>>))
  /\ UNCHANGED <<shared, jobs, clients, world>>

\* The next endpoint of the list, in any order and with repetitions; one too many ends the loop.
AppendNext(w) ==
  /\ worker[w].at = "append"
  /\ \E e \in Endpoints :
       LET r == AppendEndpoint(worker[w].found, e)
       IN  With(w, IF r[1] = "ok" THEN "append" ELSE "publish", worker[w].job, r)
  /\ UNCHANGED <<shared, jobs, clients, world>>

\* The end of the list, which must not be empty.
AppendsDone(w) ==
  /\ worker[w].at = "append"
  /\ With(w, "publish", worker[w].job,
          IF worker[w].found = Found(<<>>) THEN Failed("noname") ELSE worker[w].found)
  /\ UNCHANGED <<shared, jobs, clients, world>>

\* Slip: a result is published whoever has gone.
Wanted_Always(q) == TRUE
Wanted(q) == q \notin abandoned /\ q \notin shutdown

\* The result is published under the job's mutex.
Publish(w) ==
  LET q == worker[w].job
  IN  /\ worker[w].at = "publish" /\ Unlocked(q)
      /\ result' = IF Wanted(q) THEN [result EXCEPT ![q] = worker[w].found] ELSE result
      /\ At(w, "signal", q)
      /\ UNCHANGED <<shared, cancelled, abandoned, shutdown, completion, clients, world>>

Signal(w) ==
  /\ worker[w].at = "signal"
  /\ completion' = completion \cup {worker[w].job}
  /\ At(w, "erase", worker[w].job)
  /\ UNCHANGED <<shared, result, cancelled, abandoned, shutdown, clients, world>>

Erase(w) ==
  /\ worker[w].at = "erase"
  /\ active' = active \ {worker[w].job}
  /\ At(w, "wait", Idle)
  /\ UNCHANGED <<closing, queue, jobs, clients, world>>

Closed == Range(queue) \cup active

\* close up to the joins: every job known to the state is shut down and its
\* query woken.
Close ==
  /\ ~closing /\ \A q \in Queries : Unlocked(q)
  /\ closing' = TRUE /\ queue' = <<>>
  /\ shutdown' = shutdown \cup Closed
  /\ completion' = completion \cup Closed
  /\ UNCHANGED <<active, result, cancelled, abandoned, clients, world, worker>>

Joined == closing /\ \A w \in Workers : worker[w].at = "exited"

Query(q) == Check(q) \/ Enqueue(q) \/ Wake(q) \/ Decide(q) \/ Unlock(q) \/ Leave(q)
Thread(w) ==
  Exit(w) \/ Take(w) \/ Skip(w) \/ Lookup(w) \/ AppendNext(w) \/ AppendsDone(w) \/ Publish(w)
    \/ Signal(w) \/ Erase(w)

Next ==
  \/ \E q \in Queries : Query(q) \/ RequestStop(q) \/ Flag(q) \/ Complete(q) \/ Expire(q)
  \/ \E w \in Workers : Thread(w)
  \/ LoopShutdown \/ Close

Spec == Init /\ [][Next]_vars

\* Threads are scheduled, lookups return, the loop is pumped and stop callbacks
\* run to their end.  Nobody has to stop, expire or close.
FairSpec ==
  /\ Spec
  /\ \A q \in Queries : WF_vars(Query(q)) /\ WF_vars(Flag(q)) /\ WF_vars(Complete(q))
  /\ \A w \in Workers : WF_vars(Thread(w))

-----------------------------------------------------------------------------

Answers == {None} \cup ({"error"} \X Errors) \cup ({"ok"} \X Seq(Endpoints))

\* State, Job and the locals of resolve and work have their types; the queue
\* never exceeds its capacity and `active`, whose storage is reserved for one
\* job per thread, never needs more.
TypeOK ==
  /\ closing \in BOOLEAN /\ loopClosed \in BOOLEAN
  /\ queue \in Seq(Queries) /\ Len(queue) <= Capacity
  /\ active \subseteq Queries /\ Cardinality(active) <= Cardinality(Workers)
  /\ result \in [Queries -> Answers] /\ answer \in [Queries -> Answers]
  /\ cancelled \subseteq Queries /\ abandoned \subseteq Queries /\ shutdown \subseteq Queries
  /\ completion \subseteq Queries /\ asked \subseteq Queries /\ late \subseteq Queries
  /\ phase \in [Queries -> {"new", "checked", "waiting", "woken", "deciding", "leaving", "done"}]
  /\ verdict \in [Queries -> {"none", "cancelled", "timed_out"}]
  /\ callback \in [Queries -> {"off", "armed", "begun", "flagged", "ran"}]
  /\ worker \in [Workers ->
       [at : {"wait", "check", "lookup", "append", "publish", "signal", "erase", "exited"},
        job : Queries \cup {Idle}, found : Answers]]

\* A sleeping query always has somebody who will wake it: it has been woken, it
\* is queued for a thread that has not gone, a thread has it, or its stop
\* callback is running.  No order of enqueueing, pruning, taking, stopping and
\* closing leaves one out.
NobodyStranded ==
  /\ TypeOK
  /\ \A q \in Queries : phase[q] = "waiting" =>
       \/ q \in completion
       \/ q \in Range(queue) /\ ~closing
       \/ \E w \in Workers : worker[w].job = q /\ worker[w].at \in {"check", "lookup", "append", "publish", "signal"}
       \/ callback[q] \in {"begun", "flagged"}

\* A published result is the answer, even if the sleep
\* was cut short meanwhile, and nothing is published once the query has decided; cancelled needs
\* a stop or a closing resolver or loop, timed_out a deadline that passed; and what a lookup
\* publishes holds each endpoint once, at most max_results, which repetitions never exceed.
AnswersAccounted ==
  \A q \in Queries :
    /\ answer[q] # None /\ result[q] # None => answer[q] = result[q]
    /\ answer[q] = Failed("cancelled") => q \in asked \/ closing \/ loopClosed
    /\ answer[q] = Failed("timed_out") => q \in late
    /\ result[q][1] = "ok" => IsInjective(result[q][2]) /\ Len(result[q][2]) \in 1 .. MaxResults
    /\ result[q] = Failed("limit_exceeded") => Cardinality(Endpoints) > MaxResults

\* What a query returns is due to it: what AnswersAccounted says of results, cancellations and
\* timeouts; and it is turned away only when the queue is full of jobs somebody still waits
\* for, since cancelled jobs in the queue do not use up the share of later requests.
AnswersAreDue ==
  [][/\ AnswersAccounted'
     /\ \A q \in Queries : phase[q] = "checked" /\ answer'[q] = Failed("limit_exceeded")
          => Cardinality({p \in Range(queue) : ~Dead(p)}) >= Capacity]_vars

\* A query that waits is answered, whatever happens to the others, and the destructor returns:
\* once closing, every thread leaves its loop.
EverybodyReturns ==
  /\ \A q \in Queries : phase[q] = "waiting" ~> phase[q] = "done"
  /\ closing ~> Joined
=============================================================================
