---------------------------- MODULE ResolverProofs ----------------------------
(***************************************************************************)
(* Proofs about Resolver, for any queries, threads, endpoints and limits.  *)
(***************************************************************************)
EXTENDS Resolver, FiniteSetTheorems, TLAPS

Busy == {"check", "lookup", "append", "publish", "signal", "erase"}

\* A job is in the queue or with one thread, once, and active is what the threads have.
Owned ==
  /\ \A w \in Workers : worker[w].job \in Queries <=> worker[w].at \in Busy
  /\ \A v, w \in Workers : worker[v].job = worker[w].job /\ worker[w].at \in Busy => v = w
  /\ active = {worker[w].job : w \in {v \in Workers : worker[v].at \in Busy}}
Lined ==
  /\ \A j, k \in DOMAIN queue : queue[j] = queue[k] => j = k
  /\ \A k \in DOMAIN queue : queue[k] \notin active
  /\ closing => queue = <<>>
JobsSound == Owned /\ Lined

\* What a query has got to: its callback is on from the moment its job is queued, the job is
\* abandoned when it decides, and it has an answer from then on.
Queued(q) == \E k \in DOMAIN queue : queue[k] = q
Phased(q) ==
  /\ phase[q] \in {"new", "checked"} => callback[q] = "off"
  /\ phase[q] \in {"waiting", "woken", "deciding", "leaving"} => callback[q] # "off"
  /\ q \in active \/ Queued(q) => callback[q] # "off"
  /\ callback[q] = "off" => result[q] = None
  /\ phase[q] \in {"new", "checked", "waiting", "woken"} => answer[q] = None /\ q \notin abandoned
  /\ answer[q] # None => callback[q] = "off" \/ q \in abandoned
PhasesSound == \A q \in Queries : Phased(q)

\* Why a completion was asked for and why a sleep ended.
Reason(q) == q \in asked \/ closing \/ result[q] # None
Caused(q) ==
  /\ q \in shutdown => closing
  /\ q \in cancelled => q \in asked /\ (q \in completion \/ callback[q] = "flagged")
  /\ callback[q] \in {"begun", "flagged"} => q \in asked
  /\ q \in completion => Reason(q) \/ q \in abandoned
  /\ verdict[q] = "cancelled" => Reason(q) \/ loopClosed
  /\ verdict[q] = "timed_out" => q \in late
  /\ phase[q] = "woken" => verdict[q] # "none"
Prompted(w) ==
  /\ worker[w].at = "signal" => Reason(worker[w].job) \/ worker[w].job \in abandoned
  /\ worker[w].at = "erase" => worker[w].job \in completion
CausesSound == (\A q \in Queries : Caused(q)) /\ \A w \in Workers : Prompted(w)

\* What work has collected, and what it publishes.
Sized(r) == r[1] = "ok" => IsInjective(r[2]) /\ Len(r[2]) <= MaxResults
Due(r) ==
  /\ r # Failed("cancelled") /\ r # Failed("timed_out")
  /\ r = Failed("limit_exceeded") => Cardinality(Endpoints) > MaxResults
  /\ r[1] = "ok" => Len(r[2]) > 0
Collected(w) ==
  /\ Sized(worker[w].found)
  /\ worker[w].at = "append" => worker[w].found[1] = "ok"
  /\ worker[w].at = "publish" => worker[w].found # None /\ Due(worker[w].found)
ResultsSound == (\A w \in Workers : Collected(w)) /\ \A q \in Queries : Sized(result[q]) /\ Due(result[q])

\* The inductive invariant.
ResolverInv ==
  /\ NobodyStranded /\ JobsSound /\ PhasesSound /\ CausesSound /\ ResultsSound /\ AnswersAccounted

-----------------------------------------------------------------------------
(* Pruning the queue.                                                      *)

\* Pruning keeps jobs of the queue, each once, and drops dead ones only.
LEMMA PrunedFacts ==
  ASSUME TypeOK, JobsSound, NEW kept \in Pruned
  PROVE  /\ kept \in Seq(Queries) /\ DOMAIN kept = 1 .. Len(kept) /\ Len(kept) \in Nat
         /\ Len(kept) <= Len(queue)
         /\ \A j, k \in DOMAIN kept : kept[j] = kept[k] => j = k
         /\ \A k \in DOMAIN kept : \E j \in DOMAIN queue : kept[k] = queue[j] /\ ~Dead(queue[j])
         /\ \A j \in DOMAIN queue : ~Dead(queue[j]) => \E k \in DOMAIN kept : kept[k] = queue[j]
<1>1. queue \in Seq(Queries) /\ Len(queue) \in Nat /\ DOMAIN queue = 1 .. Len(queue)
  BY DEF TypeOK
<1>2. PICK n \in 0 .. Len(queue) : kept \in [1 .. n -> Range(queue)]
  BY Zenon DEF Pruned
<1>3. Range(queue) \subseteq Queries
  BY <1>1 DEF Range
<1>4. n \in Nat /\ kept \in [1 .. n -> Queries]
  BY <1>1, <1>2, <1>3
<1>5. kept \in Seq(Queries) /\ Len(kept) = n /\ DOMAIN kept = 1 .. n
  BY <1>4
<1>6. PICK from \in [DOMAIN kept -> DOMAIN queue] :
        /\ \A j, k \in DOMAIN kept : j < k => from[j] < from[k]
        /\ \A k \in DOMAIN kept : kept[k] = queue[from[k]]
        /\ Range(from) = {k \in DOMAIN queue : ~Dead(queue[k])}
  BY Zenon DEF Pruned
<1>7. \A k \in DOMAIN kept : from[k] \in DOMAIN queue /\ from[k] \in Range(from)
  BY <1>6, Zenon DEF Range
<1>8. \A m \in Range(from) : \E k \in DOMAIN kept : from[k] = m
  BY <1>6, Zenon DEF Range
<1>9. ASSUME NEW j \in DOMAIN kept, NEW k \in DOMAIN kept, kept[j] = kept[k] PROVE j = k
  <2>1. from[j] \in DOMAIN queue /\ from[k] \in DOMAIN queue /\ queue[from[j]] = queue[from[k]]
    BY <1>6, <1>7, <1>9
  <2>2. from[j] = from[k]
    BY <2>1, Zenon DEF JobsSound, Lined
  <2>3. j \in Nat /\ k \in Nat /\ from[j] \in Nat /\ from[k] \in Nat
    BY <1>1, <1>5, <1>7
  <2> QED  BY <1>6, <2>2, <2>3
<1>10. \A k \in DOMAIN kept : \E j \in DOMAIN queue : kept[k] = queue[j] /\ ~Dead(queue[j])
  BY <1>6, <1>7, Zenon
<1>11. \A j \in DOMAIN queue : ~Dead(queue[j]) => \E k \in DOMAIN kept : kept[k] = queue[j]
  <2> SUFFICES ASSUME NEW j \in DOMAIN queue, ~Dead(queue[j]) PROVE \E k \in DOMAIN kept : kept[k] = queue[j]
    BY Zenon
  <2>1. j \in Range(from)
    BY <1>6, Zenon
  <2>2. PICK k \in DOMAIN kept : from[k] = j
    BY <1>8, <2>1, Zenon
  <2>3. kept[k] = queue[from[k]]
    BY <1>6, Zenon
  <2> QED  BY <2>2, <2>3, Zenon
<1> QED  BY <1>1, <1>5, <1>9, <1>10, <1>11

\* What Tail leaves of the queue.
LEMMA TailFacts ==
  ASSUME NEW s \in Seq(Queries), s # <<>>
  PROVE  /\ Tail(s) \in Seq(Queries) /\ Len(Tail(s)) = Len(s) - 1 /\ Len(s) \in Nat \ {0}
         /\ DOMAIN s = 1 .. Len(s) /\ DOMAIN Tail(s) = 1 .. Len(s) - 1
         /\ Head(s) = s[1] /\ Head(s) \in Queries
         /\ \A k \in DOMAIN Tail(s) : k + 1 \in DOMAIN s /\ Tail(s)[k] = s[k + 1]
         /\ \A k \in DOMAIN s : k = 1 \/ (k - 1 \in DOMAIN Tail(s) /\ Tail(s)[k - 1] = s[k])
OBVIOUS

\* What Append adds to it.
LEMMA AppendFacts ==
  ASSUME NEW T, NEW s \in Seq(T), NEW q \in T
  PROVE  /\ Append(s, q) \in Seq(T) /\ Len(Append(s, q)) = Len(s) + 1 /\ Len(s) \in Nat
         /\ DOMAIN s = 1 .. Len(s) /\ DOMAIN Append(s, q) = 1 .. Len(s) + 1
         /\ Append(s, q)[Len(s) + 1] = q
         /\ \A k \in DOMAIN s : k \in DOMAIN Append(s, q) /\ Append(s, q)[k] = s[k]
         /\ \A k \in DOMAIN Append(s, q) : k \in DOMAIN s \/ k = Len(s) + 1
OBVIOUS

-----------------------------------------------------------------------------
(* Types.                                                                  *)

WorkerType ==
  [at : {"wait", "check", "lookup", "append", "publish", "signal", "erase", "exited"},
   job : Queries \cup {Idle}, found : Answers]

\* What results are made of.
LEMMA AnswerTypes ==
  /\ None \in Answers /\ \A e \in Errors : Failed(e) \in Answers
  /\ \A s \in Seq(Endpoints) : Found(s) \in Answers /\ Found(s)[1] = "ok" /\ Found(s)[2] = s
  /\ \A r \in Answers : r[1] = "ok" => r[2] \in Seq(Endpoints) /\ r = Found(r[2])
  /\ \A e \in Errors : Failed(e)[1] = "error" /\ Failed(e) # None
  /\ \A s \in Seq(Endpoints) : Found(s) # None
  /\ None[1] = "none"
<1>1. \A e \in Errors : <<"error", e>> \in Answers /\ <<"error", e>>[1] = "error"
  BY DEF Answers
<1>2. \A s \in Seq(Endpoints) : <<"ok", s>> \in Answers /\ <<"ok", s>>[1] = "ok" /\ <<"ok", s>>[2] = s
  BY DEF Answers
<1>3. None \in Answers /\ <<"none">>[1] = "none"
  BY DEF Answers
<1>4. ASSUME NEW r \in Answers, r[1] = "ok" PROVE r[2] \in Seq(Endpoints) /\ r = <<"ok", r[2]>>
  <2>1. r # <<"none">>
    BY <1>4
  <2>2. r \notin {"error"} \X Errors
    BY <1>4
  <2>3. r \in {"ok"} \X Seq(Endpoints)
    BY <1>4, <2>1, <2>2 DEF Answers, None
  <2> QED  BY <2>3
<1> QED  BY <1>1, <1>2, <1>3, <1>4 DEF None, Failed, Found

\* The errors of the code.
LEMMA ErrorTypes ==
  \A e \in {"cancelled", "timed_out", "limit_exceeded", "noname", "io_error"} :
    e \in Errors /\ Failed(e) \in Answers /\ Failed(e)[1] = "error" /\ Failed(e) # None
BY AnswerTypes DEF Errors

\* A thread moves, and no other does.
LEMMA WithFacts ==
  ASSUME TypeOK, NEW w \in Workers, NEW at, NEW q, NEW r, With(w, at, q, r),
         at \in {"wait", "check", "lookup", "append", "publish", "signal", "erase", "exited"},
         q \in Queries \cup {Idle}, r \in Answers
  PROVE  /\ worker' \in [Workers -> WorkerType]
         /\ worker'[w].at = at /\ worker'[w].job = q /\ worker'[w].found = r
         /\ \A v \in Workers : v # w => worker'[v] = worker[v]
<1>1. worker \in [Workers -> WorkerType]
  BY DEF TypeOK, WorkerType
<1>2. PICK x \in WorkerType : x.at = at /\ x.job = q /\ x.found = r /\ worker' = [worker EXCEPT ![w] = x]
  BY Zenon DEF WorkerType, With
<1> QED  BY <1>1, <1>2

\* What TypeOK says of a thread.
LEMMA WorkerFacts ==
  ASSUME TypeOK, NEW w \in Workers
  PROVE  /\ worker[w].at \in {"wait", "check", "lookup", "append", "publish", "signal", "erase", "exited"}
         /\ worker[w].job \in Queries \cup {Idle} /\ worker[w].found \in Answers
<1>1. worker[w] \in WorkerType
  BY DEF TypeOK, WorkerType
<1> QED  BY <1>1 DEF WorkerType

\* append_endpoint returns endpoints or an error.
LEMMA AppendTypes ==
  ASSUME NEW out \in Answers, NEW e \in Endpoints
  PROVE  AppendEndpoint(out, e) \in Answers
<1>1. CASE out[1] # "ok"
  BY <1>1 DEF AppendEndpoint
<1>2. CASE out[1] = "ok"
  <2>1. out[2] \in Seq(Endpoints)
    BY <1>2, AnswerTypes
  <2>2. Append(out[2], e) \in Seq(Endpoints)
    BY <2>1
  <2> QED  BY <1>2, <2>1, <2>2, AnswerTypes, ErrorTypes, Zenon DEF AppendEndpoint
<1> QED  BY <1>1, <1>2

\* What is known of the state apart from the threads, the queue and active.
ClientTypes ==
  /\ closing \in BOOLEAN /\ loopClosed \in BOOLEAN
  /\ result \in [Queries -> Answers] /\ answer \in [Queries -> Answers]
  /\ cancelled \subseteq Queries /\ abandoned \subseteq Queries /\ shutdown \subseteq Queries
  /\ completion \subseteq Queries /\ asked \subseteq Queries /\ late \subseteq Queries
  /\ phase \in [Queries -> {"new", "checked", "waiting", "woken", "deciding", "leaving", "done"}]
  /\ verdict \in [Queries -> {"none", "cancelled", "timed_out"}]
  /\ callback \in [Queries -> {"off", "armed", "begun", "flagged", "ran"}]

\* Queries and what happens to them keep their types.
LEMMA QueryTypes ==
  ASSUME TypeOK, NEW q \in Queries,
         Query(q) \/ RequestStop(q) \/ Flag(q) \/ Complete(q) \/ Expire(q)
  PROVE  ClientTypes'
<1> USE DEF shared, jobs, clients, world
<1>0. ClientTypes
  BY DEF TypeOK, ClientTypes
<1>1. CASE Check(q)
  BY <1>0, <1>1, ErrorTypes DEF Check, Answer, ClientTypes
<1>2. CASE Enqueue(q)
  BY <1>0, <1>2, ErrorTypes DEF Enqueue, Answer, ClientTypes
<1>3. CASE Wake(q)
  BY <1>0, <1>3 DEF Wake, ClientTypes
<1>4. CASE Decide(q)
  <2>1. Decision(q) \in Answers
    BY <1>0, ErrorTypes DEF Decision, ClientTypes
  <2> QED  BY <1>0, <1>4, <2>1 DEF Decide, ClientTypes
<1>5. CASE Unlock(q) \/ Leave(q)
  BY <1>0, <1>5 DEF Unlock, Leave, ClientTypes
<1>6. CASE RequestStop(q)
  BY <1>0, <1>6 DEF RequestStop, ClientTypes
<1>7. CASE Flag(q)
  BY <1>0, <1>7 DEF Flag, ClientTypes
<1>8. CASE Complete(q)
  BY <1>0, <1>8 DEF Complete, ClientTypes
<1>9. CASE Expire(q)
  BY <1>0, <1>9 DEF Expire, ClientTypes
<1> QED  BY <1>1, <1>2, <1>3, <1>4, <1>5, <1>6, <1>7, <1>8, <1>9 DEF Query

\* What each step of a thread does.
Moves(w, q) == worker[w].job = q /\ worker'[w].job = q /\ UNCHANGED shared
Took(w, q) ==
  /\ worker[w].at = "wait" /\ worker'[w].at = "check" /\ worker'[w].job = q /\ worker'[w].found = None
  /\ ~closing /\ queue # <<>> /\ q = Head(queue) /\ queue' = Tail(queue) /\ active' = active \cup {q}
  /\ UNCHANGED <<closing, jobs>>
Dropped(w, q) ==
  /\ worker[w].at = "erase" /\ worker'[w].at = "wait" /\ worker[w].job = q /\ worker'[w].job = Idle
  /\ worker'[w].found = None /\ active' = active \ {q}
  /\ UNCHANGED <<closing, queue, jobs>>
Exited(w) ==
  /\ worker[w].at = "wait" /\ worker'[w].at = "exited" /\ worker'[w].job = Idle /\ worker'[w].found = None
  /\ UNCHANGED <<shared, jobs>>
Skipped(w, q) ==
  /\ Moves(w, q) /\ worker[w].at = "check" /\ worker'[w].found = None
  /\ worker'[w].at = IF Dead(q) \/ q \in shutdown THEN "signal" ELSE "lookup"
  /\ UNCHANGED jobs
Searches(w, q) ==
  /\ Moves(w, q) /\ worker[w].at \in {"lookup", "append"} /\ worker'[w].at \in {"append", "publish"}
  /\ UNCHANGED jobs
Published(w, q) ==
  /\ Moves(w, q) /\ worker[w].at = "publish" /\ worker'[w].at = "signal" /\ worker'[w].found = None
  /\ result' = IF Wanted(q) THEN [result EXCEPT ![q] = worker[w].found] ELSE result
  /\ UNCHANGED <<cancelled, abandoned, shutdown, completion>>
Signalled(w, q) ==
  /\ Moves(w, q) /\ worker[w].at = "signal" /\ worker'[w].at = "erase" /\ worker'[w].found = None
  /\ completion' = completion \cup {q}
  /\ UNCHANGED <<result, cancelled, abandoned, shutdown>>

\* A step of a thread is one of these, and leaves the queries, the callers and the other threads alone.
LEMMA ThreadEffect ==
  ASSUME TypeOK, NEW w \in Workers, Thread(w)
  PROVE  /\ worker' \in [Workers -> WorkerType] /\ \A v \in Workers : v # w => worker'[v] = worker[v]
         /\ UNCHANGED <<clients, world>>
         /\ \/ Exited(w)
            \/ \E q \in Queries : Took(w, q)
            \/ \E q \in Queries \cup {Idle} :
                 Dropped(w, q) \/ Skipped(w, q) \/ Searches(w, q) \/ Published(w, q) \/ Signalled(w, q)
<1> USE DEF shared, jobs
<1>0. PICK q \in Queries \cup {Idle} : q = worker[w].job
  BY WorkerFacts
<1>f. worker[w].found \in Answers /\ None \in Answers
  BY WorkerFacts, AnswerTypes
<1>1. CASE Exit(w)
  <2>1. With(w, "exited", Idle, None)
    BY <1>1 DEF Exit, At
  <2> QED  BY <1>1, <1>f, <2>1, WithFacts DEF Exit, Exits, Exited
<1>2. CASE Take(w)
  <2>1. queue \in Seq(Queries) /\ queue # <<>>
    BY <1>2 DEF Take, TypeOK
  <2>2. PICK p \in Queries : p = Head(queue)
    BY <2>1, TailFacts
  <2>3. With(w, "check", p, None)
    BY <1>2, <2>2 DEF Take, At
  <2> QED  BY <1>2, <1>f, <2>2, <2>3, WithFacts DEF Take, Took
<1>3. CASE Skip(w)
  <2>1. PICK at \in {"signal", "lookup"} : at = IF Dead(q) \/ q \in shutdown THEN "signal" ELSE "lookup"
    OBVIOUS
  <2>2. With(w, at, q, None)
    BY <1>0, <1>3, <2>1 DEF Skip, At
  <2> QED  BY <1>0, <1>3, <1>f, <2>1, <2>2, WithFacts DEF Skip, Skipped, Moves
<1>4. CASE Lookup(w)
  <2>1. PICK at \in {"append", "publish"}, r \in Answers : With(w, at, q, r)
    <3>1. <<>> \in Seq(Endpoints)
      OBVIOUS
    <3>2. Found(<<>>) \in Answers /\ Failed("io_error") \in Answers
      BY <3>1, AnswerTypes, ErrorTypes, Zenon
    <3> QED  BY <1>0, <1>4, <3>2 DEF Lookup
  <2> QED  BY <1>0, <1>4, <2>1, WithFacts, Zenon DEF Lookup, Searches, Moves
<1>5. CASE AppendNext(w)
  <2>1. PICK e \in Endpoints :
          With(w, IF AppendEndpoint(worker[w].found, e)[1] = "ok" THEN "append" ELSE "publish", q,
               AppendEndpoint(worker[w].found, e))
    BY <1>0, <1>5, Zenon DEF AppendNext
  <2>2. PICK at \in {"append", "publish"}, r \in Answers : With(w, at, q, r)
    BY <1>f, <2>1, AppendTypes
  <2> QED  BY <1>0, <1>5, <2>2, WithFacts DEF AppendNext, Searches, Moves
<1>6. CASE AppendsDone(w)
  <2>1. PICK r \in Answers : With(w, "publish", q, r)
    BY <1>0, <1>6, <1>f, ErrorTypes DEF AppendsDone
  <2> QED  BY <1>0, <1>6, <2>1, WithFacts, Zenon DEF AppendsDone, Searches, Moves
<1>7. CASE Publish(w)
  <2>1. With(w, "signal", q, None)
    BY <1>0, <1>7 DEF Publish, At
  <2>2. /\ worker[w].at = "publish" /\ UNCHANGED <<shared, cancelled, abandoned, shutdown, completion, clients, world>>
        /\ result' = IF Wanted(q) THEN [result EXCEPT ![q] = worker[w].found] ELSE result
    BY <1>0, <1>7, Zenon DEF Publish
  <2>3. /\ worker' \in [Workers -> WorkerType] /\ \A v \in Workers : v # w => worker'[v] = worker[v]
        /\ worker'[w].at = "signal" /\ worker'[w].job = q /\ worker'[w].found = None
    BY <1>f, <2>1, WithFacts
  <2>4. Published(w, q)
    BY <1>0, <2>2, <2>3, Zenon DEF Published, Moves
  <2> QED  BY <2>2, <2>3, <2>4
<1>8. CASE Signal(w)
  <2>1. With(w, "erase", q, None)
    BY <1>0, <1>8 DEF Signal, At
  <2> QED  BY <1>0, <1>8, <1>f, <2>1, WithFacts DEF Signal, Signalled, Moves
<1>9. CASE Erase(w)
  <2>1. With(w, "wait", Idle, None)
    BY <1>9 DEF Erase, At
  <2> QED  BY <1>0, <1>9, <1>f, <2>1, WithFacts, Zenon DEF Erase, Dropped
<1> QED  BY <1>1, <1>2, <1>3, <1>4, <1>5, <1>6, <1>7, <1>8, <1>9, Zenon DEF Thread

\* Threads have at most as many jobs as there are threads.
LEMMA ActiveFits ==
  ASSUME NEW f \in [Workers -> WorkerType], NEW S \in SUBSET Workers
  PROVE  Cardinality({f[w].job : w \in S}) <= Cardinality(Workers)
<1> DEFINE T == {f[w].job : w \in S}
           g == [w \in S |-> f[w].job]
<1>1. IsFiniteSet(S) /\ Cardinality(S) <= Cardinality(Workers)
  BY FS_Subset, FiniteAssumption
<1>2. g \in Surjection(S, T)
  BY DEF Surjection
<1>3. IsFiniteSet(T) /\ Cardinality(T) <= Cardinality(S)
  BY <1>1, <1>2, FS_Surjection
<1>4. Cardinality(T) \in Nat /\ Cardinality(S) \in Nat /\ Cardinality(Workers) \in Nat
  BY <1>1, <1>3, FS_CardinalityType, FiniteAssumption
<1> QED  BY <1>1, <1>3, <1>4

-----------------------------------------------------------------------------
(* Jobs.                                                                   *)

\* A query that is let in is appended to the pruned queue, and one that is not leaves it pruned at
\* most; nobody else touches the queue from that side.
Admitted(q, kept) ==
  /\ phase[q] = "checked" /\ kept \in Pruned /\ Len(kept) < Capacity /\ ~closing
  /\ queue' = Append(kept, q)
  /\ phase' = [phase EXCEPT ![q] = "waiting"]
  /\ callback' = [callback EXCEPT ![q] = IF q \in asked THEN "ran" ELSE "armed"]
  /\ cancelled' = cancelled \cup ({q} \cap asked) /\ completion' = completion \cup ({q} \cap asked)
  /\ UNCHANGED <<closing, active, result, abandoned, shutdown, verdict, answer, asked, late, loopClosed, worker>>
TurnedAway(q, kept) ==
  /\ phase[q] = "checked" /\ kept \in Pruned /\ Len(kept) >= Capacity /\ ~closing
  /\ queue' = kept
  /\ answer' = [answer EXCEPT ![q] = Failed("limit_exceeded")] /\ phase' = [phase EXCEPT ![q] = "done"]
  /\ cancelled' = cancelled \cup ({q} \cap asked) /\ completion' = completion \cup ({q} \cap asked)
  /\ UNCHANGED <<closing, active, result, abandoned, shutdown, verdict, callback, asked, late, loopClosed, worker>>
Refused(q) ==
  /\ phase[q] = "checked" /\ closing
  /\ answer' = [answer EXCEPT ![q] = Failed("cancelled")] /\ phase' = [phase EXCEPT ![q] = "done"]
  /\ UNCHANGED <<shared, jobs, verdict, world, worker>>

\* Enqueue is one of these.
LEMMA EnqueueEffect ==
  ASSUME TypeOK, NEW q \in Queries, Enqueue(q)
  PROVE  Refused(q) \/ \E kept \in Pruned : Admitted(q, kept) \/ TurnedAway(q, kept)
<1>1. CASE Refuses
  BY <1>1 DEF Enqueue, Answer, Refuses, Refused
<1>2. CASE ~Refuses
  <2>1. PICK kept \in Pruned :
          IF Len(kept) >= Capacity
          THEN /\ queue' = kept
               /\ Answer(q, Failed("limit_exceeded")) /\ UNCHANGED callback
          ELSE /\ queue' = Append(kept, q)
               /\ phase' = [phase EXCEPT ![q] = "waiting"] /\ UNCHANGED <<verdict, answer>>
               /\ callback' = [callback EXCEPT ![q] = IF q \in asked THEN "ran" ELSE "armed"]
    BY <1>2, Zenon DEF Enqueue
  <2>2. /\ phase[q] = "checked" /\ ~closing
        /\ cancelled' = cancelled \cup ({q} \cap asked) /\ completion' = completion \cup ({q} \cap asked)
        /\ UNCHANGED <<closing, active, result, abandoned, shutdown, asked, late, loopClosed, worker>>
    BY <1>2, Zenon DEF Enqueue, Refuses
  <2>3. CASE Len(kept) >= Capacity
    BY <2>1, <2>2, <2>3 DEF TurnedAway, Answer
  <2>4. CASE ~(Len(kept) >= Capacity)
    <3>1. Len(kept) < Capacity
      <4>1. Len(kept) \in Nat /\ Capacity \in Nat
        <5>1. queue \in Seq(Queries)
          BY DEF TypeOK
        <5>2. PICK n \in 0 .. Len(queue) : kept \in [1 .. n -> Range(queue)]
          BY Zenon DEF Pruned
        <5>3. n \in Nat /\ kept \in Seq(Range(queue))
          BY <5>1, <5>2
        <5> QED  BY <5>3, OptionsAssumption
      <4> QED  BY <2>4, <4>1
    <3> QED  BY <2>1, <2>2, <2>4, <3>1 DEF Admitted
  <2> QED  BY <2>3, <2>4
<1> QED  BY <1>1, <1>2

\* The other steps of a query, and what happens to it, leave the queue and the threads alone.
LEMMA QueueKept ==
  ASSUME NEW q \in Queries,
         Check(q) \/ Wake(q) \/ Decide(q) \/ Unlock(q) \/ Leave(q) \/ RequestStop(q) \/ Flag(q) \/ Complete(q) \/ Expire(q)
  PROVE  UNCHANGED <<shared, worker, shutdown, result>>
BY DEF Check, Wake, Decide, Unlock, Leave, RequestStop, Flag, Complete, Expire, shared, jobs

\* Queries that come and go keep jobs where they are.
LEMMA EnqueueJobs ==
  ASSUME TypeOK, JobsSound, PhasesSound, NEW q \in Queries, Enqueue(q)
  PROVE  JobsSound' /\ queue' \in Seq(Queries) /\ Len(queue') <= Capacity
<1>0. Capacity \in Nat /\ queue \in Seq(Queries) /\ Len(queue) <= Capacity /\ Len(queue) \in Nat
  BY OptionsAssumption DEF TypeOK
<1>1. CASE Refused(q)
  BY <1>0, <1>1 DEF Refused, shared, JobsSound, Owned, Lined
<1>2. ASSUME NEW kept \in Pruned, queue' = kept, ~closing, UNCHANGED <<closing, active, worker>>
      PROVE  JobsSound' /\ queue' \in Seq(Queries) /\ Len(queue') <= Capacity
  <2>1. /\ kept \in Seq(Queries) /\ Len(kept) \in Nat /\ Len(kept) <= Len(queue)
        /\ \A j, k \in DOMAIN kept : kept[j] = kept[k] => j = k
        /\ \A k \in DOMAIN kept : \E j \in DOMAIN queue : kept[k] = queue[j]
    BY PrunedFacts
  <2>2. \A k \in DOMAIN kept : kept[k] \notin active
    BY <2>1, Zenon DEF JobsSound, Lined
  <2>3. JobsSound'
    <3>1. Owned'
      BY <1>2 DEF JobsSound, Owned
    <3>2. Lined'
      BY <1>2, <2>1, <2>2, Zenon DEF Lined
    <3> QED  BY <3>1, <3>2 DEF JobsSound
  <2> QED  BY <1>0, <1>2, <2>1, <2>3
<1>3. ASSUME NEW kept \in Pruned, Admitted(q, kept)
      PROVE  JobsSound' /\ queue' \in Seq(Queries) /\ Len(queue') <= Capacity
  <2>1. /\ kept \in Seq(Queries) /\ Len(kept) \in Nat
        /\ \A j, k \in DOMAIN kept : kept[j] = kept[k] => j = k
        /\ \A k \in DOMAIN kept : \E j \in DOMAIN queue : kept[k] = queue[j]
    BY PrunedFacts
  <2>2. \A k \in DOMAIN kept : kept[k] \notin active
    BY <2>1, Zenon DEF JobsSound, Lined
  <2>3. queue' = Append(kept, q) /\ ~closing /\ Len(kept) < Capacity /\ phase[q] = "checked"
        /\ UNCHANGED <<closing, active, worker>>
    BY <1>3 DEF Admitted
  <2>4. q \notin active /\ \A k \in DOMAIN queue : queue[k] # q
    BY <2>3, Zenon DEF PhasesSound, Phased, Queued
  <2>5. \A k \in DOMAIN kept : kept[k] # q
    BY <2>1, <2>4, Zenon
  <2>6. /\ queue' \in Seq(Queries) /\ Len(queue') = Len(kept) + 1 /\ queue'[Len(kept) + 1] = q
        /\ \A k \in DOMAIN queue' : k \in DOMAIN kept \/ k = Len(kept) + 1
        /\ \A k \in DOMAIN kept : queue'[k] = kept[k]
    BY <2>1, <2>3, AppendFacts
  <2>7. \A j, k \in DOMAIN queue' : queue'[j] = queue'[k] => j = k
    BY <2>1, <2>5, <2>6, Zenon
  <2>8. \A k \in DOMAIN queue' : queue'[k] \notin active
    BY <2>2, <2>4, <2>6, Zenon
  <2>9. JobsSound'
    <3>1. Owned'
      BY <2>3 DEF JobsSound, Owned
    <3>2. Lined'
      BY <2>3, <2>7, <2>8, Zenon DEF Lined
    <3> QED  BY <3>1, <3>2 DEF JobsSound
  <2> QED  BY <1>0, <2>1, <2>3, <2>6, <2>9
<1> QED  BY <1>1, <1>2, <1>3, EnqueueEffect DEF TurnedAway

\* A thread takes the first job, keeps it through its steps and drops it.
LEMMA ThreadJobs ==
  ASSUME TypeOK, JobsSound, NEW w \in Workers, Thread(w)
  PROVE  JobsSound' /\ queue' \in Seq(Queries) /\ Len(queue') <= Capacity
<1>0. /\ queue \in Seq(Queries) /\ Len(queue) <= Capacity /\ Len(queue) \in Nat /\ Capacity \in Nat
      /\ Idle \notin Queries
  BY OptionsAssumption DEF TypeOK
<1>1. \A v \in Workers : v # w => worker'[v] = worker[v]
  BY ThreadEffect
<1>2. /\ \A v \in Workers : worker[v].job \in Queries <=> worker[v].at \in Busy
      /\ \A u, v \in Workers : worker[u].job = worker[v].job /\ worker[v].at \in Busy => u = v
      /\ \A x : x \in active <=> \E v \in Workers : worker[v].at \in Busy /\ worker[v].job = x
  BY Zenon DEF JobsSound, Owned
<1>3. ASSUME \A v \in Workers : worker'[v].job \in Queries <=> worker'[v].at \in Busy,
             \A u, v \in Workers : worker'[u].job = worker'[v].job /\ worker'[v].at \in Busy => u = v,
             \A x : x \in active' <=> \E v \in Workers : worker'[v].at \in Busy /\ worker'[v].job = x
      PROVE  Owned'
  <2>1. active' = {worker'[v].job : v \in {u \in Workers : worker'[u].at \in Busy}}
    <3>1. \A x : x \in {worker'[v].job : v \in {u \in Workers : worker'[u].at \in Busy}}
                <=> \E v \in Workers : worker'[v].at \in Busy /\ worker'[v].job = x
      OBVIOUS
    <3> QED  BY <1>3, <3>1
  <2> QED  BY <1>3, <2>1, Zenon DEF Owned
<1>4. CASE Exited(w)
  <2>1. /\ worker[w].at \notin Busy /\ worker'[w].at \notin Busy /\ worker'[w].job \notin Queries
        /\ UNCHANGED <<closing, queue, active>>
    BY <1>0, <1>4 DEF Exited, Busy, shared
  <2>2. Owned'
    <3>1. \A v \in Workers : worker[v].at \in Busy \/ worker'[v].at \in Busy => worker'[v] = worker[v]
      BY <1>1, <2>1, Zenon
    <3>2. \A v \in Workers : worker'[v].job \in Queries <=> worker'[v].at \in Busy
      BY <1>1, <1>2, <2>1, Zenon
    <3>3. \A u, v \in Workers : worker'[u].job = worker'[v].job /\ worker'[v].at \in Busy => u = v
      <4> SUFFICES ASSUME NEW u \in Workers, NEW v \in Workers,
                          worker'[u].job = worker'[v].job, worker'[v].at \in Busy
                   PROVE  u = v
        OBVIOUS
      <4>1. worker'[u].at \in Busy
        BY <3>2, Zenon
      <4> QED  BY <1>2, <3>1, <4>1, Zenon
    <3>4. \A x : x \in active' <=> \E v \in Workers : worker'[v].at \in Busy /\ worker'[v].job = x
      <4>1. \A v \in Workers : worker'[v].at \in Busy <=> worker[v].at \in Busy
        BY <1>1, <2>1, Zenon
      <4> QED  BY <1>2, <2>1, <3>1, <4>1
    <3> QED  BY <1>3, <3>2, <3>3, <3>4, Zenon
  <2> QED  BY <1>0, <2>1, <2>2 DEF JobsSound, Lined
<1>5. ASSUME NEW q \in Queries, Took(w, q) PROVE JobsSound' /\ queue' \in Seq(Queries) /\ Len(queue') <= Capacity
  <2>1. /\ worker[w].at \notin Busy /\ worker'[w].at \in Busy /\ worker'[w].job = q
        /\ queue # <<>> /\ q = Head(queue) /\ queue' = Tail(queue) /\ active' = active \cup {q}
        /\ ~closing /\ closing' = closing
    BY <1>5 DEF Took, Busy
  <2>2. /\ queue' \in Seq(Queries) /\ Len(queue') = Len(queue) - 1
        /\ DOMAIN queue = 1 .. Len(queue) /\ Len(queue) \in Nat \ {0} /\ queue[1] = q
        /\ \A k \in DOMAIN queue' : k + 1 \in DOMAIN queue /\ queue'[k] = queue[k + 1]
        /\ DOMAIN queue' = 1 .. Len(queue) - 1
    BY <1>0, <2>1, TailFacts
  <2>3. /\ \A j, k \in DOMAIN queue : queue[j] = queue[k] => j = k
        /\ \A k \in DOMAIN queue : queue[k] \notin active
    BY Zenon DEF JobsSound, Lined
  <2>4. q \notin active
    <3>1. 1 \in DOMAIN queue
      BY <2>2
    <3> QED  BY <2>2, <2>3, <3>1
  <2>5. Owned'
    <3>2. \A v \in Workers : worker'[v].job \in Queries <=> worker'[v].at \in Busy
      BY <1>1, <1>2, <2>1, Zenon
    <3>1. \A u, v \in Workers : worker'[u].job = worker'[v].job /\ worker'[v].at \in Busy => u = v
      <4> SUFFICES ASSUME NEW u \in Workers, NEW v \in Workers,
                          worker'[u].job = worker'[v].job, worker'[v].at \in Busy
                   PROVE  u = v
        OBVIOUS
      <4>1. worker'[u].at \in Busy
        BY <3>2, Zenon
      <4>2. ASSUME NEW x \in Workers, x # w, worker'[x].at \in Busy PROVE worker'[x].job # q
        <5>1. worker[x].at \in Busy /\ worker'[x].job = worker[x].job
          BY <1>1, <4>2
        <5>2. worker[x].job \in active
          BY <1>2, <5>1, Zenon
        <5> QED  BY <2>4, <5>1, <5>2
      <4>3. CASE u = w \/ v = w
        BY <2>1, <4>1, <4>2, <4>3, Zenon
      <4>4. CASE u # w /\ v # w
        BY <1>1, <1>2, <4>4, Zenon
      <4> QED  BY <4>3, <4>4
    <3>3. \A x : x \in active' <=> \E v \in Workers : worker'[v].at \in Busy /\ worker'[v].job = x
      <4>1. ASSUME NEW x, x \in active' PROVE \E v \in Workers : worker'[v].at \in Busy /\ worker'[v].job = x
        <5>1. CASE x = q
          BY <2>1, <5>1, Zenon
        <5>2. CASE x \in active
          <6>1. PICK v \in Workers : worker[v].at \in Busy /\ worker[v].job = x
            BY <1>2, <5>2, Zenon
          <6> QED  BY <1>1, <2>1, <6>1, Zenon
        <5> QED  BY <2>1, <4>1, <5>1, <5>2
      <4>2. ASSUME NEW x, NEW v \in Workers, worker'[v].at \in Busy, worker'[v].job = x PROVE x \in active'
        <5>1. CASE v = w
          BY <2>1, <4>2, <5>1, Zenon
        <5>2. CASE v # w
          <6>1. worker[v].at \in Busy /\ worker[v].job = x
            BY <1>1, <4>2, <5>2, Zenon
          <6>2. x \in active
            BY <1>2, <6>1, Zenon
          <6> QED  BY <2>1, <6>2, Zenon
        <5> QED  BY <5>1, <5>2, Zenon
      <4> QED  BY <4>1, <4>2, Zenon
    <3> QED  BY <1>3, <3>1, <3>2, <3>3, Zenon
  <2>6. \A j, k \in DOMAIN queue' : queue'[j] = queue'[k] => j = k
    <3> SUFFICES ASSUME NEW j \in DOMAIN queue', NEW k \in DOMAIN queue', queue'[j] = queue'[k] PROVE j = k
      OBVIOUS
    <3>1. j + 1 \in DOMAIN queue /\ k + 1 \in DOMAIN queue /\ queue[j + 1] = queue[k + 1]
      BY <2>2
    <3>2. j + 1 = k + 1
      BY <2>3, <3>1, Zenon
    <3> QED  BY <2>2, <3>2
  <2>7. \A k \in DOMAIN queue' : queue'[k] \notin active'
    <3> SUFFICES ASSUME NEW k \in DOMAIN queue' PROVE queue'[k] \notin active \cup {q}
      BY <2>1
    <3>1. k + 1 \in DOMAIN queue /\ queue'[k] = queue[k + 1] /\ 1 \in DOMAIN queue /\ k + 1 # 1
      BY <2>2
    <3> QED  BY <2>2, <2>3, <3>1
  <2> QED  BY <1>0, <2>1, <2>2, <2>5, <2>6, <2>7 DEF JobsSound, Lined
<1>6. ASSUME NEW q \in Queries \cup {Idle}, Dropped(w, q)
      PROVE  JobsSound' /\ queue' \in Seq(Queries) /\ Len(queue') <= Capacity
  <2>1. /\ worker[w].at \in Busy /\ worker'[w].at \notin Busy /\ worker[w].job = q /\ worker'[w].job \notin Queries
        /\ active' = active \ {q} /\ UNCHANGED <<closing, queue>>
    BY <1>0, <1>6 DEF Dropped, Busy
  <2>2. Owned'
    <3>2. \A v \in Workers : worker'[v].job \in Queries <=> worker'[v].at \in Busy
      BY <1>1, <1>2, <2>1, Zenon
    <3>1. \A u, v \in Workers : worker'[u].job = worker'[v].job /\ worker'[v].at \in Busy => u = v
      <4> SUFFICES ASSUME NEW u \in Workers, NEW v \in Workers,
                          worker'[u].job = worker'[v].job, worker'[v].at \in Busy
                   PROVE  u = v
        OBVIOUS
      <4>1. worker'[u].at \in Busy
        BY <3>2, Zenon
      <4>2. u # w /\ v # w
        BY <2>1, <4>1, Zenon
      <4> QED  BY <1>1, <1>2, <4>2, Zenon
    <3>3. ASSUME NEW x, x \in active' PROVE \E v \in Workers : worker'[v].at \in Busy /\ worker'[v].job = x
      <4>1. PICK v \in Workers : worker[v].at \in Busy /\ worker[v].job = x
        BY <1>2, <2>1, <3>3, Zenon
      <4>2. v # w
        BY <2>1, <3>3, <4>1
      <4> QED  BY <1>1, <4>1, <4>2, Zenon
    <3>4. ASSUME NEW x, NEW v \in Workers, worker'[v].at \in Busy, worker'[v].job = x PROVE x \in active'
      <4>1. v # w /\ worker[v].at \in Busy /\ worker[v].job = x
        BY <1>1, <2>1, <3>4, Zenon
      <4>2. x # q /\ x \in active
        BY <1>2, <2>1, <4>1, Zenon
      <4> QED  BY <2>1, <4>2
    <3> QED  BY <1>3, <3>1, <3>2, <3>3, <3>4, Zenon
  <2>3. Lined'
    BY <2>1, Zenon DEF JobsSound, Lined
  <2> QED  BY <1>0, <2>1, <2>2, <2>3 DEF JobsSound
<1>7. ASSUME NEW q \in Queries \cup {Idle}, Moves(w, q), worker[w].at \in Busy, worker'[w].at \in Busy
      PROVE  JobsSound' /\ queue' \in Seq(Queries) /\ Len(queue') <= Capacity
  <2>1. worker[w].job = q /\ worker'[w].job = q /\ UNCHANGED <<closing, queue, active>>
    BY <1>7 DEF Moves, shared
  <2>2. \A v \in Workers : worker'[v].job = worker[v].job /\ (worker'[v].at \in Busy <=> worker[v].at \in Busy)
    BY <1>1, <1>7, <2>1, Zenon
  <2>3. Owned'
    <3>1. \A v \in Workers : worker'[v].job \in Queries <=> worker'[v].at \in Busy
      BY <1>2, <2>2, Zenon
    <3>2. \A u, v \in Workers : worker'[u].job = worker'[v].job /\ worker'[v].at \in Busy => u = v
      BY <1>2, <2>2, Zenon
    <3>3. \A x : x \in active' <=> \E v \in Workers : worker'[v].at \in Busy /\ worker'[v].job = x
      BY <1>2, <2>1, <2>2
    <3> QED  BY <1>3, <3>1, <3>2, <3>3, Zenon
  <2> QED  BY <1>0, <2>1, <2>3 DEF JobsSound, Lined
<1>8. ASSUME NEW q \in Queries \cup {Idle}, Skipped(w, q) \/ Searches(w, q) \/ Published(w, q) \/ Signalled(w, q)
      PROVE  JobsSound' /\ queue' \in Seq(Queries) /\ Len(queue') <= Capacity
  <2>1. Moves(w, q) /\ worker[w].at \in Busy /\ worker'[w].at \in Busy
    BY <1>8 DEF Skipped, Searches, Published, Signalled, Busy
  <2> QED  BY <1>7, <2>1
<1> QED  BY <1>4, <1>5, <1>6, <1>8, ThreadEffect

\* No step loses or doubles a job, and the state keeps its shape.
LEMMA TypesStep ==
  ASSUME TypeOK, JobsSound, PhasesSound, [Next]_vars
  PROVE  TypeOK' /\ JobsSound'
<1> USE DEF shared, jobs, clients, world
<1>0. ClientTypes /\ worker \in [Workers -> WorkerType] /\ queue \in Seq(Queries) /\ Len(queue) <= Capacity
  BY DEF TypeOK, ClientTypes, WorkerType
<1>1. ASSUME JobsSound', ClientTypes', worker' \in [Workers -> WorkerType],
             queue' \in Seq(Queries), Len(queue') <= Capacity
      PROVE  TypeOK'
  <2>1. active' = {worker'[w].job : w \in {v \in Workers : worker'[v].at \in Busy}}
    BY <1>1 DEF JobsSound, Owned
  <2>2. Cardinality(active') <= Cardinality(Workers)
    BY <1>1, <2>1, ActiveFits, Zenon
  <2>3. active' \subseteq Queries
    <3>1. \A v \in Workers : worker'[v].at \in Busy => worker'[v].job \in Queries
      BY <1>1, Zenon DEF JobsSound, Owned
    <3> QED  BY <2>1, <3>1, Zenon
  <2> QED  BY <1>1, <2>2, <2>3 DEF TypeOK, ClientTypes, WorkerType
<1>2. ASSUME UNCHANGED <<shared, worker>> PROVE JobsSound'
  BY <1>2 DEF JobsSound, Owned, Lined
<1>3. ASSUME NEW q \in Queries, Enqueue(q) PROVE TypeOK' /\ JobsSound'
  <2>1. JobsSound' /\ queue' \in Seq(Queries) /\ Len(queue') <= Capacity
    BY <1>3, EnqueueJobs
  <2>2. ClientTypes'
    BY <1>3, QueryTypes DEF Query
  <2>3. worker' = worker
    BY <1>3 DEF Enqueue
  <2> QED  BY <1>0, <1>1, <2>1, <2>2, <2>3
<1>4. ASSUME NEW q \in Queries,
             Check(q) \/ Wake(q) \/ Decide(q) \/ Unlock(q) \/ Leave(q) \/ RequestStop(q) \/ Flag(q) \/ Complete(q) \/ Expire(q)
      PROVE  TypeOK' /\ JobsSound'
  <2>1. UNCHANGED <<shared, worker>>
    BY <1>4, QueueKept
  <2>2. ClientTypes'
    BY <1>4, QueryTypes DEF Query
  <2> QED  BY <1>0, <1>1, <1>2, <2>1, <2>2
<1>5. ASSUME NEW w \in Workers, Thread(w) PROVE TypeOK' /\ JobsSound'
  <2>1. JobsSound' /\ queue' \in Seq(Queries) /\ Len(queue') <= Capacity
    BY <1>5, ThreadJobs
  <2>2. worker' \in [Workers -> WorkerType] /\ UNCHANGED <<clients, world>>
    BY <1>5, ThreadEffect
  <2>3. ClientTypes'
    <3>1. CASE Exited(w) \/ \E q \in Queries : Took(w, q)
      BY <1>0, <2>2, <3>1 DEF ClientTypes, Exited, Took
    <3>2. ASSUME NEW q \in Queries \cup {Idle}, Dropped(w, q) \/ Skipped(w, q) \/ Searches(w, q) PROVE ClientTypes'
      BY <1>0, <2>2, <3>2 DEF ClientTypes, Dropped, Skipped, Searches, Moves
    <3>3. ASSUME NEW q \in Queries \cup {Idle}, Published(w, q) PROVE ClientTypes'
      <4>1. worker[w].found \in Answers
        BY WorkerFacts
      <4> QED  BY <1>0, <2>2, <3>3, <4>1, Zenon DEF ClientTypes, Published, Moves
    <3>4. ASSUME NEW q \in Queries \cup {Idle}, Signalled(w, q) PROVE ClientTypes'
      <4>1. q \in Queries
        BY <3>4 DEF Signalled, Moves, JobsSound, Owned, Busy
      <4> QED  BY <1>0, <2>2, <3>4, <4>1 DEF ClientTypes, Signalled, Moves
    <3> QED  BY <1>5, <3>1, <3>2, <3>3, <3>4, ThreadEffect
  <2> QED  BY <1>1, <2>1, <2>2, <2>3
<1>6. CASE Close
  <2>1. Closed \subseteq Queries
    BY <1>0 DEF Closed, Range, TypeOK
  <2>2. ClientTypes' /\ worker' = worker /\ active' = active /\ queue' = <<>>
    BY <1>0, <1>6, <2>1 DEF Close, ClientTypes
  <2>3. JobsSound'
    <3>1. Owned'
      BY <2>2 DEF JobsSound, Owned
    <3>2. Lined'
      BY <2>2 DEF Lined
    <3> QED  BY <3>1, <3>2 DEF JobsSound
  <2>4. queue' \in Seq(Queries) /\ Len(queue') <= Capacity
    BY <2>2, OptionsAssumption
  <2> QED  BY <1>0, <1>1, <2>2, <2>3, <2>4
<1>7. CASE LoopShutdown
  BY <1>0, <1>1, <1>2, <1>7 DEF LoopShutdown, ClientTypes
<1>8. CASE UNCHANGED vars
  BY <1>0, <1>1, <1>2, <1>8 DEF vars, ClientTypes
<1> QED  BY <1>3, <1>4, <1>5, <1>6, <1>7, <1>8 DEF Next, Query

-----------------------------------------------------------------------------
(* Results.                                                                *)

\* append_endpoint keeps the endpoints apart and within max_results, and fails only when there are
\* more of them.
LEMMA AppendSound ==
  ASSUME NEW out \in Answers, out[1] = "ok", Sized(out), NEW e \in Endpoints
  PROVE  /\ Sized(AppendEndpoint(out, e))
         /\ AppendEndpoint(out, e)[1] # "ok" => AppendEndpoint(out, e) = Failed("limit_exceeded")
                                                /\ Cardinality(Endpoints) > MaxResults
<1>0. PICK s \in Seq(Endpoints) : s = out[2] /\ out = Found(s)
  BY AnswerTypes
<1>1. IsInjective(s) /\ Len(s) <= MaxResults /\ Len(s) \in Nat /\ MaxResults \in Nat /\ DOMAIN s = 1 .. Len(s)
  BY <1>0, OptionsAssumption DEF Sized
<1>2. CASE \E k \in 1 .. Len(s) : s[k] = e
  BY <1>0, <1>2 DEF AppendEndpoint
<1>3. CASE ~(\E k \in 1 .. Len(s) : s[k] = e)
  <2>0. PICK t \in Seq(Endpoints) : t = Append(s, e)
    BY AppendFacts, Zenon
  <2>1. /\ Len(t) = Len(s) + 1 /\ DOMAIN t = 1 .. Len(s) + 1 /\ t[Len(s) + 1] = e
        /\ \A k \in 1 .. Len(s) : t[k] = s[k]
        /\ \A k \in DOMAIN t : k \in 1 .. Len(s) \/ k = Len(s) + 1
    BY <1>1, <2>0, AppendFacts
  <2>2. \A j, k \in 1 .. Len(s) : s[j] = s[k] => j = k
    BY <1>1 DEF IsInjective
  <2>3. \A j, k \in DOMAIN t : t[j] = t[k] => j = k
    BY <1>3, <2>1, <2>2, Zenon
  <2>4. IsInjective(t)
    BY <2>3 DEF IsInjective
  <2>5. CASE Len(s) = MaxResults
    <3>1. AppendEndpoint(out, e) = Failed("limit_exceeded")
      BY <1>0, <1>3, <2>5 DEF AppendEndpoint
    <3>2. t \in Injection(1 .. MaxResults + 1, Endpoints)
      <4>1. t \in [1 .. MaxResults + 1 -> Endpoints]
        BY <1>1, <2>1, <2>5
      <4> QED  BY <2>1, <2>3, <2>5, <4>1, Zenon DEF Injection, IsInjective
    <3>3. IsFiniteSet(1 .. MaxResults + 1) /\ Cardinality(1 .. MaxResults + 1) = MaxResults + 1
      BY <1>1, FS_Interval
    <3>4. Cardinality(1 .. MaxResults + 1) <= Cardinality(Endpoints)
      BY <3>2, <3>3, FiniteAssumption, FS_Injection
    <3>5. Cardinality(Endpoints) \in Nat
      BY FiniteAssumption, FS_CardinalityType
    <3> QED  BY <1>1, <3>1, <3>3, <3>4, <3>5, ErrorTypes DEF Sized
  <2>6. CASE Len(s) # MaxResults
    <3>1. AppendEndpoint(out, e) = Found(t)
      BY <1>0, <1>3, <2>0, <2>6, Zenon DEF AppendEndpoint
    <3>2. Found(t)[1] = "ok" /\ Found(t)[2] = t
      BY AnswerTypes
    <3>3. Len(t) <= MaxResults
      <4>1. Len(t) = Len(s) + 1
        BY <2>1, Zenon
      <4>2. PICK n \in Nat, m \in Nat : n = Len(s) /\ m = MaxResults /\ n <= m /\ n # m
        BY <1>1, <2>6, Zenon
      <4>3. n + 1 <= m
        BY <4>2
      <4> QED  BY <4>1, <4>2, <4>3
    <3>4. Sized(Found(t))
      BY <2>4, <3>2, <3>3, Zenon DEF Sized
    <3> QED  BY <3>1, <3>2, <3>4
  <2> QED  BY <2>5, <2>6
<1> QED  BY <1>2, <1>3

\* An error of the lookup itself is no cancellation and no timeout.
LEMMA ErrorsDue ==
  /\ \A e \in Errors : Sized(Failed(e))
  /\ Sized(None) /\ Due(None) /\ Due(Failed("noname")) /\ Due(Failed("io_error"))
  /\ Cardinality(Endpoints) > MaxResults => Due(Failed("limit_exceeded"))
<1>1. \A e, f : Failed(e) = Failed(f) => e = f
  BY DEF Failed
<1>2. \A e \in Errors : Failed(e)[1] = "error" /\ Failed(e) # None
  BY AnswerTypes
<1>3. None[1] = "none"
  BY AnswerTypes
<1>4. {"cancelled", "timed_out", "limit_exceeded", "noname", "io_error"} = Errors
  BY DEF Errors
<1> QED  BY <1>1, <1>2, <1>3, <1>4 DEF Sized, Due

\* The loop of work collects what may be published.
LEMMA SearchResults ==
  ASSUME TypeOK, ResultsSound, NEW w \in Workers, Lookup(w) \/ AppendNext(w) \/ AppendsDone(w)
  PROVE  Collected(w)'
<1>f. /\ worker[w].found \in Answers /\ None \in Answers /\ Sized(worker[w].found)
      /\ worker[w].job \in Queries \cup {Idle}
  BY WorkerFacts, AnswerTypes, Zenon DEF ResultsSound, Collected
<1>1. CASE Lookup(w)
  <2>1. <<>> \in Seq(Endpoints)
    OBVIOUS
  <2>2. Found(<<>>) \in Answers /\ Found(<<>>)[1] = "ok" /\ Found(<<>>)[2] = <<>>
    BY <2>1, AnswerTypes, Zenon
  <2>3. Sized(Found(<<>>))
    <3>1. IsInjective(<<>>)
      BY DEF IsInjective
    <3>2. Len(<<>>) <= MaxResults
      BY OptionsAssumption
    <3> QED  BY <2>2, <3>1, <3>2, Zenon DEF Sized
  <2>4. CASE With(w, "publish", worker[w].job, Failed("io_error"))
    <3>1. worker'[w].at = "publish" /\ worker'[w].found = Failed("io_error")
      <4>1. w \in DOMAIN worker
        BY Zenon DEF TypeOK
      <4> QED  BY <2>4, <4>1 DEF With
    <3> QED  BY <3>1, ErrorTypes, ErrorsDue, Zenon DEF Collected
  <2>5. CASE With(w, "append", worker[w].job, Found(<<>>))
    <3>1. worker'[w].at = "append" /\ worker'[w].found = Found(<<>>)
      <4>1. w \in DOMAIN worker
        BY Zenon DEF TypeOK
      <4> QED  BY <2>5, <4>1 DEF With
    <3> QED  BY <2>2, <2>3, <3>1, Zenon DEF Collected
  <2> QED  BY <1>1, <2>4, <2>5, Zenon DEF Lookup
<1>2. CASE AppendNext(w)
  <2>0. worker[w].at = "append" /\ worker[w].found[1] = "ok"
    BY <1>2, Zenon DEF AppendNext, ResultsSound, Collected
  <2>1. PICK e \in Endpoints :
          With(w, IF AppendEndpoint(worker[w].found, e)[1] = "ok" THEN "append" ELSE "publish", worker[w].job,
               AppendEndpoint(worker[w].found, e))
    BY <1>2, Zenon DEF AppendNext
  <2>2. PICK r \in Answers : r = AppendEndpoint(worker[w].found, e)
    BY <1>f, AppendTypes
  <2>3. Sized(r) /\ (r[1] # "ok" => r = Failed("limit_exceeded") /\ Cardinality(Endpoints) > MaxResults)
    BY <1>f, <2>0, <2>2, AppendSound, Zenon
  <2>4. PICK at \in {"append", "publish"} : at = IF r[1] = "ok" THEN "append" ELSE "publish"
    OBVIOUS
  <2>5. With(w, at, worker[w].job, r)
    BY <2>1, <2>2, <2>4
  <2>6. worker'[w].at = at /\ worker'[w].found = r
    BY <1>f, <2>5, WithFacts, Zenon
  <2>7. CASE r[1] = "ok"
    BY <2>3, <2>4, <2>6, <2>7 DEF Collected
  <2>8. CASE r[1] # "ok"
    BY <2>3, <2>4, <2>6, <2>8, ErrorTypes, ErrorsDue, Zenon DEF Collected
  <2> QED  BY <2>7, <2>8
<1>3. CASE AppendsDone(w)
  <2>0. worker[w].at = "append" /\ worker[w].found[1] = "ok"
    BY <1>3 DEF AppendsDone, ResultsSound, Collected
  <2>1. With(w, "publish", worker[w].job, IF worker[w].found = Found(<<>>) THEN Failed("noname") ELSE worker[w].found)
    BY <1>3, Zenon DEF AppendsDone
  <2>2. CASE worker[w].found = Found(<<>>)
    <3>1. With(w, "publish", worker[w].job, Failed("noname"))
      BY <2>1, <2>2
    <3>2. worker'[w].at = "publish" /\ worker'[w].found = Failed("noname")
      BY <1>f, <3>1, WithFacts, ErrorTypes
    <3> QED  BY <3>2, ErrorTypes, ErrorsDue DEF Collected
  <2>3. CASE worker[w].found # Found(<<>>)
    <3>1. With(w, "publish", worker[w].job, worker[w].found)
      BY <2>1, <2>3
    <3>2. worker'[w].at = "publish" /\ worker'[w].found = worker[w].found
      BY <1>f, <3>1, WithFacts
    <3>3. PICK s \in Seq(Endpoints) : s = worker[w].found[2] /\ worker[w].found = Found(s)
      BY <1>f, <2>0, AnswerTypes, Zenon
    <3>4. Len(s) > 0
      BY <2>3, <3>3
    <3>5. worker[w].found # None /\ \A e \in Errors : worker[w].found # Failed(e)
      BY <2>0, AnswerTypes
    <3>6. Due(worker[w].found)
      BY <3>3, <3>4, <3>5, ErrorTypes, Zenon DEF Due
    <3> QED  BY <1>f, <3>2, <3>5, <3>6 DEF Collected
  <2> QED  BY <2>2, <2>3
<1> QED  BY <1>1, <1>2, <1>3

\* Results stay sound: only work's loop makes one, and only publishing hands it over.
LEMMA ResultsStep ==
  ASSUME TypeOK, JobsSound, ResultsSound, [Next]_vars
  PROVE  ResultsSound'
<1>1. ASSUME UNCHANGED <<worker, result>> PROVE ResultsSound'
  BY <1>1 DEF ResultsSound, Collected
<1>2. ASSUME NEW w \in Workers, Thread(w) PROVE ResultsSound'
  <2>1. \A v \in Workers : v # w => worker'[v] = worker[v]
    BY <1>2, ThreadEffect
  <2>2. \A v \in Workers : v # w => Collected(v)'
    BY <2>1 DEF ResultsSound, Collected
  <2>3. Collected(w)'
    <3>1. CASE Lookup(w) \/ AppendNext(w) \/ AppendsDone(w)
      BY <3>1, SearchResults
    <3>2. CASE ~(Lookup(w) \/ AppendNext(w) \/ AppendsDone(w))
      <4>1. Exit(w) \/ Take(w) \/ Skip(w) \/ Publish(w) \/ Signal(w) \/ Erase(w)
        BY <1>2, <3>2 DEF Thread
      <4>2. worker[w].at \notin {"lookup", "append"}
        BY <4>1, Zenon DEF Exit, Exits, Take, Skip, Publish, Signal, Erase
      <4>3. worker'[w].found = None /\ worker'[w].at \notin {"append", "publish"}
        BY <1>2, <4>2, ThreadEffect, Zenon DEF Exited, Took, Dropped, Skipped, Searches, Published, Signalled
      <4> QED  BY <4>3, ErrorsDue DEF Collected
    <3> QED  BY <3>1, <3>2
  <2>4. ASSUME NEW q \in Queries PROVE Sized(result'[q]) /\ Due(result'[q])
    <3>0. Sized(result[q]) /\ Due(result[q]) /\ result \in [Queries -> Answers]
      BY DEF ResultsSound, TypeOK
    <3>1. CASE result' = result
      BY <3>0, <3>1
    <3>2. ASSUME NEW p \in Queries \cup {Idle}, Published(w, p) PROVE Sized(result'[q]) /\ Due(result'[q])
      <4>1. Sized(worker[w].found) /\ Due(worker[w].found)
        BY <3>2, Zenon DEF Published, ResultsSound, Collected
      <4>2. result'[q] = result[q] \/ result'[q] = worker[w].found
        BY <3>0, <3>2 DEF Published
      <4> QED  BY <3>0, <4>1, <4>2
    <3> QED  BY <1>2, <3>1, <3>2, ThreadEffect, Zenon DEF Exited, Took, Dropped, Skipped, Searches, Signalled, jobs
  <2> QED  BY <2>2, <2>3, <2>4 DEF ResultsSound
<1>3. CASE \E q \in Queries : Query(q) \/ RequestStop(q) \/ Flag(q) \/ Complete(q) \/ Expire(q)
  <2>1. PICK q \in Queries : Query(q) \/ RequestStop(q) \/ Flag(q) \/ Complete(q) \/ Expire(q)
    BY <1>3
  <2>2. CASE Enqueue(q)
    BY <1>1, <2>2, EnqueueEffect DEF Refused, Admitted, TurnedAway, jobs
  <2> QED  BY <1>1, <2>1, <2>2, QueueKept DEF Query
<1>4. CASE LoopShutdown \/ Close \/ UNCHANGED vars
  BY <1>1, <1>4 DEF LoopShutdown, Close, vars, jobs
<1> QED  BY <1>2, <1>3, <1>4 DEF Next

-----------------------------------------------------------------------------
(* Phases and causes.                                                      *)

\* What is in the queue after it was pruned.
LEMMA QueuedKept ==
  ASSUME TypeOK, JobsSound, NEW kept \in Pruned, queue' = kept
  PROVE  /\ \A p : Queued(p)' => Queued(p)
         /\ \A p : Queued(p) /\ ~Dead(p) => Queued(p)'
<1>1. /\ \A k \in DOMAIN kept : \E j \in DOMAIN queue : kept[k] = queue[j]
      /\ \A j \in DOMAIN queue : ~Dead(queue[j]) => \E k \in DOMAIN kept : kept[k] = queue[j]
  BY PrunedFacts
<1>2. \A p : Queued(p)' => Queued(p)
  BY <1>1, Zenon DEF Queued
<1>3. ASSUME NEW p, NEW j \in DOMAIN queue, queue[j] = p, ~Dead(p) PROVE Queued(p)'
  BY <1>1, <1>3 DEF Queued
<1> QED  BY <1>2, <1>3, Zenon DEF Queued

\* What is in it after a query was let in.
LEMMA QueuedAdmitted ==
  ASSUME TypeOK, JobsSound, NEW q \in Queries, NEW kept \in Pruned, Admitted(q, kept)
  PROVE  /\ Queued(q)' /\ \A p : Queued(p)' => p = q \/ Queued(p)
         /\ \A p : Queued(p) /\ ~Dead(p) => Queued(p)'
<1>1. /\ kept \in Seq(Queries) /\ Len(kept) \in Nat
      /\ \A k \in DOMAIN kept : \E j \in DOMAIN queue : kept[k] = queue[j]
      /\ \A j \in DOMAIN queue : ~Dead(queue[j]) => \E k \in DOMAIN kept : kept[k] = queue[j]
  BY PrunedFacts
<1>2. queue' = Append(kept, q)
  BY DEF Admitted
<1>3. /\ DOMAIN queue' = 1 .. Len(kept) + 1 /\ queue'[Len(kept) + 1] = q
      /\ \A k \in DOMAIN queue' : k \in DOMAIN kept \/ k = Len(kept) + 1
      /\ \A k \in DOMAIN kept : k \in DOMAIN queue' /\ queue'[k] = kept[k]
  BY <1>1, <1>2, AppendFacts
<1>4. Len(kept) + 1 \in DOMAIN queue'
  BY <1>1, <1>3
<1>5. Queued(q)'
  BY <1>3, <1>4, Zenon DEF Queued
<1>6. ASSUME NEW p, NEW k \in DOMAIN queue', queue'[k] = p PROVE p = q \/ Queued(p)
  <2>1. CASE k \in DOMAIN kept
    <3>1. kept[k] = p
      BY <1>3, <1>6, <2>1, Zenon
    <3> QED  BY <1>1, <2>1, <3>1, Zenon DEF Queued
  <2>2. CASE k = Len(kept) + 1
    BY <1>3, <1>6, <2>2
  <2> QED  BY <1>3, <2>1, <2>2, Zenon
<1>7. ASSUME NEW p, NEW j \in DOMAIN queue, queue[j] = p, ~Dead(p) PROVE Queued(p)'
  <2>1. PICK k \in DOMAIN kept : kept[k] = p
    BY <1>1, <1>7
  <2> QED  BY <1>3, <2>1, Zenon DEF Queued
<1>8. \A p : Queued(p) /\ ~Dead(p) => Queued(p)'
  BY <1>7, Zenon DEF Queued
<1>9. \A p : Queued(p)' => p = q \/ Queued(p)
  BY <1>6, Zenon DEF Queued
<1> QED  BY <1>5, <1>8, <1>9

\* What is in it after a thread took the first job.
LEMMA QueuedTook ==
  ASSUME TypeOK, NEW w \in Workers, NEW q \in Queries, Took(w, q)
  PROVE  Queued(q) /\ (\A p : Queued(p)' => Queued(p)) /\ \A p : Queued(p) => p = q \/ Queued(p)'
<1>1. queue \in Seq(Queries) /\ queue # <<>> /\ queue' = Tail(queue) /\ q = Head(queue)
  BY DEF TypeOK, Took
<1>2. /\ Len(queue) \in Nat \ {0} /\ DOMAIN queue = 1 .. Len(queue) /\ q = queue[1]
      /\ \A k \in DOMAIN queue' : k + 1 \in DOMAIN queue /\ queue'[k] = queue[k + 1]
      /\ \A k \in DOMAIN queue : k = 1 \/ (k - 1 \in DOMAIN queue' /\ queue'[k - 1] = queue[k])
  BY <1>1, TailFacts
<1>3. 1 \in DOMAIN queue
  BY <1>2
<1>4. Queued(q)
  BY <1>2, <1>3, Zenon DEF Queued
<1>5. \A p : Queued(p)' => Queued(p)
  BY <1>2, Zenon DEF Queued
<1>6. \A p : Queued(p) => p = q \/ Queued(p)'
  BY <1>2, Zenon DEF Queued
<1> QED  BY <1>4, <1>5, <1>6

\* What a thread has is a job that was queued, and its query's callback is on.
LEMMA JobFacts ==
  ASSUME TypeOK, JobsSound, PhasesSound, NEW w \in Workers, worker[w].at \in Busy
  PROVE  /\ worker[w].job \in Queries /\ worker[w].job \in active
         /\ Phased(worker[w].job) /\ callback[worker[w].job] # "off"
<1>1. worker[w].job \in Queries /\ worker[w].job \in active
  BY Zenon DEF JobsSound, Owned
<1>2. Phased(worker[w].job)
  BY <1>1, Zenon DEF PhasesSound
<1> QED  BY <1>1, <1>2, Zenon DEF Phased

\* A query's callback is on exactly while its job may be in the state.
LEMMA PhasesStep ==
  ASSUME TypeOK, JobsSound, PhasesSound, [Next]_vars
  PROVE  PhasesSound'
<1> SUFFICES ASSUME NEW p \in Queries PROVE Phased(p)'
  BY DEF PhasesSound
<1> USE DEF shared, jobs, clients, world
<1>0. Phased(p) /\ ClientTypes
  BY DEF PhasesSound, TypeOK, ClientTypes
<1>1. ASSUME NEW q \in Queries, Enqueue(q) PROVE Phased(p)'
  <2>1. CASE Refused(q)
    <3>1. Queued(p)' <=> Queued(p)
      BY <2>1, Zenon DEF Refused, Queued
    <3> QED  BY <1>0, <2>1, <3>1, ErrorTypes DEF Refused, Phased, ClientTypes
  <2>2. ASSUME NEW kept \in Pruned, TurnedAway(q, kept) PROVE Phased(p)'
    <3>1. Queued(p)' => Queued(p)
      BY <2>2, QueuedKept DEF TurnedAway
    <3> QED  BY <1>0, <2>2, <3>1, ErrorTypes DEF TurnedAway, Phased, ClientTypes
  <2>3. ASSUME NEW kept \in Pruned, Admitted(q, kept) PROVE Phased(p)'
    <3>1. Queued(p)' => p = q \/ Queued(p)
      BY <2>3, QueuedAdmitted
    <3> QED  BY <1>0, <2>3, <3>1 DEF Admitted, Phased, ClientTypes
  <2> QED  BY <1>1, <2>1, <2>2, <2>3, EnqueueEffect
<1>2. ASSUME NEW q \in Queries,
             Check(q) \/ Wake(q) \/ Decide(q) \/ Unlock(q) \/ Leave(q) \/ RequestStop(q) \/ Flag(q) \/ Complete(q) \/ Expire(q)
      PROVE  Phased(p)'
  <2>0. (Queued(p)' <=> Queued(p)) /\ UNCHANGED <<active, result>>
    BY <1>2, QueueKept DEF Queued
  <2>1. CASE Check(q)
    BY <1>0, <2>0, <2>1, ErrorTypes DEF Check, Answer, Phased, ClientTypes
  <2>2. CASE Wake(q) \/ Unlock(q) \/ Leave(q) \/ Expire(q)
    BY <1>0, <2>0, <2>2, Zenon DEF Wake, Unlock, Leave, Expire, Phased, ClientTypes
  <2>3. CASE Decide(q)
    BY <1>0, <2>0, <2>3 DEF Decide, Phased, ClientTypes
  <2>4. CASE RequestStop(q) \/ Flag(q) \/ Complete(q)
    BY <1>0, <2>0, <2>4, Zenon DEF RequestStop, Flag, Complete, Phased, ClientTypes
  <2> QED  BY <1>2, <2>1, <2>2, <2>3, <2>4
<1>3. ASSUME NEW w \in Workers, Thread(w) PROVE Phased(p)'
  <2>0. UNCHANGED <<phase, callback, answer>>
    BY <1>3, ThreadEffect
  <2>1. CASE Exited(w)
    BY <1>0, <2>0, <2>1, Zenon DEF Exited, Phased, Queued
  <2>2. ASSUME NEW q \in Queries, Took(w, q) PROVE Phased(p)'
    <3>1. Queued(q) /\ (Queued(p)' => Queued(p)) /\ UNCHANGED <<result, abandoned>> /\ active' = active \cup {q}
      BY <2>2, QueuedTook, Zenon DEF Took
    <3> QED  BY <1>0, <2>0, <3>1, Zenon DEF Phased
  <2>3. ASSUME NEW q \in Queries \cup {Idle}, Dropped(w, q) PROVE Phased(p)'
    <3>1. (Queued(p)' <=> Queued(p)) /\ UNCHANGED <<result, abandoned>> /\ active' = active \ {q}
      BY <2>3, Zenon DEF Dropped, Queued
    <3> QED  BY <1>0, <2>0, <3>1, Zenon DEF Phased
  <2>4. ASSUME NEW q \in Queries \cup {Idle}, Skipped(w, q) \/ Searches(w, q) \/ Signalled(w, q) PROVE Phased(p)'
    <3>1. (Queued(p)' <=> Queued(p)) /\ UNCHANGED <<result, abandoned, active>>
      BY <2>4, Zenon DEF Skipped, Searches, Signalled, Moves, Queued
    <3> QED  BY <1>0, <2>0, <3>1, Zenon DEF Phased
  <2>5. ASSUME NEW q \in Queries \cup {Idle}, Published(w, q) PROVE Phased(p)'
    <3>1. (Queued(p)' <=> Queued(p)) /\ UNCHANGED <<abandoned, active>> /\ worker[w].job = q /\ worker[w].at \in Busy
      BY <2>5, Zenon DEF Published, Moves, Queued, Busy
    <3>2. callback[q] # "off"
      BY <3>1, JobFacts, Zenon
    <3>3. p # q => result'[p] = result[p]
      BY <1>0, <2>5, Zenon DEF Published, ClientTypes
    <3> QED  BY <1>0, <2>0, <3>1, <3>2, <3>3, Zenon DEF Phased
  <2> QED  BY <1>3, <2>1, <2>2, <2>3, <2>4, <2>5, ThreadEffect
<1>4. CASE Close
  <2>1. ~Queued(p)' /\ UNCHANGED <<active, result, abandoned, phase, callback, answer>>
    BY <1>4 DEF Close, Queued
  <2> QED  BY <1>0, <2>1, Zenon DEF Phased
<1>5. CASE LoopShutdown \/ UNCHANGED vars
  <2>1. (Queued(p)' <=> Queued(p)) /\ UNCHANGED <<active, result, abandoned, phase, callback, answer>>
    BY <1>5 DEF LoopShutdown, vars, Queued
  <2> QED  BY <1>0, <2>1, Zenon DEF Phased
<1> QED  BY <1>1, <1>2, <1>3, <1>4, <1>5 DEF Next, Query

\* Nothing that has happened is taken back.
Grown ==
  /\ asked \subseteq asked' /\ late \subseteq late' /\ completion \subseteq completion'
  /\ abandoned \subseteq abandoned' /\ cancelled \subseteq cancelled'
  /\ (closing => closing') /\ (loopClosed => loopClosed')
  /\ \A p \in Queries : result[p] # None => result'[p] # None

\* No step takes back a stop, a deadline, a completion or a result.
LEMMA Lasting ==
  ASSUME TypeOK, JobsSound, ResultsSound, [Next]_vars
  PROVE  /\ asked \subseteq asked' /\ late \subseteq late' /\ completion \subseteq completion'
         /\ abandoned \subseteq abandoned' /\ cancelled \subseteq cancelled'
         /\ (closing => closing') /\ (loopClosed => loopClosed')
         /\ \A p \in Queries : Reason(p) => Reason(p)'
<1> USE DEF shared, jobs, clients, world
<1>0. ASSUME UNCHANGED <<asked, late, closing, loopClosed, result>>, completion \subseteq completion',
             abandoned \subseteq abandoned', cancelled \subseteq cancelled'
      PROVE  Grown
  BY <1>0, Zenon DEF Grown
<1>1. Grown
  <2>1. ASSUME NEW q \in Queries, Query(q) PROVE Grown
    <3>1. CASE Enqueue(q)
      BY <3>1, EnqueueEffect, Zenon DEF Refused, Admitted, TurnedAway, Grown
    <3>2. CASE Check(q) \/ Wake(q) \/ Unlock(q) \/ Leave(q)
      <4>1. UNCHANGED <<asked, late, closing, loopClosed, result, completion, abandoned, cancelled>>
        BY <3>2, Zenon DEF Check, Wake, Unlock, Leave
      <4> QED  BY <1>0, <4>1, Zenon
    <3>3. CASE Decide(q)
      <4>1. /\ UNCHANGED <<asked, late, closing, loopClosed, result, completion, cancelled>>
            /\ abandoned' = abandoned \cup {q}
        BY <3>3, Zenon DEF Decide
      <4> QED  BY <1>0, <4>1, Zenon
    <3> QED  BY <2>1, <3>1, <3>2, <3>3, Zenon DEF Query
  <2>2. ASSUME NEW q \in Queries, RequestStop(q) \/ Flag(q) \/ Complete(q) \/ Expire(q) PROVE Grown
    <3>1. /\ UNCHANGED <<closing, loopClosed, result, abandoned>>
          /\ asked' = asked \/ asked' = asked \cup {q}
          /\ late' = late \/ late' = late \cup {q}
          /\ completion' = completion \/ completion' = completion \cup {q}
          /\ cancelled' = cancelled \/ cancelled' = cancelled \cup {q}
      BY <2>2, Zenon DEF RequestStop, Flag, Complete, Expire
    <3> QED  BY <3>1, Zenon DEF Grown
  <2>3. ASSUME NEW w \in Workers, Thread(w) PROVE Grown
    <3>0. UNCHANGED <<asked, late, loopClosed>>
      BY <2>3, ThreadEffect
    <3>1. CASE Exited(w)
      BY <1>0, <3>0, <3>1, Zenon DEF Exited
    <3>2. ASSUME NEW q \in Queries, Took(w, q) PROVE Grown
      BY <1>0, <3>0, <3>2, Zenon DEF Took
    <3>3. ASSUME NEW q \in Queries \cup {Idle}, Dropped(w, q) \/ Skipped(w, q) \/ Searches(w, q) \/ Signalled(w, q)
          PROVE  Grown
      <4>1. /\ UNCHANGED <<closing, result, abandoned, cancelled>>
            /\ completion' = completion \/ completion' = completion \cup {q}
        BY <3>3, Zenon DEF Dropped, Skipped, Searches, Signalled, Moves
      <4> QED  BY <1>0, <3>0, <4>1, Zenon
    <3>4. ASSUME NEW q \in Queries \cup {Idle}, Published(w, q) PROVE Grown
      <4>1. worker[w].found # None
        BY <3>4, Zenon DEF Published, ResultsSound, Collected
      <4>2. result \in [Queries -> Answers]
        BY DEF TypeOK
      <4>3. \A p \in Queries : result[p] # None => result'[p] # None
        BY <3>4, <4>1, <4>2 DEF Published
      <4> QED  BY <3>0, <3>4, <4>3, Zenon DEF Published, Moves, Grown
    <3> QED  BY <2>3, <3>1, <3>2, <3>3, <3>4, ThreadEffect, Zenon
  <2>4. CASE LoopShutdown \/ Close \/ UNCHANGED vars
    <3>1. CASE LoopShutdown
      BY <3>1, Zenon DEF LoopShutdown, Grown
    <3>2. CASE Close
      <4>1. /\ UNCHANGED <<asked, late, loopClosed, result, abandoned, cancelled>>
            /\ closing' /\ completion' = completion \cup Closed
        BY <3>2 DEF Close
      <4> QED  BY <4>1, Zenon DEF Grown
    <3>3. CASE UNCHANGED vars
      <4>1. UNCHANGED <<asked, late, closing, loopClosed, result, completion, abandoned, cancelled>>
        BY <3>3 DEF vars
      <4> QED  BY <1>0, <4>1, Zenon
    <3> QED  BY <2>4, <3>1, <3>2, <3>3, Zenon
  <2> QED  BY <2>1, <2>2, <2>3, <2>4, Zenon DEF Next
<1> QED  BY <1>1, Zenon DEF Reason, Grown

\* A completion, a cancellation and a verdict have their cause.
LEMMA CausesStep ==
  ASSUME TypeOK, JobsSound, PhasesSound, CausesSound, ResultsSound, [Next]_vars
  PROVE  \A q \in Queries : Caused(q)'
<1> SUFFICES ASSUME NEW p \in Queries PROVE Caused(p)'
  OBVIOUS
<1> USE DEF shared, jobs, clients, world
<1>0. Caused(p) /\ Phased(p) /\ ClientTypes
  BY DEF CausesSound, PhasesSound, TypeOK, ClientTypes
<1>m. /\ p \in asked => p \in asked'
      /\ p \in late => p \in late'
      /\ p \in completion => p \in completion'
      /\ p \in abandoned => p \in abandoned'
      /\ closing => closing'
      /\ loopClosed => loopClosed'
      /\ Reason(p) => Reason(p)'
  BY Lasting
<1>1. ASSUME p \in shutdown' => p \in shutdown \/ closing',
             p \in cancelled' => p \in cancelled \/ (p \in asked' /\ (p \in completion' \/ callback'[p] = "flagged")),
             callback[p] = "flagged" => callback'[p] = "flagged" \/ p \in completion',
             callback'[p] \in {"begun", "flagged"} => callback[p] \in {"begun", "flagged"} \/ p \in asked',
             p \in completion' => p \in completion \/ Reason(p)' \/ p \in abandoned',
             verdict'[p] = "cancelled" => verdict[p] = "cancelled" \/ Reason(p) \/ loopClosed,
             verdict'[p] = "timed_out" => verdict[p] = "timed_out" \/ p \in late,
             phase'[p] = "woken" => (phase[p] = "woken" /\ verdict'[p] = verdict[p]) \/ verdict'[p] # "none"
      PROVE  Caused(p)'
  BY <1>0, <1>1, <1>m, Zenon DEF Caused
<1>2. ASSUME NEW q \in Queries, Enqueue(q) PROVE Caused(p)'
  <2>1. CASE Refused(q)
    BY <1>0, <1>1, <2>1, Zenon DEF Refused, ClientTypes
  <2>2. ASSUME NEW kept \in Pruned, TurnedAway(q, kept) PROVE Caused(p)'
    BY <1>0, <1>1, <2>2, Zenon DEF TurnedAway, ClientTypes, Reason
  <2>3. ASSUME NEW kept \in Pruned, Admitted(q, kept) PROVE Caused(p)'
    BY <1>0, <1>1, <2>3, Zenon DEF Admitted, ClientTypes, Reason, Phased
  <2> QED  BY <1>2, <2>1, <2>2, <2>3, EnqueueEffect
<1>3. ASSUME NEW q \in Queries, Check(q) \/ Decide(q) \/ Unlock(q) \/ Leave(q) PROVE Caused(p)'
  BY <1>0, <1>1, <1>3, Zenon DEF Check, Answer, Decide, Unlock, Leave, ClientTypes
<1>4. ASSUME NEW q \in Queries, Wake(q) PROVE Caused(p)'
  <2>1. p = q => p \notin abandoned
    BY <1>0, <1>4, Zenon DEF Wake, Phased
  <2>2. p = q /\ p \in completion => Reason(p)
    BY <1>0, <2>1, Zenon DEF Caused
  <2> QED  BY <1>0, <1>1, <1>4, <2>2 DEF Wake, ClientTypes
<1>5. ASSUME NEW q \in Queries, RequestStop(q) \/ Flag(q) \/ Complete(q) \/ Expire(q) PROVE Caused(p)'
  <2>1. CASE RequestStop(q)
    BY <1>0, <1>1, <2>1 DEF RequestStop, ClientTypes
  <2>2. CASE Flag(q)
    BY <1>0, <1>1, <2>2, Zenon DEF Flag, ClientTypes, Caused
  <2>3. CASE Complete(q)
    BY <1>0, <1>1, <2>3, Zenon DEF Complete, ClientTypes, Caused, Reason
  <2>4. CASE Expire(q)
    BY <1>0, <1>1, <2>4 DEF Expire, ClientTypes
  <2> QED  BY <1>5, <2>1, <2>2, <2>3, <2>4
<1>6. ASSUME NEW w \in Workers, Thread(w) PROVE Caused(p)'
  <2>0. UNCHANGED <<callback, verdict, phase>>
    BY <1>6, ThreadEffect
  <2>1. CASE Exited(w)
    BY <1>1, <2>0, <2>1 DEF Exited
  <2>2. ASSUME NEW q \in Queries, Took(w, q) PROVE Caused(p)'
    BY <1>1, <2>0, <2>2, Zenon DEF Took
  <2>3. ASSUME NEW q \in Queries \cup {Idle}, Dropped(w, q) \/ Skipped(w, q) \/ Searches(w, q) \/ Published(w, q)
        PROVE  Caused(p)'
    BY <1>1, <2>0, <2>3, Zenon DEF Dropped, Skipped, Searches, Published
  <2>4. ASSUME NEW q \in Queries \cup {Idle}, Signalled(w, q) PROVE Caused(p)'
    <3>1. worker[w].at = "signal" /\ worker[w].job = q /\ completion' = completion \cup {q}
          /\ UNCHANGED <<shutdown, cancelled>>
      BY <2>4, Zenon DEF Signalled, Moves
    <3>2. p = q => Reason(p) \/ p \in abandoned
      BY <3>1 DEF CausesSound, Prompted
    <3> QED  BY <1>1, <1>m, <2>0, <3>1, <3>2, Zenon
  <2> QED  BY <1>6, <2>1, <2>2, <2>3, <2>4, ThreadEffect
<1>7. CASE Close
  BY <1>1, <1>7, Zenon DEF Close, Reason
<1>8. CASE LoopShutdown \/ UNCHANGED vars
  BY <1>1, <1>8, Zenon DEF LoopShutdown, vars
<1> QED  BY <1>2, <1>3, <1>4, <1>5, <1>6, <1>7, <1>8 DEF Next, Query

\* A thread asks for completion for a cause, and drops a job whose completion was asked for.
LEMMA PromptedStep ==
  ASSUME TypeOK, JobsSound, PhasesSound, CausesSound, ResultsSound, [Next]_vars
  PROVE  \A w \in Workers : Prompted(w)'
<1> SUFFICES ASSUME NEW v \in Workers PROVE Prompted(v)'
  OBVIOUS
<1>0. Prompted(v) /\ \A q \in Queries : Caused(q)
  BY DEF CausesSound
<1>m. /\ \A p \in Queries : Reason(p) => Reason(p)'
      /\ completion \subseteq completion' /\ abandoned \subseteq abandoned' /\ (closing => closing')
      /\ asked \subseteq asked'
  BY Lasting
<1>1. ASSUME worker'[v] = worker[v] PROVE Prompted(v)'
  <2>1. CASE worker[v].at \in Busy
    <3>1. PICK q \in Queries : q = worker[v].job
      BY <2>1, JobFacts
    <3> QED  BY <1>0, <1>1, <1>m, <3>1, Zenon DEF Prompted
  <2>2. CASE worker[v].at \notin Busy
    BY <1>1, <2>2 DEF Prompted, Busy
  <2> QED  BY <2>1, <2>2
<1>2. ASSUME NEW w \in Workers, Thread(w) PROVE Prompted(v)'
  <2>1. CASE v # w
    BY <1>1, <1>2, <2>1, ThreadEffect, Zenon
  <2>2. ASSUME v = w, worker'[v].at \notin {"signal", "erase"} PROVE Prompted(v)'
    BY <2>2 DEF Prompted
  <2>3. CASE v = w /\ (Exited(w) \/ \E q \in Queries : Took(w, q))
    BY <2>2, <2>3, Zenon DEF Exited, Took
  <2>4. ASSUME v = w, NEW q \in Queries \cup {Idle}, Dropped(w, q) \/ Searches(w, q) PROVE Prompted(v)'
    BY <2>2, <2>4, Zenon DEF Dropped, Searches
  <2>5. ASSUME v = w, NEW q \in Queries \cup {Idle}, Skipped(w, q) PROVE Prompted(v)'
    <3>1. worker[w].at \in Busy /\ worker[w].job = q /\ worker'[w].job = q
      BY <2>5, Zenon DEF Skipped, Moves, Busy
    <3>2. q \in Queries
      BY <3>1, JobFacts
    <3>3. CASE Dead(q) \/ q \in shutdown
      <4>1. Reason(q) \/ q \in abandoned
        BY <1>0, <3>2, <3>3 DEF Dead, Caused, Reason
      <4>2. worker'[w].at = "signal"
        BY <2>5, <3>3 DEF Skipped
      <4> QED  BY <1>m, <2>5, <3>1, <3>2, <4>1, <4>2 DEF Prompted
    <3>4. CASE ~(Dead(q) \/ q \in shutdown)
      <4>1. worker'[w].at = "lookup"
        BY <2>5, <3>4 DEF Skipped
      <4> QED  BY <2>2, <2>5, <4>1
    <3> QED  BY <3>3, <3>4
  <2>6. ASSUME v = w, NEW q \in Queries \cup {Idle}, Published(w, q) PROVE Prompted(v)'
    <3>1. /\ worker[w].at \in Busy /\ worker[w].job = q /\ worker'[w].job = q /\ worker'[w].at = "signal"
          /\ worker[w].found # None
      BY <2>6 DEF Published, Moves, Busy, ResultsSound, Collected
    <3>2. q \in Queries
      BY <3>1, JobFacts
    <3>3. CASE Wanted(q)
      <4>1. result'[q] = worker[w].found
        BY <2>6, <3>2, <3>3, Zenon DEF Published, TypeOK
      <4>2. Reason(q)'
        BY <3>1, <4>1 DEF Reason
      <4> QED  BY <2>6, <3>1, <4>2 DEF Prompted
    <3>4. CASE ~Wanted(q)
      <4>1. q \in abandoned \/ closing
        BY <1>0, <3>2, <3>4 DEF Wanted, Caused
      <4>2. q \in abandoned' \/ Reason(q)'
        BY <1>m, <4>1 DEF Reason
      <4> QED  BY <2>6, <3>1, <4>2 DEF Prompted
    <3> QED  BY <3>3, <3>4
  <2>7. ASSUME v = w, NEW q \in Queries \cup {Idle}, Signalled(w, q) PROVE Prompted(v)'
    BY <2>7 DEF Signalled, Moves, Prompted
  <2> QED  BY <1>2, <2>1, <2>3, <2>4, <2>5, <2>6, <2>7, ThreadEffect
<1>3. ASSUME NEW q \in Queries, Query(q) \/ RequestStop(q) \/ Flag(q) \/ Complete(q) \/ Expire(q) PROVE Prompted(v)'
  <2>1. CASE Enqueue(q)
    BY <1>1, <2>1 DEF Enqueue
  <2> QED  BY <1>1, <1>3, <2>1, QueueKept DEF Query
<1>4. CASE LoopShutdown \/ Close \/ UNCHANGED vars
  BY <1>1, <1>4 DEF LoopShutdown, Close, vars
<1> QED  BY <1>2, <1>3, <1>4 DEF Next

-----------------------------------------------------------------------------
(* Answers.                                                                *)

\* What AnswersAccounted says of one query.
Accounted(q) ==
  /\ answer[q] # None /\ result[q] # None => answer[q] = result[q]
  /\ answer[q] = Failed("cancelled") => q \in asked \/ closing \/ loopClosed
  /\ answer[q] = Failed("timed_out") => q \in late

\* What a query decides is due to it.
LEMMA DecisionDue ==
  ASSUME TypeOK, PhasesSound, CausesSound, ResultsSound, NEW q \in Queries, phase[q] = "woken"
  PROVE  /\ Decision(q) # None
         /\ result[q] # None => Decision(q) = result[q]
         /\ Decision(q) = Failed("cancelled") => q \in asked \/ closing \/ loopClosed
         /\ Decision(q) = Failed("timed_out") => q \in late
<1>1. Caused(q) /\ Due(result[q]) /\ verdict[q] \in {"none", "cancelled", "timed_out"}
  BY DEF CausesSound, ResultsSound, TypeOK
<1>2. Failed("cancelled") # Failed("timed_out") /\ Failed("cancelled") # None /\ Failed("timed_out") # None
  <2>1. \A e, f : Failed(e) = Failed(f) => e = f
    BY DEF Failed
  <2> QED  BY <2>1, ErrorTypes
<1>3. CASE result[q] # None
  BY <1>1, <1>3 DEF Decision, Due
<1>4. CASE result[q] = None /\ q \in cancelled
  BY <1>1, <1>2, <1>4, Zenon DEF Decision, Caused
<1>5. CASE result[q] = None /\ q \notin cancelled /\ verdict[q] = "timed_out"
  BY <1>1, <1>2, <1>5 DEF Decision, Caused
<1>6. CASE result[q] = None /\ q \notin cancelled /\ verdict[q] # "timed_out"
  BY <1>1, <1>2, <1>6, Zenon DEF Decision, Caused, Reason
<1> QED  BY <1>3, <1>4, <1>5, <1>6

\* Answers stay accounted for.
LEMMA AccountedStep ==
  ASSUME TypeOK, JobsSound, PhasesSound, CausesSound, ResultsSound, AnswersAccounted, [Next]_vars
  PROVE  \A q \in Queries : Accounted(q)'
<1> SUFFICES ASSUME NEW p \in Queries PROVE Accounted(p)'
  OBVIOUS
<1> USE DEF shared, jobs, clients, world
<1>0. Accounted(p) /\ Phased(p) /\ ClientTypes
  BY DEF AnswersAccounted, Accounted, PhasesSound, TypeOK, ClientTypes
<1>m. /\ p \in asked => p \in asked'
      /\ p \in late => p \in late'
      /\ closing => closing'
      /\ loopClosed => loopClosed'
  BY Lasting
<1>1. ASSUME answer'[p] = answer[p], result'[p] = result[p] PROVE Accounted(p)'
  BY <1>0, <1>1, <1>m DEF Accounted
<1>2. Failed("cancelled") # Failed("timed_out") /\ \A e \in {"cancelled", "timed_out"} : Failed("limit_exceeded") # Failed(e)
  BY DEF Failed
<1>3. ASSUME NEW q \in Queries, Check(q) PROVE Accounted(p)'
  <2>1. p = q => result[p] = None
    BY <1>0, <1>3, Zenon DEF Check, Phased
  <2>2. CASE p # q \/ answer' = answer
    <3>1. answer'[p] = answer[p] /\ result'[p] = result[p]
      BY <1>0, <1>3, <2>2 DEF Check, Answer, ClientTypes
    <3> QED  BY <1>1, <3>1
  <2>3. CASE p = q /\ answer' # answer
    BY <1>0, <1>2, <1>3, <1>m, <2>1, <2>3 DEF Check, Answer, ClientTypes, Accounted
  <2> QED  BY <2>2, <2>3
<1>4. ASSUME NEW q \in Queries, Enqueue(q) PROVE Accounted(p)'
  <2>1. p = q => result[p] = None
    BY <1>0, <1>4, Zenon DEF Enqueue, Phased
  <2>2. CASE Refused(q)
    BY <1>0, <1>2, <1>m, <2>1, <2>2 DEF Refused, ClientTypes, Accounted
  <2>3. ASSUME NEW kept \in Pruned, TurnedAway(q, kept) PROVE Accounted(p)'
    BY <1>0, <1>2, <1>m, <2>1, <2>3 DEF TurnedAway, ClientTypes, Accounted
  <2>4. ASSUME NEW kept \in Pruned, Admitted(q, kept) PROVE Accounted(p)'
    BY <1>1, <2>4 DEF Admitted
  <2> QED  BY <1>4, <2>2, <2>3, <2>4, EnqueueEffect
<1>5. ASSUME NEW q \in Queries, Decide(q) PROVE Accounted(p)'
  <2>1. CASE p # q
    <3>1. answer'[p] = answer[p] /\ result'[p] = result[p]
      BY <1>0, <1>5, <2>1 DEF Decide, ClientTypes
    <3> QED  BY <1>1, <3>1
  <2>2. CASE p = q
    <3>1. answer'[p] = Decision(p) /\ result'[p] = result[p] /\ phase[p] = "woken"
      BY <1>0, <1>5, <2>2 DEF Decide, ClientTypes
    <3> QED  BY <1>m, <3>1, DecisionDue, Zenon DEF Accounted
  <2> QED  BY <2>1, <2>2
<1>6. ASSUME NEW q \in Queries,
             Wake(q) \/ Unlock(q) \/ Leave(q) \/ RequestStop(q) \/ Flag(q) \/ Complete(q) \/ Expire(q)
      PROVE  Accounted(p)'
  BY <1>1, <1>6, Zenon DEF Wake, Unlock, Leave, RequestStop, Flag, Complete, Expire
<1>7. ASSUME NEW w \in Workers, Thread(w) PROVE Accounted(p)'
  <2>0. answer' = answer
    BY <1>7, ThreadEffect
  <2>1. CASE result'[p] = result[p]
    BY <1>1, <2>0, <2>1, Zenon
  <2>2. ASSUME NEW q \in Queries \cup {Idle}, Published(w, q), result'[p] # result[p] PROVE Accounted(p)'
    <3>1. p = q /\ Wanted(q) /\ worker[w].job = q /\ worker[w].at \in Busy
      BY <1>0, <2>2, Zenon DEF Published, Moves, Busy, ClientTypes
    <3>2. callback[p] # "off" /\ p \notin abandoned
      BY <3>1, JobFacts DEF Wanted
    <3>3. answer[p] = None
      BY <1>0, <3>2 DEF Phased
    <3>4. Failed("cancelled") # None /\ Failed("timed_out") # None
      BY ErrorTypes
    <3> QED  BY <2>0, <3>3, <3>4 DEF Accounted
  <2>3. ASSUME ~\E q \in Queries \cup {Idle} : Published(w, q) PROVE result' = result
    BY <1>7, <2>3, ThreadEffect, Zenon DEF Exited, Took, Dropped, Skipped, Searches, Signalled
  <2> QED  BY <2>1, <2>2, <2>3
<1>8. CASE LoopShutdown \/ Close \/ UNCHANGED vars
  BY <1>1, <1>8, Zenon DEF LoopShutdown, Close, vars
<1> QED  BY <1>3, <1>4, <1>5, <1>6, <1>7, <1>8 DEF Next, Query

\* With results that are sound, that is AnswersAccounted.
LEMMA AccountedAll ==
  ASSUME TypeOK', ResultsSound', \A q \in Queries : Accounted(q)'
  PROVE  AnswersAccounted'
<1> SUFFICES ASSUME NEW q \in Queries
             PROVE  /\ result'[q][1] = "ok" => IsInjective(result'[q][2]) /\ Len(result'[q][2]) \in 1 .. MaxResults
                    /\ result'[q] = Failed("limit_exceeded") => Cardinality(Endpoints) > MaxResults
  BY Zenon DEF AnswersAccounted, Accounted
<1>1. Sized(result'[q]) /\ Due(result'[q]) /\ result'[q] \in Answers
  BY DEF ResultsSound, TypeOK
<1>2. ASSUME result'[q][1] = "ok" PROVE Len(result'[q][2]) \in 1 .. MaxResults
  <2>1. result'[q][2] \in Seq(Endpoints)
    BY <1>1, <1>2, AnswerTypes, Zenon
  <2>2. Len(result'[q][2]) \in Nat
    BY <2>1
  <2>3. Len(result'[q][2]) <= MaxResults /\ Len(result'[q][2]) > 0 /\ MaxResults \in Nat
    BY <1>1, <1>2, OptionsAssumption DEF Sized, Due
  <2> QED  BY <2>2, <2>3
<1> QED  BY <1>1, <1>2, Zenon DEF Sized, Due

-----------------------------------------------------------------------------
(* Sleepers.                                                               *)

\* What NobodyStranded says of one query.
Has(w, q) == worker[w].job = q /\ worker[w].at \in {"check", "lookup", "append", "publish", "signal"}
Served(q) ==
  phase[q] = "waiting" =>
    \/ q \in completion
    \/ Queued(q) /\ ~closing
    \/ \E w \in Workers : Has(w, q)
    \/ callback[q] \in {"begun", "flagged"}

\* Every step leaves a sleeping query somebody to wake it: a job is pruned only after a stop
\* whose callback completes it, a thread lets go of its job only after completing it, and
\* closing completes every job the state knows.
LEMMA ServedStep ==
  ASSUME TypeOK, JobsSound, PhasesSound, CausesSound, ResultsSound, \A q \in Queries : Served(q), [Next]_vars
  PROVE  \A q \in Queries : Served(q)'
<1> SUFFICES ASSUME NEW p \in Queries, phase'[p] = "waiting"
             PROVE  \/ p \in completion'
                    \/ Queued(p)' /\ ~closing'
                    \/ \E w \in Workers : Has(w, p)'
                    \/ callback'[p] \in {"begun", "flagged"}
  BY Zenon DEF Served
<1> USE DEF shared, jobs, clients, world
<1>0. Served(p) /\ Phased(p) /\ Caused(p) /\ ClientTypes
  BY DEF PhasesSound, CausesSound, TypeOK, ClientTypes
<1>m. p \in completion => p \in completion'
  BY Lasting
<1> DEFINE Safe == p \in completion' \/ (Queued(p)' /\ ~closing') \/ (\E w \in Workers : Has(w, p)')
                     \/ callback'[p] \in {"begun", "flagged"}
<1>1. ASSUME phase[p] = "waiting", Queued(p) => Queued(p)' \/ p \in completion' \/ closing,
             closing' => closing \/ (Queued(p) => p \in completion'), UNCHANGED worker,
             callback[p] \in {"begun", "flagged"} => callback'[p] \in {"begun", "flagged"} \/ p \in completion'
      PROVE  Safe
  <2>1. (\E w \in Workers : Has(w, p)) => \E w \in Workers : Has(w, p)'
    BY <1>1 DEF Has
  <2> QED  BY <1>0, <1>1, <1>m, <2>1, Zenon DEF Served
<1>2. ASSUME NEW q \in Queries, Enqueue(q) PROVE Safe
  <2>0. phase[p] = "waiting" /\ Dead(p) => p \in completion \/ callback[p] = "flagged"
    BY <1>0, Zenon DEF Phased, Caused, Dead
  <2>1. CASE Refused(q)
    <3>1. phase[p] = "waiting" /\ (Queued(p) => Queued(p)')
      BY <1>0, <2>1 DEF Refused, ClientTypes, Queued
    <3> QED  BY <1>1, <2>1, <3>1 DEF Refused
  <2>2. ASSUME NEW kept \in Pruned, TurnedAway(q, kept) PROVE Safe
    <3>1. phase[p] = "waiting" /\ UNCHANGED <<closing, worker, callback>>
      BY <1>0, <2>2 DEF TurnedAway, ClientTypes
    <3>2. CASE Dead(p)
      BY <1>m, <2>0, <3>1, <3>2, Zenon
    <3>3. CASE ~Dead(p)
      <4>1. Queued(p) => Queued(p)'
        BY <2>2, <3>3, QueuedKept DEF TurnedAway
      <4> QED  BY <1>1, <3>1, <4>1, Zenon
    <3> QED  BY <3>2, <3>3, Zenon
  <2>3. ASSUME NEW kept \in Pruned, Admitted(q, kept) PROVE Safe
    <3>0. ~closing' /\ UNCHANGED <<closing, worker>>
      BY <2>3 DEF Admitted
    <3>1. CASE p = q
      BY <2>3, <3>0, <3>1, QueuedAdmitted, Zenon
    <3>2. CASE p # q
      <4>1. phase[p] = "waiting" /\ callback'[p] = callback[p]
        BY <1>0, <2>3, <3>2 DEF Admitted, ClientTypes
      <4>2. CASE Dead(p)
        BY <1>m, <2>0, <4>1, <4>2, Zenon
      <4>3. CASE ~Dead(p)
        <5>1. Queued(p) => Queued(p)'
          BY <2>3, <4>3, QueuedAdmitted
        <5> QED  BY <1>1, <3>0, <4>1, <5>1, Zenon
      <4> QED  BY <4>2, <4>3, Zenon
    <3> QED  BY <3>1, <3>2
  <2> QED  BY <1>2, <2>1, <2>2, <2>3, EnqueueEffect
<1>3. ASSUME NEW q \in Queries,
             Check(q) \/ Wake(q) \/ Decide(q) \/ Unlock(q) \/ Leave(q) \/ RequestStop(q) \/ Flag(q) \/ Complete(q) \/ Expire(q)
      PROVE  Safe
  <2>0. (Queued(p) => Queued(p)') /\ UNCHANGED <<closing, worker>>
    BY <1>3, QueueKept, Zenon DEF Queued
  <2>1. phase[p] = "waiting"
    BY <1>0, <1>3, Zenon DEF Check, Answer, Wake, Decide, Unlock, Leave, RequestStop, Flag, Complete, Expire, ClientTypes
  <2>2. callback[p] \in {"begun", "flagged"} => callback'[p] \in {"begun", "flagged"} \/ p \in completion'
    BY <1>0, <1>3, Zenon DEF Check, Wake, Decide, Unlock, Leave, RequestStop, Flag, Complete, Expire, ClientTypes
  <2> QED  BY <1>1, <2>0, <2>1, <2>2, Zenon
<1>4. ASSUME NEW v \in Workers, Thread(v) PROVE Safe
  <2>0. UNCHANGED <<phase, callback>> /\ \A w \in Workers : w # v => worker'[w] = worker[w]
    BY <1>4, ThreadEffect
  <2>1. phase[p] = "waiting"
    BY <2>0
  <2>2. ASSUME Queued(p) /\ ~closing => (Queued(p)' /\ ~closing') \/ \E w \in Workers : Has(w, p)',
               Has(v, p) => Has(v, p)' \/ p \in completion'
        PROVE  Safe
    <3>1. ASSUME NEW w \in Workers, Has(w, p) PROVE Safe
      <4>1. CASE w = v
        BY <2>2, <3>1, <4>1, Zenon
      <4>2. CASE w # v
        <5>1. Has(w, p)'
          BY <2>0, <3>1, <4>2 DEF Has
        <5> QED  BY <5>1, Zenon
      <4> QED  BY <4>1, <4>2, Zenon
    <3>2. CASE ~\E w \in Workers : Has(w, p)
      BY <1>0, <1>m, <2>0, <2>1, <2>2, <3>2, Zenon DEF Served
    <3> QED  BY <3>1, <3>2, Zenon
  <2>3. CASE Exited(v)
    <3>1. ~Has(v, p) /\ (Queued(p) => Queued(p)') /\ UNCHANGED closing
      BY <2>3 DEF Exited, Has, Queued
    <3> QED  BY <2>2, <3>1, Zenon
  <2>4. ASSUME NEW q \in Queries, Took(v, q) PROVE Safe
    <3>1. (Queued(p) => p = q \/ Queued(p)') /\ ~closing' /\ Has(v, q)' /\ ~Has(v, p)
      BY <2>4, QueuedTook, Zenon DEF Took, Has
    <3> QED  BY <2>2, <3>1, Zenon
  <2>5. ASSUME NEW q \in Queries \cup {Idle}, Dropped(v, q) PROVE Safe
    <3>1. ~Has(v, p) /\ (Queued(p) => Queued(p)') /\ UNCHANGED closing
      BY <2>5 DEF Dropped, Has, Queued
    <3> QED  BY <2>2, <3>1, Zenon
  <2>6. ASSUME NEW q \in Queries \cup {Idle}, Skipped(v, q) \/ Searches(v, q) \/ Published(v, q) PROVE Safe
    <3>1. (Has(v, p) => Has(v, p)') /\ (Queued(p) => Queued(p)') /\ UNCHANGED closing
      BY <2>6, Zenon DEF Skipped, Searches, Published, Moves, Has, Queued
    <3> QED  BY <2>2, <3>1, Zenon
  <2>7. ASSUME NEW q \in Queries \cup {Idle}, Signalled(v, q) PROVE Safe
    <3>1. (Has(v, p) => p \in completion') /\ (Queued(p) => Queued(p)') /\ UNCHANGED closing
      BY <2>7 DEF Signalled, Moves, Has, Queued
    <3> QED  BY <2>2, <3>1, Zenon
  <2> QED  BY <1>4, <2>3, <2>4, <2>5, <2>6, <2>7, ThreadEffect, Zenon
<1>5. CASE Close
  <2>1. Queued(p) => p \in completion'
    BY <1>5 DEF Close, Closed, Range, Queued
  <2> QED  BY <1>1, <1>5, <2>1, Zenon DEF Close
<1>6. CASE LoopShutdown \/ UNCHANGED vars
  <2>1. (Queued(p) => Queued(p)') /\ UNCHANGED <<closing, worker, phase, callback>>
    BY <1>6 DEF LoopShutdown, vars, Queued
  <2> QED  BY <1>1, <2>1, Zenon
<1>7. Safe
  BY <1>2, <1>3, <1>4, <1>5, <1>6, Zenon DEF Next, Query
<1> QED  BY <1>7

\* NobodyStranded says this of every query.
LEMMA StrandedServed == NobodyStranded <=> TypeOK /\ \A q \in Queries : Served(q)
<1>1. \A q : q \in Range(queue) <=> Queued(q)
  BY DEF Range, Queued
<1> QED  BY <1>1 DEF NobodyStranded, Served, Has

\* It says it of the next state too.
LEMMA StrandedServedNext == TypeOK' /\ (\A q \in Queries : Served(q)') => NobodyStranded'
<1>1. \A q : q \in Range(queue') <=> Queued(q)'
  BY DEF Range, Queued
<1> QED  BY <1>1, Zenon DEF NobodyStranded, Served, Has

-----------------------------------------------------------------------------
(* The theorems.                                                           *)

\* The resolver starts sound: nothing queued, every thread waiting.
LEMMA InitSound == Init => ResolverInv
<1> SUFFICES ASSUME Init PROVE ResolverInv
  OBVIOUS
<1>0. /\ \A w \in Workers : worker[w].at = "wait" /\ worker[w].job = Idle /\ worker[w].found = None
      /\ \A q \in Queries : /\ phase[q] = "new" /\ callback[q] = "off" /\ verdict[q] = "none"
                            /\ result[q] = None /\ answer[q] = None
  BY DEF Init
<1>1. TypeOK
  <2>1. Cardinality({}) = 0 /\ Cardinality(Workers) \in Nat
    BY FS_EmptySet, FS_CardinalityType, FiniteAssumption
  <2>2. None \in Answers
    BY AnswerTypes
  <2>3. worker \in [Workers -> WorkerType]
    BY <2>2 DEF Init, WorkerType
  <2>4. ClientTypes
    BY <2>2, Zenon DEF Init, ClientTypes
  <2>5. active = {} /\ queue \in Seq(Queries) /\ Len(queue) <= Capacity
    BY OptionsAssumption DEF Init
  <2>6. active \subseteq Queries /\ Cardinality(active) <= Cardinality(Workers)
    BY <2>1, <2>5
  <2> QED  BY <2>3, <2>4, <2>5, <2>6 DEF TypeOK, ClientTypes, WorkerType
<1>2. JobsSound
  <2>1. \A w \in Workers : worker[w].at \notin Busy /\ worker[w].job \notin Queries
    BY <1>0, OptionsAssumption, Zenon DEF Busy
  <2>2. Owned
    BY <2>1 DEF Owned, Init
  <2>3. Lined
    BY DEF Lined, Init
  <2> QED  BY <2>2, <2>3 DEF JobsSound
<1>3. PhasesSound
  <2>1. \A q : ~Queued(q)
    BY DEF Queued, Init
  <2> QED  BY <1>0, <2>1 DEF PhasesSound, Phased, Init
<1>4. CausesSound
  BY <1>0, Zenon DEF CausesSound, Caused, Prompted, Init
<1>5. ResultsSound
  BY <1>0, ErrorsDue, Zenon DEF ResultsSound, Collected
<1>6. AnswersAccounted
  BY <1>0, ErrorTypes, AnswerTypes, Zenon DEF AnswersAccounted
<1>7. NobodyStranded
  BY <1>0, <1>1, Zenon DEF NobodyStranded
<1> QED  BY <1>2, <1>3, <1>4, <1>5, <1>6, <1>7 DEF ResolverInv

\* Every step keeps the invariant.
LEMMA StepSound == ResolverInv /\ [Next]_vars => ResolverInv'
<1> SUFFICES ASSUME ResolverInv, [Next]_vars PROVE ResolverInv'
  OBVIOUS
<1>1. TypeOK /\ JobsSound /\ PhasesSound /\ CausesSound /\ ResultsSound /\ AnswersAccounted
      /\ \A q \in Queries : Served(q)
  BY StrandedServed DEF ResolverInv
<1>2. TypeOK' /\ JobsSound'
  BY <1>1, TypesStep
<1>3. PhasesSound' /\ ResultsSound'
  BY <1>1, PhasesStep, ResultsStep
<1>4. CausesSound'
  BY <1>1, CausesStep, PromptedStep DEF CausesSound
<1>5. AnswersAccounted'
  BY <1>1, <1>2, <1>3, AccountedStep, AccountedAll
<1>6. NobodyStranded'
  BY <1>1, <1>2, ServedStep, StrandedServedNext
<1> QED  BY <1>2, <1>3, <1>4, <1>5, <1>6 DEF ResolverInv

\* The inductive invariant holds.
THEOREM ResolverAlwaysSound == Spec => []ResolverInv
BY InitSound, StepSound, PTL DEF Spec

\* A sleeping query always has somebody who will wake it, whatever the order in which resolve
\* enqueues and prunes, threads take and drop jobs, callers stop and the destructor closes; and
\* the queue and `active` keep within what was reserved for them.
THEOREM SleepersAreServed == Spec => []NobodyStranded
<1>1. ResolverInv => NobodyStranded
  BY DEF ResolverInv
<1> QED  BY <1>1, ResolverAlwaysSound, PTL

\* A pruned queue that is full is full of jobs somebody waits for.
LEMMA FullOfLive ==
  ASSUME TypeOK, JobsSound, NEW kept \in Pruned
  PROVE  Cardinality({p \in Range(queue) : ~Dead(p)}) = Len(kept)
<1> DEFINE live == {p \in Range(queue) : ~Dead(p)}
<1>1. /\ kept \in Seq(Queries) /\ DOMAIN kept = 1 .. Len(kept) /\ Len(kept) \in Nat
      /\ \A j, k \in DOMAIN kept : kept[j] = kept[k] => j = k
      /\ \A k \in DOMAIN kept : \E j \in DOMAIN queue : kept[k] = queue[j] /\ ~Dead(queue[j])
      /\ \A j \in DOMAIN queue : ~Dead(queue[j]) => \E k \in DOMAIN kept : kept[k] = queue[j]
  BY PrunedFacts
<1>2. ASSUME NEW k \in 1 .. Len(kept) PROVE kept[k] \in live
  <2>1. PICK j \in DOMAIN queue : kept[k] = queue[j] /\ ~Dead(queue[j])
    BY <1>1
  <2> QED  BY <2>1 DEF Range
<1>3. ASSUME NEW p \in live PROVE \E k \in 1 .. Len(kept) : kept[k] = p
  <2>1. PICK j \in DOMAIN queue : p = queue[j]
    BY <1>3 DEF Range
  <2>2. ~Dead(queue[j])
    BY <1>3, <2>1
  <2> QED  BY <1>1, <2>1, <2>2
<1>4. kept \in [1 .. Len(kept) -> live]
  BY <1>1, <1>2
<1>5. kept \in Bijection(1 .. Len(kept), live)
  <2>1. kept \in Injection(1 .. Len(kept), live)
    BY <1>1, <1>4, Zenon DEF Injection, IsInjective
  <2>2. kept \in Surjection(1 .. Len(kept), live)
    BY <1>3, <1>4, Zenon DEF Surjection
  <2> QED  BY <2>1, <2>2 DEF Bijection
<1>6. ExistsBijection(1 .. Len(kept), live)
  BY <1>5 DEF ExistsBijection
<1>7. Cardinality(live) = Len(kept)
  BY <1>1, <1>6, FS_CountingElements
<1> QED  BY <1>7

\* A query is turned away only by a queue full of such jobs.
LEMMA RefusalDue ==
  ASSUME TypeOK, JobsSound, PhasesSound, [Next]_vars,
         NEW q \in Queries, phase[q] = "checked", answer'[q] = Failed("limit_exceeded")
  PROVE  Cardinality({p \in Range(queue) : ~Dead(p)}) >= Capacity
<1> USE DEF shared, jobs, clients, world
<1>0. answer[q] = None /\ answer \in [Queries -> Answers] /\ Failed("limit_exceeded") # None
  BY ErrorTypes, Zenon DEF PhasesSound, Phased, TypeOK
<1>1. answer'[q] # answer[q]
  BY <1>0
<1>2. Enqueue(q)
  <2>1. ASSUME NEW p \in Queries, Query(p) PROVE p = q /\ Enqueue(p)
    <3>1. CASE Enqueue(p)
      BY <1>0, <1>1, <3>1, Zenon DEF Enqueue, Answer
    <3>2. CASE Check(p) \/ Decide(p)
      BY <1>0, <1>1, <3>2 DEF Check, Answer, Decide
    <3>3. CASE Wake(p) \/ Unlock(p) \/ Leave(p)
      BY <1>1, <3>3, Zenon DEF Wake, Unlock, Leave
    <3> QED  BY <2>1, <3>1, <3>2, <3>3 DEF Query
  <2>2. ASSUME NEW p \in Queries, RequestStop(p) \/ Flag(p) \/ Complete(p) \/ Expire(p) PROVE FALSE
    BY <1>1, <2>2, Zenon DEF RequestStop, Flag, Complete, Expire
  <2>3. ASSUME NEW w \in Workers, Thread(w) PROVE FALSE
    BY <1>1, <2>3, ThreadEffect, Zenon
  <2>4. CASE LoopShutdown \/ Close \/ UNCHANGED vars
    BY <1>1, <2>4, Zenon DEF LoopShutdown, Close, vars
  <2> QED  BY <2>1, <2>2, <2>3, <2>4, Zenon DEF Next
<1>3. ~Refused(q)
  <2>1. Failed("cancelled") # Failed("limit_exceeded")
    BY DEF Failed
  <2> QED  BY <1>0, <2>1 DEF Refused
<1>4. PICK kept \in Pruned : TurnedAway(q, kept)
  <2>1. PICK kept \in Pruned : Admitted(q, kept) \/ TurnedAway(q, kept)
    BY <1>2, <1>3, EnqueueEffect
  <2>2. ~Admitted(q, kept)
    BY <1>1 DEF Admitted
  <2> QED  BY <2>1, <2>2
<1>5. Len(kept) >= Capacity /\ Cardinality({p \in Range(queue) : ~Dead(p)}) = Len(kept)
  BY <1>4, FullOfLive DEF TurnedAway
<1> QED  BY <1>5

\* What a query returns is due to it: a published result wins over the stop and the deadline that
\* raced it, cancelled and timed_out have happened, a list holds each endpoint once and at most
\* max_results, and limit_exceeded is a queue full of jobs whose queries still wait.
THEOREM AnswersAreEarned == Spec => AnswersAreDue
<1>1. ResolverInv /\ [Next]_vars /\ ResolverInv' =>
        [/\ AnswersAccounted'
         /\ \A q \in Queries : phase[q] = "checked" /\ answer'[q] = Failed("limit_exceeded")
              => Cardinality({p \in Range(queue) : ~Dead(p)}) >= Capacity]_vars
  <2> SUFFICES ASSUME ResolverInv, [Next]_vars, ResolverInv'
               PROVE  /\ AnswersAccounted'
                      /\ \A q \in Queries : phase[q] = "checked" /\ answer'[q] = Failed("limit_exceeded")
                           => Cardinality({p \in Range(queue) : ~Dead(p)}) >= Capacity
    BY Zenon
  <2>1. AnswersAccounted'
    BY DEF ResolverInv
  <2>2. TypeOK /\ JobsSound /\ PhasesSound
    BY DEF ResolverInv, NobodyStranded
  <2>3. ASSUME NEW q \in Queries, phase[q] = "checked", answer'[q] = Failed("limit_exceeded")
        PROVE  Cardinality({p \in Range(queue) : ~Dead(p)}) >= Capacity
    BY <2>2, <2>3, RefusalDue
  <2> QED  BY <2>1, <2>3
<1> QED  BY <1>1, ResolverAlwaysSound, PTL DEF Spec, AnswersAreDue

=============================================================================
