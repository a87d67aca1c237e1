------------------------------- MODULE IocpLoop -------------------------------
(***************************************************************************)
(* The completion-port backend of EventLoop (event_loop_iocp.cpp).  A      *)
(* kernel-backed operation stays in the table until its completion packet  *)
(* is dequeued, because until then the kernel may write into its memory    *)
(* and the caller's buffer; a cancellation or deadline only pins the       *)
(* answer and asks the kernel to hurry.                                    *)
(*                                                                         *)
(* Operation records live at addresses that are reused once freed.  A stop *)
(* callback runs on any thread in two steps, fix_reason under the lock and *)
(* cancel_io after it, and the resumed coroutine waits for a callback that *)
(* is still running (the destructor of std::stop_callback).                *)
(***************************************************************************)
EXTENDS Naturals, FiniteSets

CONSTANTS
  Handles,        \* socket handle values
  NoHandle,
  Addrs,          \* addresses an Operation can be allocated at
  IoRequests,     \* the kernel-backed operations a program may start
  SleepRequests,  \* the sleeps it may start
  Stoppers,       \* threads other than the loop's that request stops
  MaxOps,         \* bound on operation ids handed out
  MaxTime,        \* bound on the clock
  MaxPosted,      \* bound on the posted-work queue
  MaxReopens,     \* bound on how often a handle value is reused
  MaxRefusals,    \* bound on submissions Winsock refuses
  EventBatch      \* kEventBatch: packets one run_once dequeues at most

Ids   == 1 .. MaxOps
Never == MaxTime + 1
Times == 0 .. Never
Loop  == "loop"
Threads == {Loop} \cup Stoppers

IoOps  == [kind : {"io", "accept"}, handle : Handles, stoppable : BOOLEAN,
           wake : {Never}, deadline : Times]
Sleeps == [kind : {"timer"}, handle : {NoHandle}, stoppable : BOOLEAN,
           wake : Times \ {Never}, deadline : Times]

ASSUME BoundsAssumption ==
  /\ MaxOps \in Nat /\ MaxTime \in Nat /\ MaxPosted \in Nat
  /\ MaxReopens \in Nat /\ MaxRefusals \in Nat /\ EventBatch \in Nat \ {0}
ASSUME NamesAssumption == NoHandle \notin Handles /\ Loop \notin Stoppers
ASSUME RequestsAssumption == IoRequests \subseteq IoOps /\ SleepRequests \subseteq Sleeps

VARIABLES
  nextId,     \* next_id_
  op,         \* [Ids -> request]: the Operation records, kept after they resolve
  addr,       \* [Ids -> Addrs]: where each record was allocated
  inc,        \* [Ids -> Nat]: the incarnation of its handle at submission
  live,       \* ids in operations_
  reason,     \* [Ids -> {"none", "cancelled", "timed_out"}]: fixed_reason
  shut,       \* ids with handle_closed set
  timers,     \* timers_: [at, id, cut], ordered by (at, id, cut)
  cancels,    \* pending_cancels_
  posted,     \* posted_: the number of queued callables
  closing,    \* shutting_down_
  now,
  inflight,   \* operations the kernel is working on
  packets,    \* [Ids -> {"none", "ok", "failed"}]: completion packets in the port
  aborting,   \* operations the kernel was asked to cancel
  open,       \* handles that are open
  reopens,    \* [Handles -> Nat]: the incarnation of each handle value
  pc,         \* loop thread: "user", "poll", "classify", "deliver", "resume", "drain" or "dead"
  dequeued,   \* packets taken from the port, not classified yet
  batch,      \* a delivery is in progress below the running coroutine
  todo,       \* results still to hand out
  work,       \* posted work still to run
  resuming,   \* the operation being resumed
  owed,       \* shutdown's count of packets still to dequeue
  calling,    \* [Threads -> [id, handle, addr]]: a stop callback between its two steps
  refusals,   \* submissions refused so far
  answer,     \* [Ids -> answer]: the result slot
  accepted,   \* [Ids -> {"none", "held", "given", "closed"}]: the socket of an accept
  asked,      \* ids something asked to cancel
  hit,        \* operations cancelled through an address that was not theirs any more
  finished    \* operations whose success was dequeued with no answer pinned yet

table   == <<nextId, op, addr, inc, live, reason, shut, timers>>
queues  == <<cancels, posted>>
kernel  == <<inflight, packets, aborting, open, reopens, refusals>>
control == <<pc, dequeued, batch, todo, work, resuming, owed>>
results == <<answer, accepted, asked>>
ghosts  == <<hit, finished>>
vars == <<nextId, op, addr, inc, live, reason, shut, timers, cancels, posted, closing, now,
          inflight, packets, aborting, open, reopens, pc, dequeued, batch, todo, work, resuming, owed,
          calling, refusals, answer, accepted, asked, hit, finished>>

NotCalling == [id |-> 0, handle |-> NoHandle, addr |-> 0]
KernelBacked(i) == op[i].kind # "timer"

Completion == 0
Expiry     == 1
Cancelled  == 2

Entry(i, rank, at, cut, out) ==
  [id |-> i, rank |-> rank, at |-> at, cut |-> cut, out |-> out]

\* The key order of TimerQueue: serials grow with ids, wake-ups come first.
KeyBefore(s, t) ==
  \/ s.at < t.at
  \/ s.at = t.at /\ s.id < t.id
  \/ s.at = t.at /\ s.id = t.id /\ s.cut < t.cut

DeliveredBefore(e, f) ==
  \/ e.rank < f.rank
  \/ e.rank = Expiry /\ f.rank = Expiry /\ KeyBefore(e, f)

TimersOf(i, r) ==
  {t \in {[at |-> r.wake, id |-> i, cut |-> 0], [at |-> r.deadline, id |-> i, cut |-> 1]} :
     t.at # Never}

Init ==
  /\ nextId = 0
  /\ op = [i \in Ids |-> [kind |-> "timer", handle |-> NoHandle, stoppable |-> FALSE,
                          wake |-> Never, deadline |-> Never]]
  /\ addr = [i \in Ids |-> 0] /\ inc = [i \in Ids |-> 0]
  /\ live = {} /\ shut = {} /\ timers = {}
  /\ reason = [i \in Ids |-> "none"]
  /\ cancels = {} /\ posted = 0 /\ closing = FALSE /\ now = 0
  /\ inflight = {} /\ aborting = {}
  /\ packets = [i \in Ids |-> "none"]
  /\ open = Handles
  /\ reopens = [h \in Handles |-> 0]
  /\ pc = "user" /\ dequeued = {} /\ batch = FALSE /\ todo = {} /\ work = 0 /\ resuming = 0 /\ owed = 0
  /\ calling = [t \in Threads |-> NotCalling]
  /\ refusals = 0
  /\ answer = [i \in Ids |-> "none"]
  /\ accepted = [i \in Ids |-> "none"]
  /\ asked = {} /\ hit = {} /\ finished = {}
-----------------------------------------------------------------------------
(* Submission.                                                              *)

LoopAtRest == calling[Loop] = NotCalling
UserRuns == pc = "user" /\ LoopAtRest
Admitted(r) == ~closing /\ nextId < MaxOps /\ now < r.deadline
FreeAddrs == Addrs \ {addr[i] : i \in live}

\* acquire_operation: record and timers under one lock.
Acquire(r, a) ==
  LET i == nextId + 1
  IN  /\ nextId' = i
      /\ op' = [op EXCEPT ![i] = r]
      /\ addr' = [addr EXCEPT ![i] = a]
      /\ live' = live \cup {i}
      /\ timers' = timers \cup TimersOf(i, r)

\* submit_read, submit_write, submit_writev, submit_datagram, submit_accept
\* and submit_connect: even an inline completion is posted to the port.
SubmitIo(r) ==
  LET i == nextId + 1
  IN  /\ UserRuns /\ Admitted(r) /\ r.handle \in open
      /\ \E a \in FreeAddrs : Acquire(r, a)
      /\ inc' = [inc EXCEPT ![i] = reopens[r.handle]]
      /\ inflight' = inflight \cup {i}
      /\ accepted' = [accepted EXCEPT ![i] = IF r.kind = "accept" THEN "held" ELSE "none"]
      /\ UNCHANGED <<reason, shut, queues, closing, now, packets, aborting, open, reopens,
                     control, calling, refusals, answer, asked, ghosts>>

\* Winsock refuses: the record is discarded, an accept's socket closed, and no
\* packet will come.
SubmitRefused(r) ==
  LET i == nextId + 1
  IN  /\ UserRuns /\ Admitted(r) /\ r.handle \in open
      /\ refusals < MaxRefusals /\ refusals' = refusals + 1
      /\ nextId' = i
      /\ op' = [op EXCEPT ![i] = r]
      /\ answer' = [answer EXCEPT ![i] = "error"]
      /\ accepted' = [accepted EXCEPT ![i] = IF r.kind = "accept" THEN "closed" ELSE "none"]
      /\ UNCHANGED <<addr, inc, live, reason, shut, timers, queues, closing, now, inflight, packets,
                     aborting, open, reopens, control, calling, asked, ghosts>>

AddTimer(r) ==
  /\ UserRuns /\ Admitted(r)
  /\ \E a \in FreeAddrs : Acquire(r, a)
  /\ UNCHANGED <<inc, reason, shut, queues, closing, now, kernel, control, calling, results, ghosts>>

-----------------------------------------------------------------------------
(* The kernel.                                                              *)

\* The operation finishes by itself: with success, or with an error.
IoFinishes(i, status) ==
  /\ i \in inflight
  /\ inflight' = inflight \ {i}
  /\ packets' = [packets EXCEPT ![i] = status]
  /\ UNCHANGED <<table, queues, closing, now, aborting, open, reopens, refusals, control, calling,
                 results, ghosts>>

\* CancelIoEx(handle, overlapped): the operations it reaches.
Reached(h, a) == {j \in inflight : op[j].handle = h /\ addr[j] = a
                                     /\ h \in open /\ inc[j] = reopens[h]}

\* Slip: only operations whose handle is gone are cancelled.
Interrupted_ShutOnly(ids) == {i \in inflight \cap ids : i \in shut}

\* Those of ids that the loop itself cancels: a closed handle is left alone.
Interrupted(ids) == {i \in inflight \cap ids : i \notin shut}

-----------------------------------------------------------------------------
(* Cancelling: request_cancel on any thread.                                *)

\* fix_reason applies to a live operation that has no reason yet.
Pinnable(i) == i \in live /\ reason[i] = "none"

\* A pinned answer leaves the deadline nothing to say.
DeadlineDropped(i) == {u \in timers : ~(u.id = i /\ u.cut = 1)}

\* The stop callback's first step.
FixReason(t, i) ==
  /\ IF t = Loop THEN UserRuns ELSE calling[t] = NotCalling
  /\ op[i].stoppable /\ Pinnable(i)
  /\ asked' = asked \cup {i}
  /\ reason' = [reason EXCEPT ![i] = "cancelled"]
  /\ timers' = DeadlineDropped(i)
  /\ calling' = [calling EXCEPT ![t] =
       [id |-> i,
        handle |-> IF KernelBacked(i) /\ i \notin shut THEN op[i].handle ELSE NoHandle,
        addr |-> addr[i]]]
  /\ UNCHANGED <<nextId, op, addr, inc, live, shut, queues, closing, now, kernel, control,
                 answer, accepted, ghosts>>

\* Its second step: cancel_io for a kernel-backed operation, or a queued
\* cancellation and a wake-up for a timer.
CancelIo(t) ==
  LET c == calling[t]
      reached == Reached(c.handle, c.addr)
  IN  /\ c # NotCalling
      /\ calling' = [calling EXCEPT ![t] = NotCalling]
      /\ aborting' = aborting \cup reached
      /\ hit' = hit \cup (reached \ {c.id})
      /\ cancels' = IF KernelBacked(c.id) THEN cancels ELSE cancels \cup {c.id}
      /\ UNCHANGED <<table, posted, closing, now, inflight, packets, open, reopens, refusals, control,
                     results, finished>>

-----------------------------------------------------------------------------
(* Closing a socket, posting, time.                                         *)

\* The operations submitted on this handle value.
On(h) == {i \in live : op[i].handle = h}

\* detach flags and cancels the handle's operations, then the socket is closed.
Close(h) ==
  /\ UserRuns /\ h \in open
  /\ shut' = shut \cup On(h)
  /\ asked' = asked \cup On(h)
  /\ aborting' = aborting \cup {i \in inflight : op[i].handle = h}
  /\ open' = open \ {h}
  /\ UNCHANGED <<nextId, op, addr, inc, live, reason, timers, queues, closing, now, inflight, packets,
                 reopens, refusals, control, calling, answer, accepted, ghosts>>

Reopen(h) ==
  /\ UserRuns /\ ~closing
  /\ h \notin open /\ reopens[h] < MaxReopens
  /\ open' = open \cup {h}
  /\ reopens' = [reopens EXCEPT ![h] = @ + 1]
  /\ UNCHANGED <<table, queues, closing, now, inflight, packets, aborting, refusals, control, calling,
                 results, ghosts>>

Post ==
  /\ ~closing /\ posted < MaxPosted
  /\ posted' = posted + 1
  /\ UNCHANGED <<table, cancels, closing, now, kernel, control, calling, results, ghosts>>

Tick ==
  /\ now < MaxTime
  /\ now' = now + 1
  /\ UNCHANGED <<table, queues, closing, kernel, control, calling, results, ghosts>>
-----------------------------------------------------------------------------
(* run_once.                                                                *)

RunOnce ==
  /\ UserRuns /\ ~batch /\ ~closing
  /\ pc' = "poll"
  /\ UNCHANGED <<table, queues, closing, now, kernel, dequeued, batch, todo, work, resuming, owed, calling,
                 results, ghosts>>

InPort == {i \in Ids : packets[i] # "none"}

\* GetQueuedCompletionStatusEx: as many packets as fit, or none on a timeout.
\* Their operations can still be pinned until they are classified.
Dequeue ==
  /\ pc = "poll"
  /\ \E S \in SUBSET InPort :
       /\ Cardinality(S) <= EventBatch /\ (S = InPort \/ Cardinality(S) = EventBatch)
       /\ dequeued' = S
       /\ finished' = finished \cup {i \in S : packets[i] = "ok" /\ reason[i] = "none"}
  /\ pc' = "classify"
  /\ UNCHANGED <<table, queues, closing, now, kernel, batch, todo, work, resuming, owed, calling,
                 results, hit>>

\* The port reports an error other than a timeout.
DequeueFails ==
  /\ pc = "poll"
  /\ pc' = "user"
  /\ UNCHANGED <<table, queues, closing, now, kernel, dequeued, batch, todo, work, resuming, owed, calling,
                 results, ghosts>>

Expired == {t \in timers : t.at <= now}

\* Deadlines that pin their operation.  For a sleep whose wake-up is due as
\* well both are handed out, in key order.
Overdue == {t.id : t \in {u \in Expired : u.cut = 1 /\ Pinnable(u.id)}}

\* Slip: the deadlines are applied before the packets are looked at.
Outcome_DeadlinesFirst(i) ==
  IF reason[i] # "none" THEN reason[i]
  ELSE IF i \in shut THEN "cancelled"
  ELSE IF i \in Overdue THEN "timed_out"
  ELSE IF packets[i] = "ok" THEN "ok" ELSE "error"

\* Slip: every failed packet is taken for an aborted one.
Outcome_FailedIsCancelled(i) ==
  IF reason[i] # "none" THEN reason[i]
  ELSE IF packets[i] = "ok" /\ i \notin shut THEN "ok" ELSE "cancelled"

\* classify, then fixed_reason_of: a reason pinned earlier wins over the
\* packet, and a closed handle over its status.
Outcome(i) ==
  IF reason[i] # "none" THEN reason[i]
  ELSE IF i \in shut THEN "cancelled"
  ELSE IF packets[i] = "ok" THEN "ok" ELSE "error"

\* Slip: a deadline resolves its operation on the spot, kernel-backed or not.
ResolvableNow_All(t) == t.cut = 0 \/ t.id \in Overdue

\* What an expired timer resolves by itself: a sleep reaching its time, or the
\* deadline of an operation that is owed no packet.
ResolvableNow(t) == t.cut = 0 \/ (t.id \in Overdue /\ ~KernelBacked(t.id))

Batch ==
  {Entry(i, Completion, 0, 0, Outcome(i)) : i \in dequeued}
    \cup {Entry(t.id, Expiry, t.at, t.cut, IF t.cut = 1 THEN "timed_out" ELSE "ok") :
            t \in {u \in Expired : ResolvableNow(u)}}
    \cup {Entry(i, Cancelled, 0, 0, reason[i]) : i \in {j \in cancels \cap live : reason[j] # "none"}}

Collect ==
  /\ pc = "classify"
  /\ packets' = [i \in Ids |-> IF i \in dequeued THEN "none" ELSE packets[i]]
  /\ dequeued' = {}
  /\ todo' = Batch /\ work' = posted
  /\ timers' = timers \ Expired
  /\ reason' = [i \in Ids |-> IF i \in Overdue THEN "timed_out" ELSE reason[i]]
  /\ aborting' = aborting \cup Interrupted(Overdue)
  /\ cancels' = {} /\ posted' = 0
  /\ pc' = "deliver" /\ batch' = TRUE
  /\ UNCHANGED <<nextId, op, addr, inc, live, shut, closing, now, inflight, open, reopens, refusals,
                 resuming, owed, calling, results, ghosts>>

\* The socket an accept was given beforehand is handed over or closed.
Settled(s, out) ==
  IF s # "held" THEN s ELSE IF out = "ok" THEN "given" ELSE "closed"

\* finalize up to the resumption: take erases the record and frees its memory.
Take(e) ==
  /\ pc = "deliver" /\ e \in todo
  /\ \A f \in todo : ~DeliveredBefore(f, e)
  /\ todo' = todo \ {e}
  /\ IF e.id \in live
     THEN /\ live' = live \ {e.id}
          /\ timers' = {t \in timers : t.id # e.id}
          /\ answer' = [answer EXCEPT ![e.id] = e.out]
          /\ accepted' = [accepted EXCEPT ![e.id] = Settled(@, e.out)]
          /\ resuming' = e.id /\ pc' = "resume"
     ELSE UNCHANGED <<live, timers, answer, accepted, resuming, pc>>
  /\ UNCHANGED <<nextId, op, addr, inc, reason, shut, queues, closing, now, kernel, dequeued, batch, work, owed,
                 calling, asked, ghosts>>

\* Slip: the resumed coroutine goes on while its stop callback is running.
CallbackDone_NoWait(i) == TRUE

\* The destructor of the stop callback waits for a call in progress.
CallbackDone(i) == \A t \in Stoppers : calling[t].id # i

Resume ==
  /\ pc = "resume" /\ CallbackDone(resuming)
  /\ pc' = "user" /\ resuming' = 0
  /\ UNCHANGED <<table, queues, closing, now, kernel, dequeued, batch, todo, work, owed, calling, results, ghosts>>

RunPosted ==
  /\ pc = "deliver" /\ todo = {} /\ work > 0
  /\ work' = work - 1 /\ pc' = "user"
  /\ UNCHANGED <<table, queues, closing, now, kernel, dequeued, batch, todo, resuming, owed, calling, results, ghosts>>

Suspend ==
  /\ UserRuns /\ batch
  /\ pc' = "deliver"
  /\ UNCHANGED <<table, queues, closing, now, kernel, dequeued, batch, todo, work, resuming, owed, calling, results,
                 ghosts>>

\* run_once returns; the end of shutdown closes the port.
Return ==
  /\ pc = "deliver" /\ todo = {} /\ work = 0
  /\ batch' = FALSE
  /\ pc' = IF closing THEN "dead" ELSE "user"
  /\ UNCHANGED <<table, queues, closing, now, kernel, dequeued, todo, work, resuming, owed, calling, results, ghosts>>

-----------------------------------------------------------------------------
(* shutdown: pin every answer, ask the kernel to cancel, dequeue one packet *)
(* per kernel-backed operation, and only then resume anyone.                *)

\* The operations counted as owing a packet.
Owing == {i \in live : KernelBacked(i)}

Shutdown ==
  /\ UserRuns /\ ~batch /\ ~closing
  /\ closing' = TRUE
  /\ posted' = 0 /\ cancels' = {}
  /\ asked' = asked \cup {i \in live : reason[i] = "none"}
  /\ reason' = [i \in Ids |-> IF Pinnable(i) THEN "cancelled" ELSE reason[i]]
  /\ todo' = {Entry(i, Cancelled, 0, 0, IF reason[i] = "none" THEN "cancelled" ELSE reason[i]) : i \in live}
  /\ aborting' = aborting \cup Interrupted(live)
  /\ owed' = Cardinality(Owing)
  /\ pc' = "drain" /\ batch' = TRUE
  /\ UNCHANGED <<nextId, op, addr, inc, live, shut, timers, now, inflight, packets, open, reopens,
                 refusals, dequeued, work, resuming, calling, answer, accepted, ghosts>>

DrainOne(i) ==
  /\ pc = "drain" /\ owed > 0
  /\ packets[i] # "none"
  /\ packets' = [packets EXCEPT ![i] = "none"]
  /\ owed' = owed - 1
  /\ UNCHANGED <<table, queues, closing, now, inflight, aborting, open, reopens, refusals, pc, dequeued, batch, todo,
                 work, resuming, calling, results, ghosts>>

Drained ==
  /\ pc = "drain" /\ owed = 0
  /\ pc' = "deliver"
  /\ UNCHANGED <<table, queues, closing, now, kernel, dequeued, batch, todo, work, resuming, owed, calling, results,
                 ghosts>>

Next ==
  \/ \E r \in IoRequests : SubmitIo(r) \/ SubmitRefused(r)
  \/ \E r \in SleepRequests : AddTimer(r)
  \/ \E i \in Ids : IoFinishes(i, "ok") \/ IoFinishes(i, "failed")
  \/ \E t \in Threads, i \in Ids : FixReason(t, i)
  \/ \E t \in Threads : CancelIo(t)
  \/ \E h \in Handles : Close(h) \/ Reopen(h)
  \/ Post \/ Tick
  \/ RunOnce \/ Dequeue \/ DequeueFails \/ Collect
  \/ \E e \in todo : Take(e)
  \/ Resume \/ RunPosted \/ Suspend \/ Return
  \/ Shutdown \/ Drained
  \/ \E i \in Ids : DrainOne(i)

Spec == Init /\ [][Next]_vars

-----------------------------------------------------------------------------
(* Properties.                                                              *)

\* Every field of the loop, the kernel and the callbacks holds a value of its
\* type, and the queue, the clock and the counters stay within their bounds.
TypeOK ==
  /\ nextId \in 0 .. MaxOps
  /\ op \in [Ids -> [kind : {"io", "accept", "timer"}, handle : Handles \cup {NoHandle},
                      stoppable : BOOLEAN, wake : Times, deadline : Times]]
  /\ addr \in [Ids -> Addrs \cup {0}] /\ inc \in [Ids -> 0 .. MaxReopens]
  /\ live \subseteq Ids /\ shut \subseteq Ids
  /\ reason \in [Ids -> {"none", "cancelled", "timed_out"}]
  /\ timers \subseteq [at : Times, id : Ids, cut : {0, 1}]
  /\ cancels \subseteq Ids /\ posted \in 0 .. MaxPosted
  /\ closing \in BOOLEAN /\ now \in 0 .. MaxTime
  /\ inflight \subseteq Ids /\ aborting \subseteq Ids
  /\ packets \in [Ids -> {"none", "ok", "failed"}]
  /\ open \subseteq Handles /\ reopens \in [Handles -> 0 .. MaxReopens]
  /\ pc \in {"user", "poll", "classify", "deliver", "resume", "drain", "dead"}
  /\ dequeued \subseteq Ids /\ batch \in BOOLEAN
  /\ todo \subseteq [id : Ids, rank : {Completion, Expiry, Cancelled}, at : Times, cut : {0, 1},
                     out : {"ok", "timed_out", "cancelled", "error"}]
  /\ work \in 0 .. MaxPosted /\ resuming \in Ids \cup {0} /\ owed \in 0 .. MaxOps
  /\ calling \in [Threads -> [id : Ids \cup {0}, handle : Handles \cup {NoHandle}, addr : Addrs \cup {0}]]
  /\ refusals \in 0 .. MaxRefusals
  /\ answer \in [Ids -> {"none", "ok", "timed_out", "cancelled", "error"}]
  /\ accepted \in [Ids -> {"none", "held", "given", "closed"}]
  /\ asked \subseteq Ids /\ hit \subseteq Ids /\ finished \subseteq Ids

\* The table holds exactly what it has to.  No record is freed and no coroutine runs on while
\* the kernel may still write into the operation's memory or the caller's buffer; and a record
\* that is kept is in the kernel's hands, in the delivery, or a sleep its wake-up will resolve.
\* Shutdown dequeues exactly as many packets as the kernel still owes, so that it neither waits
\* for one that never comes nor frees memory early.
TableIsExact ==
  /\ TypeOK
  /\ \A i \in Ids : i \in inflight \/ packets[i] # "none" => i \in live
  /\ \A i \in live :
       \/ i \in inflight \/ packets[i] # "none"
       \/ \E e \in todo : e.id = i
       \/ ~KernelBacked(i) /\ [at |-> op[i].wake, id |-> i, cut |-> 0] \in timers
  /\ pc = "drain" => owed = Cardinality({i \in Ids : i \in inflight \/ packets[i] # "none"})

\* A stop callback that is between its two steps when its operation finishes
\* and its memory is reused never cancels the operation living there now.
CancelsOnlyItsOwn == hit = {}

\* Whoever pins an answer also gets the kernel to hurry: an operation in flight
\* that was cancelled, timed out or closed under has been cancelled in the
\* kernel, unless the stop callback that will do so is still running.
KernelIsAsked ==
  \A i \in inflight : reason[i] # "none" \/ i \in shut =>
    i \in aborting \/ \E t \in Threads : calling[t].id = i

\* A success dequeued in the same run_once that finds the deadline passed is reported as a
\* success, unless someone asked for the cancellation; and the socket AcceptEx needed
\* beforehand is handed over when the accept succeeds and closed when it does not.
CompletionBeatsDeadline ==
  /\ \A i \in finished \ asked : answer[i] \in {"none", "ok"}
  /\ \A i \in Ids : op[i].kind = "accept" /\ answer[i] # "none" =>
       accepted[i] = IF answer[i] = "ok" THEN "given" ELSE "closed"

Contract == INSTANCE OperationContract WITH
  phase <- [i \in Ids |-> IF answer[i] # "none" THEN answer[i]
                          ELSE IF i <= nextId THEN "pending" ELSE "unused"],
  late  <- {i \in Ids : i <= nextId /\ op[i].deadline <= now}

\* The backend keeps the contract of event_loop.hpp: each operation is
\* answered once, and cancelled or timed out only with cause.
KeepsContract == Contract!ContractSpec
=============================================================================
