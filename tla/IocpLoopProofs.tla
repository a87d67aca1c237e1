---------------------------- MODULE IocpLoopProofs ----------------------------
(***************************************************************************)
(* Proofs about IocpLoop, for any handles, addresses, requests, stopping   *)
(* threads and bounds.                                                     *)
(***************************************************************************)
EXTENDS IocpLoop, FiniteSetTheorems, TLAPS
USE DEF Never, Loop

OpType == [kind : {"io", "accept", "timer"}, handle : Handles \cup {NoHandle},
           stoppable : BOOLEAN, wake : Times, deadline : Times]
TimerType == [at : Times, id : Ids, cut : {0, 1}]
OutType == {"ok", "timed_out", "cancelled", "error"}
EntryType == [id : Ids, rank : {Completion, Expiry, Cancelled}, at : Times, cut : {0, 1}, out : OutType]
CallType == [id : Ids \cup {0}, handle : Handles \cup {NoHandle}, addr : Addrs \cup {0}]

\* Operations the kernel has, or has left a packet for.
Outstanding == {i \in Ids : i \in inflight \/ packets[i] # "none"}

InTodo(i) == \E e \in todo : e.id = i

WakeTimer(i) == [at |-> op[i].wake, id |-> i, cut |-> 0]

\* Where control can be: packets are held between poll and classification
\* only, results only during a delivery, and the loop thread runs its own stop
\* callbacks inside a coroutine.
ControlSound ==
  /\ pc # "classify" => dequeued = {}
  /\ \A i \in dequeued : packets[i] # "none"
  /\ ~batch => todo = {}
  /\ pc \in {"poll", "classify"} => ~batch /\ ~closing
  /\ pc \in {"deliver", "resume", "drain"} => batch
  /\ pc = "drain" => closing
  /\ calling[Loop] # NotCalling => pc = "user"

\* Identities are handed out in order and whatever mentions one was submitted;
\* a record in the table has no answer yet, and timers belong to records.
RecordsSound ==
  /\ \A i \in Ids : i <= nextId => op[i] \in IoOps \cup Sleeps
  /\ \A i \in Ids : nextId < i => reason[i] = "none" /\ answer[i] = "none"
  /\ \A i \in live : i <= nextId
  /\ \A i \in shut : i <= nextId
  /\ \A i \in cancels : i <= nextId
  /\ \A i \in finished : i <= nextId
  /\ \A e \in todo : e.id <= nextId
  /\ \A i \in live : answer[i] = "none"
  /\ \A t \in timers : t.id \in live /\ t \in TimersOf(t.id, op[t.id])

\* The table against the kernel.
KernelSound ==
  /\ \A i \in inflight : packets[i] = "none"
  /\ \A i \in Outstanding : i \in live /\ KernelBacked(i)
  /\ \A i \in cancels : ~KernelBacked(i)
  /\ pc # "drain" => \A e \in todo : e.id \notin Outstanding
  /\ \A i \in live : i \in Outstanding \/ InTodo(i) \/ (~KernelBacked(i) /\ WakeTimer(i) \in timers)
  /\ pc = "drain" => owed = Cardinality(Outstanding) /\ \A i \in live : InTodo(i)

\* Records whose address is not up for reuse: those in the table, and the one
\* whose coroutine has not got past its stop callback.
Held == live \cup (IF pc = "resume" THEN {resuming} ELSE {})

\* A stop callback in progress keeps its operation's address.
CallbacksSound ==
  /\ \A i, j \in Held : addr[i] = addr[j] => i = j
  /\ pc = "resume" => resuming \in Ids \ live /\ resuming <= nextId
  /\ \A t \in Threads : calling[t] # NotCalling =>
       calling[t].id \in Held /\ calling[t].addr = addr[calling[t].id]
  /\ calling[Loop] # NotCalling => calling[Loop].id \in live
  /\ hit = {}

\* An operation that was not closed under has its handle, and the callback that
\* stops it knows it.
HandlesSound ==
  /\ \A i \in live : KernelBacked(i) /\ i \notin shut =>
       op[i].handle \in open /\ inc[i] = reopens[op[i].handle]
  /\ \A i \in inflight \cap shut : i \in aborting
  /\ \A t \in Threads :
       calling[t] # NotCalling /\ KernelBacked(calling[t].id) /\ calling[t].id \notin shut
         => calling[t].handle = op[calling[t].id].handle
  /\ KernelIsAsked

\* Sets of operations can be counted; OperationsCount proves it of any bound.
Counting ==
  \A S \in SUBSET Ids :
    /\ Cardinality(S) \in 0 .. MaxOps /\ (Cardinality(S) = 0 => S = {})
    /\ \A i \in S : Cardinality(S \ {i}) = Cardinality(S) - 1

-----------------------------------------------------------------------------
(* Types.                                                                  *)

\* A wake-up is no deadline, and no callback in progress is about nobody.
LEMMA FieldFacts ==
  /\ \A j : WakeTimer(j).cut # 1
  /\ NotCalling.id \notin Ids
  BY DEF WakeTimer, NotCalling, Ids

\* What a program may submit is a well-formed record.
LEMMA RequestTypes ==
  /\ \A r \in IoRequests : r \in IoOps /\ r \in OpType
  /\ \A r \in SleepRequests : r \in Sleeps /\ r \in OpType
<1>1. Never \in Times
  BY BoundsAssumption DEF Times
<1>2. IoOps \subseteq OpType
  BY <1>1, SMTT(40) DEF IoOps, OpType
<1>3. Sleeps \subseteq OpType
  BY Zenon DEF Sleeps, OpType
<1> QED  BY <1>2, <1>3, RequestsAssumption

\* acquire_operation numbers a submission and puts a well-formed record, with
\* well-formed timers, in operations_.
LEMMA AcquireTypes ==
  ASSUME TypeOK, NEW r \in OpType, NEW a \in FreeAddrs, Admitted(r), Acquire(r, a)
  PROVE  /\ nextId' \in 0 .. MaxOps /\ nextId + 1 \in Ids
         /\ op' \in [Ids -> OpType] /\ addr' \in [Ids -> Addrs \cup {0}]
         /\ live' \subseteq Ids /\ timers' \subseteq TimerType
<1>1. nextId + 1 \in Ids /\ nextId' \in 0 .. MaxOps
  BY BoundsAssumption DEF TypeOK, Ids, Acquire, Admitted
<1>2. TimersOf(nextId + 1, r) \subseteq TimerType
  BY <1>1 DEF TimersOf, TimerType, OpType
<1>3. op' \in [Ids -> OpType]
  BY Zenon DEF TypeOK, Acquire, OpType
<1>4. addr' \in [Ids -> Addrs \cup {0}]
  BY Zenon DEF TypeOK, Acquire, FreeAddrs
<1> QED  BY <1>1, <1>2, <1>3, <1>4 DEF TypeOK, Acquire, TimerType

\* run_once's batch and shutdown's are well-formed results.
LEMMA BatchTypes ==
  ASSUME TypeOK, RecordsSound
  PROVE  /\ Batch \subseteq EntryType
         /\ {Entry(i, Cancelled, 0, 0, IF reason[i] = "none" THEN "cancelled" ELSE reason[i]) : i \in live}
              \subseteq EntryType
<1> USE DEF Entry, EntryType, OutType, Completion, Expiry, Cancelled
<1>1. 0 \in Times
  BY BoundsAssumption DEF Times
<1>2. {Entry(i, Completion, 0, 0, Outcome(i)) : i \in dequeued} \subseteq EntryType
  BY <1>1 DEF TypeOK, Outcome
<1>3. {Entry(t.id, Expiry, t.at, t.cut, IF t.cut = 1 THEN "timed_out" ELSE "ok") :
         t \in {u \in Expired : ResolvableNow(u)}} \subseteq EntryType
  BY DEF TypeOK, Expired
<1>4. {Entry(i, Cancelled, 0, 0, reason[i]) : i \in {j \in cancels \cap live : reason[j] # "none"}}
        \subseteq EntryType
  BY <1>1 DEF TypeOK
<1>5. {Entry(i, Cancelled, 0, 0, IF reason[i] = "none" THEN "cancelled" ELSE reason[i]) : i \in live}
        \subseteq EntryType
  BY <1>1 DEF TypeOK
<1> QED  BY <1>2, <1>3, <1>4, <1>5 DEF Batch

\* The freshly constructed Impl is well typed.
LEMMA TypeInit == Init => TypeOK
<1> SUFFICES ASSUME Init PROVE TypeOK
  OBVIOUS
<1>1. op \in [Ids -> OpType]
  BY BoundsAssumption DEF Init, OpType, Times
<1>2. /\ inc \in [Ids -> 0 .. MaxReopens] /\ reopens \in [Handles -> 0 .. MaxReopens]
      /\ posted \in 0 .. MaxPosted /\ refusals \in 0 .. MaxRefusals /\ owed \in 0 .. MaxOps
      /\ nextId \in 0 .. MaxOps /\ now \in 0 .. MaxTime /\ work \in 0 .. MaxPosted
  BY BoundsAssumption DEF Init
<1>3. addr \in [Ids -> Addrs \cup {0}] /\ calling \in [Threads -> CallType]
  BY DEF Init, NotCalling, CallType
<1>4. /\ reason \in [Ids -> {"none", "cancelled", "timed_out"}]
      /\ packets \in [Ids -> {"none", "ok", "failed"}]
      /\ answer \in [Ids -> {"none", "ok", "timed_out", "cancelled", "error"}]
      /\ accepted \in [Ids -> {"none", "held", "given", "closed"}]
  BY DEF Init
<1> QED  BY <1>1, <1>2, <1>3, <1>4, ZenonT(40) DEF Init, TypeOK, OpType, CallType

\* Every entry point, stop callback, kernel step and delivery step keeps the types.
LEMMA TypeStep == Counting /\ TypeOK /\ RecordsSound /\ CallbacksSound /\ [Next]_vars => TypeOK'
<1> SUFFICES ASSUME Counting, TypeOK, RecordsSound, CallbacksSound, [Next]_vars PROVE TypeOK'
  BY Zenon
<1> USE DEF table, queues, kernel, control, results, ghosts
<1>1. ASSUME NEW r \in IoRequests, SubmitIo(r) PROVE TypeOK'
  <2>1. r \in OpType /\ r.handle \in Handles
    BY RequestTypes DEF IoOps
  <2>2. PICK a \in FreeAddrs : Acquire(r, a)
    BY <1>1, Zenon DEF SubmitIo
  <2>3. Admitted(r)
    BY <1>1, Zenon DEF SubmitIo
  <2>4. /\ nextId' \in 0 .. MaxOps /\ nextId + 1 \in Ids
        /\ op' \in [Ids -> OpType] /\ addr' \in [Ids -> Addrs \cup {0}]
        /\ live' \subseteq Ids /\ timers' \subseteq TimerType
    BY <2>1, <2>2, <2>3, AcquireTypes, Zenon
  <2>5. inc' \in [Ids -> 0 .. MaxReopens]
    BY <1>1, <2>1, <2>4, Zenon DEF SubmitIo, TypeOK
  <2>6. accepted' \in [Ids -> {"none", "held", "given", "closed"}] /\ inflight' \subseteq Ids
    BY <1>1, <2>4, Zenon DEF SubmitIo, TypeOK
  <2> QED  BY <1>1, <2>4, <2>5, <2>6 DEF SubmitIo, TypeOK, OpType, TimerType
<1>2. ASSUME NEW r \in IoRequests, SubmitRefused(r) PROVE TypeOK'
  <2>1. r \in OpType
    BY RequestTypes, Zenon
  <2>2. nextId' \in 0 .. MaxOps /\ nextId + 1 \in Ids /\ refusals' \in 0 .. MaxRefusals
    BY <1>2, BoundsAssumption DEF SubmitRefused, Admitted, TypeOK, Ids
  <2>3. op' \in [Ids -> OpType]
    BY <1>2, <2>1, Zenon DEF SubmitRefused, TypeOK, OpType
  <2>4. /\ answer' \in [Ids -> {"none", "ok", "timed_out", "cancelled", "error"}]
        /\ accepted' \in [Ids -> {"none", "held", "given", "closed"}]
    BY <1>2, Zenon DEF SubmitRefused, TypeOK
  <2> QED  BY <1>2, <2>2, <2>3, <2>4 DEF SubmitRefused, TypeOK, OpType
<1>3. ASSUME NEW r \in SleepRequests, AddTimer(r) PROVE TypeOK'
  <2>1. PICK a \in FreeAddrs : Acquire(r, a)
    BY <1>3 DEF AddTimer
  <2>2. /\ nextId' \in 0 .. MaxOps
        /\ op' \in [Ids -> OpType] /\ addr' \in [Ids -> Addrs \cup {0}]
        /\ live' \subseteq Ids /\ timers' \subseteq TimerType
    BY <1>3, <2>1, RequestTypes, AcquireTypes, Zenon DEF AddTimer
  <2> QED  BY <1>3, <2>2 DEF AddTimer, TypeOK, OpType, TimerType
<1>4. ASSUME NEW i \in Ids, IoFinishes(i, "ok") \/ IoFinishes(i, "failed") PROVE TypeOK'
  BY <1>4 DEF IoFinishes, TypeOK
<1>5. ASSUME NEW t \in Threads, NEW i \in Ids, FixReason(t, i) PROVE TypeOK'
  <2>1. op[i].handle \in Handles \cup {NoHandle} /\ addr[i] \in Addrs \cup {0}
    BY Zenon DEF TypeOK
  <2>2. calling' \in [Threads -> CallType]
    BY <1>5, <2>1, Zenon DEF FixReason, TypeOK, CallType
  <2>3. reason' \in [Ids -> {"none", "cancelled", "timed_out"}] /\ timers' \subseteq TimerType /\ asked' \subseteq Ids
    BY <1>5, Zenon DEF FixReason, TypeOK, DeadlineDropped, TimerType
  <2> QED  BY <1>5, <2>2, <2>3, Zenon DEF FixReason, TypeOK, CallType, TimerType
<1>6. ASSUME NEW t \in Threads, CancelIo(t) PROVE TypeOK'
  <2>1. NotCalling \in CallType
    BY Zenon DEF NotCalling, CallType
  <2>2. calling' \in [Threads -> CallType]
    BY <1>6, <2>1, Zenon DEF CancelIo, TypeOK, CallType
  <2>3. Reached(calling[t].handle, calling[t].addr) \subseteq Ids
    BY DEF TypeOK, Reached
  <2>0. calling[t].id \in Ids
    <3>1. calling[t].id \in Held
      BY <1>6, Zenon DEF CancelIo, CallbacksSound
    <3> QED  BY <3>1, ZenonT(40) DEF Held, CallbacksSound, TypeOK
  <2>4. aborting' \subseteq Ids /\ hit' \subseteq Ids
    BY <1>6, <2>3, Zenon DEF CancelIo, TypeOK
  <2>5. cancels' \subseteq Ids
    BY <1>6, <2>0, Zenon DEF CancelIo, TypeOK
  <2> QED  BY <1>6, <2>2, <2>4, <2>5, Zenon DEF CancelIo, TypeOK, CallType
<1>7. ASSUME NEW h \in Handles, Close(h) PROVE TypeOK'
  BY <1>7, Zenon DEF Close, On, TypeOK
<1>8. ASSUME NEW h \in Handles, Reopen(h) PROVE TypeOK'
  <2>1. reopens' \in [Handles -> 0 .. MaxReopens]
    BY <1>8, BoundsAssumption DEF Reopen, TypeOK
  <2> QED  BY <1>8, <2>1, Zenon DEF Reopen, TypeOK
<1>9. CASE Post
  BY <1>9, BoundsAssumption DEF Post, TypeOK
<1>10. CASE Tick
  BY <1>10, BoundsAssumption DEF Tick, TypeOK
<1>11. CASE RunOnce \/ DequeueFails \/ Suspend \/ Return \/ Drained
  BY <1>11, ZenonT(40) DEF RunOnce, DequeueFails, Suspend, Return, Drained, TypeOK
<1>12. CASE Dequeue
  <2>1. dequeued' \subseteq Ids /\ finished' \subseteq Ids
    BY <1>12 DEF Dequeue, InPort, TypeOK
  <2> QED  BY <1>12, <2>1 DEF Dequeue, TypeOK
<1>13. CASE Collect
  <2>1. todo' \subseteq EntryType
    BY <1>13, BatchTypes, Zenon DEF Collect
  <2>2. Overdue \subseteq Ids
    BY DEF Overdue, Expired, TypeOK
  <2>3. /\ packets' \in [Ids -> {"none", "ok", "failed"}]
        /\ reason' \in [Ids -> {"none", "cancelled", "timed_out"}]
    BY <1>13, Zenon DEF Collect, TypeOK
  <2>4. aborting' \subseteq Ids /\ timers' \subseteq TimerType
    BY <1>13, <2>2, Zenon DEF Collect, Interrupted, TypeOK, TimerType
  <2>5. posted' \in 0 .. MaxPosted /\ work' \in 0 .. MaxPosted
    BY <1>13, BoundsAssumption DEF Collect, TypeOK
  <2> QED  BY <1>13, <2>1, <2>3, <2>4, <2>5, Zenon DEF Collect, TypeOK, EntryType, OutType, TimerType
<1>14. ASSUME NEW e \in todo, Take(e) PROVE TypeOK'
  <2>1. e.id \in Ids /\ e.out \in OutType
    BY DEF TypeOK, OutType
  <2>2. CASE e.id \in live
    <3>1. /\ live' \subseteq Ids /\ timers' \subseteq TimerType /\ resuming' \in Ids \cup {0}
          /\ pc' = "resume" /\ todo' \subseteq EntryType
      BY <1>14, <2>1, <2>2, ZenonT(40) DEF Take, TypeOK, TimerType, EntryType, OutType
    <3>2. answer' \in [Ids -> {"none", "ok", "timed_out", "cancelled", "error"}]
      BY <1>14, <2>1, <2>2, Zenon DEF Take, TypeOK, OutType
    <3>3. accepted' \in [Ids -> {"none", "held", "given", "closed"}]
      BY <1>14, <2>1, <2>2 DEF Take, TypeOK, Settled
    <3> QED  BY <1>14, <3>1, <3>2, <3>3, ZenonT(40) DEF Take, TypeOK, TimerType, EntryType, OutType
  <2>3. CASE e.id \notin live
    BY <1>14, <2>3, ZenonT(40) DEF Take, TypeOK
  <2> QED  BY <2>2, <2>3, Zenon
<1>15. CASE Resume
  BY <1>15, Zenon DEF Resume, TypeOK
<1>16. CASE RunPosted
  BY <1>16, BoundsAssumption DEF RunPosted, TypeOK
<1>17. CASE Shutdown
  <2>1. todo' \subseteq EntryType
    BY <1>17, BatchTypes, Zenon DEF Shutdown
  <2>2. owed' \in 0 .. MaxOps
    <3>1. Owing \in SUBSET Ids
      BY Zenon DEF Owing, TypeOK
    <3> QED  BY <1>17, <3>1, Zenon DEF Shutdown, Counting
  <2>3. reason' \in [Ids -> {"none", "cancelled", "timed_out"}]
    BY <1>17, Zenon DEF Shutdown, TypeOK
  <2>4. asked' \subseteq Ids /\ aborting' \subseteq Ids /\ posted' \in 0 .. MaxPosted
    BY <1>17, BoundsAssumption DEF Shutdown, Interrupted, TypeOK
  <2> QED  BY <1>17, <2>1, <2>2, <2>3, <2>4, ZenonT(40) DEF Shutdown, TypeOK, EntryType, OutType
<1>18. ASSUME NEW i \in Ids, DrainOne(i) PROVE TypeOK'
  <2>1. owed' \in 0 .. MaxOps
    BY <1>18, BoundsAssumption DEF DrainOne, TypeOK
  <2> QED  BY <1>18, <2>1, ZenonT(40) DEF DrainOne, TypeOK
<1>19. CASE UNCHANGED vars
  BY <1>19, Zenon DEF vars, TypeOK
<1> QED
  BY ZenonT(40), <1>1, <1>2, <1>3, <1>4, <1>5, <1>6, <1>7, <1>8, <1>9, <1>10, <1>11, <1>12, <1>13, <1>14, <1>15,
     <1>16, <1>17, <1>18, <1>19 DEF Next

-----------------------------------------------------------------------------
(* Control and records.                                                    *)

\* A new loop has no records and runs nothing.
LEMMA BaseInit == Init => ControlSound /\ RecordsSound
<1> SUFFICES ASSUME Init PROVE ControlSound /\ RecordsSound
  BY Zenon
<1>1. \A i \in Ids : ~(i <= nextId)
  BY BoundsAssumption DEF Init, Ids
<1>2. calling[Loop] = NotCalling
  BY Zenon DEF Init, Threads
<1> QED  BY <1>1, <1>2 DEF Init, ControlSound, RecordsSound

\* Every step keeps control in order.
LEMMA ControlStep == TypeOK /\ ControlSound /\ [Next]_vars => ControlSound'
<1> SUFFICES ASSUME TypeOK, ControlSound, [Next]_vars PROVE ControlSound'
  OBVIOUS
<1> USE DEF table, queues, kernel, control, results, ghosts
<1>1. ASSUME UNCHANGED <<pc, dequeued, batch, todo, closing, calling, packets>> PROVE ControlSound'
  BY <1>1, Zenon DEF ControlSound
<1>2. ASSUME NEW r \in IoRequests, SubmitIo(r) \/ SubmitRefused(r) PROVE ControlSound'
  BY <1>1, <1>2 DEF SubmitIo, SubmitRefused
<1>3. ASSUME NEW r \in SleepRequests, AddTimer(r) PROVE ControlSound'
  BY <1>1, <1>3, Zenon DEF AddTimer
<1>4. ASSUME NEW i \in Ids, IoFinishes(i, "ok") \/ IoFinishes(i, "failed") PROVE ControlSound'
  <2>1. \A j \in Ids : packets[j] # "none" => packets'[j] # "none"
    BY <1>4, Zenon DEF IoFinishes, TypeOK
  <2>2. UNCHANGED <<pc, dequeued, batch, todo, closing, calling>> /\ dequeued \subseteq Ids
    BY <1>4, Zenon DEF IoFinishes, TypeOK
  <2> QED  BY <2>1, <2>2 DEF ControlSound
<1>5. ASSUME NEW t \in Threads, NEW i \in Ids, FixReason(t, i) PROVE ControlSound'
  <2>1. t = Loop => pc = "user"
    BY <1>5, Zenon DEF FixReason, UserRuns
  <2>2. t # Loop => calling'[Loop] = calling[Loop]
    BY <1>5, Zenon DEF FixReason, TypeOK, Threads
  <2> QED  BY <1>5, <2>1, <2>2, Zenon DEF FixReason, ControlSound
<1>6. ASSUME NEW t \in Threads, CancelIo(t) PROVE ControlSound'
  <2>1. calling'[Loop] = calling[Loop] \/ calling'[Loop] = NotCalling
    BY <1>6 DEF CancelIo, TypeOK, Threads
  <2> QED  BY <1>6, <2>1, Zenon DEF CancelIo, ControlSound
<1>7. ASSUME NEW h \in Handles, Close(h) \/ Reopen(h) PROVE ControlSound'
  BY <1>1, <1>7, Zenon DEF Close, Reopen
<1>8. CASE Post \/ Tick \/ UNCHANGED vars
  BY <1>1, <1>8, Zenon DEF Post, Tick, vars
<1>9. CASE RunOnce \/ Suspend
  BY <1>9 DEF RunOnce, Suspend, UserRuns, LoopAtRest, ControlSound
<1>10. CASE Dequeue
  BY <1>10 DEF Dequeue, InPort, ControlSound
<1>11. CASE DequeueFails \/ Resume \/ RunPosted \/ Drained
  BY <1>11, Zenon DEF DequeueFails, Resume, RunPosted, Drained, ControlSound
<1>12. CASE Return
  BY <1>12, Zenon DEF Return, ControlSound
<1>13. CASE Collect
  BY <1>13 DEF Collect, ControlSound
<1>14. ASSUME NEW e \in todo, Take(e) PROVE ControlSound'
  BY <1>14, Zenon DEF Take, ControlSound
<1>15. CASE Shutdown
  BY <1>15, Zenon DEF Shutdown, UserRuns, LoopAtRest, ControlSound
<1>16. ASSUME NEW i \in Ids, DrainOne(i) PROVE ControlSound'
  BY <1>16, Zenon DEF DrainOne, ControlSound
<1> QED
  BY <1>2, <1>3, <1>4, <1>5, <1>6, <1>7, <1>8, <1>9, <1>10, <1>11, <1>12, <1>13, <1>14, <1>15, <1>16, Zenon
  DEF Next

\* A submission is numbered anew and changes no older record.
LEMMA AcquireFacts ==
  ASSUME TypeOK, NEW r \in OpType, NEW a \in FreeAddrs, Admitted(r), Acquire(r, a)
  PROVE  /\ nextId \in Nat /\ nextId + 1 \in Ids /\ nextId' = nextId + 1
         /\ nextId < nextId + 1 /\ nextId + 1 <= nextId'
         /\ op'[nextId + 1] = r /\ addr'[nextId + 1] = a
         /\ live' = live \cup {nextId + 1} /\ timers' = timers \cup TimersOf(nextId + 1, r)
         /\ \A i \in Ids : i # nextId + 1 => op'[i] = op[i] /\ addr'[i] = addr[i]
         /\ \A i \in Ids : i <= nextId => i # nextId + 1 /\ i <= nextId'
         /\ \A i \in Ids : i <= nextId' => i <= nextId \/ i = nextId + 1
         /\ \A i \in Ids : nextId' < i => nextId < i /\ i # nextId + 1
<1>1. nextId \in Nat /\ nextId + 1 \in Ids /\ nextId' = nextId + 1
  <2>1. nextId' = nextId + 1
    BY Zenon DEF Acquire
  <2>2. nextId \in Nat
    BY BoundsAssumption DEF TypeOK
  <2> QED  BY <2>1, <2>2, AcquireTypes
<1>2. /\ op'[nextId + 1] = r /\ addr'[nextId + 1] = a
      /\ \A i \in Ids : i # nextId + 1 => op'[i] = op[i] /\ addr'[i] = addr[i]
  BY <1>1 DEF TypeOK, Acquire
<1>3. /\ \A i \in Ids : i <= nextId => i # nextId + 1 /\ i <= nextId'
      /\ \A i \in Ids : i <= nextId' => i <= nextId \/ i = nextId + 1
      /\ \A i \in Ids : nextId' < i => nextId < i /\ i # nextId + 1
      /\ nextId < nextId + 1 /\ nextId + 1 <= nextId'
  BY <1>1 DEF Ids
<1> QED  BY <1>1, <1>2, <1>3 DEF Acquire

\* A refused submission is numbered too, and changes no older record.
LEMMA RefusedFacts ==
  ASSUME TypeOK, NEW r, SubmitRefused(r)
  PROVE  /\ nextId + 1 \in Ids /\ nextId' = nextId + 1
         /\ op'[nextId + 1] = r
         /\ \A i \in Ids : i # nextId + 1 => op'[i] = op[i] /\ answer'[i] = answer[i]
         /\ \A i \in Ids : i <= nextId => i # nextId + 1 /\ i <= nextId'
         /\ \A i \in Ids : i <= nextId' => i <= nextId \/ i = nextId + 1
         /\ \A i \in Ids : nextId' < i => nextId < i /\ i # nextId + 1
<1>1. nextId \in Nat /\ nextId < MaxOps /\ nextId' = nextId + 1
  BY BoundsAssumption DEF SubmitRefused, Admitted, TypeOK
<1>2. /\ nextId + 1 \in Ids
      /\ \A i \in Ids : i <= nextId => i # nextId + 1 /\ i <= nextId'
      /\ \A i \in Ids : i <= nextId' => i <= nextId \/ i = nextId + 1
      /\ \A i \in Ids : nextId' < i => nextId < i /\ i # nextId + 1
  BY <1>1, BoundsAssumption DEF Ids
<1>3. /\ DOMAIN op = Ids /\ DOMAIN answer = Ids
      /\ op' = [op EXCEPT ![nextId + 1] = r]
      /\ answer' = [answer EXCEPT ![nextId + 1] = "error"]
  BY Zenon DEF TypeOK, SubmitRefused
<1> QED  BY <1>1, <1>2, <1>3, Zenon

\* The results of a batch and of a shutdown belong to records that were submitted.
LEMMA BatchIds ==
  ASSUME TypeOK, ControlSound, RecordsSound, KernelSound
  PROVE  \A e \in Batch : e.id \in Ids /\ e.id <= nextId
<1> SUFFICES ASSUME NEW e \in Batch PROVE e.id \in Ids /\ e.id <= nextId
  OBVIOUS
<1>1. CASE \E i \in dequeued : e = Entry(i, Completion, 0, 0, Outcome(i))
  <2>1. \A i \in dequeued : i \in live
    BY Zenon DEF ControlSound, KernelSound, Outstanding, TypeOK
  <2>2. e.id \in live
    <3>1. PICK i \in dequeued : e = Entry(i, Completion, 0, 0, Outcome(i))
      BY <1>1
    <3> QED  BY <2>1, <3>1 DEF Entry
  <2> QED  BY <2>2, Zenon DEF RecordsSound, TypeOK
<1>2. CASE \E t \in Expired : e = Entry(t.id, Expiry, t.at, t.cut, IF t.cut = 1 THEN "timed_out" ELSE "ok")
  <2>1. PICK t \in timers : e.id = t.id
    BY <1>2 DEF Expired, Entry
  <2>2. t.id \in live
    BY Zenon DEF RecordsSound
  <2> QED  BY <2>1, <2>2, Zenon DEF RecordsSound, TypeOK
<1>3. CASE \E i \in cancels : e = Entry(i, Cancelled, 0, 0, reason[i])
  <2>1. PICK i \in cancels : e.id = i
    BY <1>3 DEF Entry
  <2> QED  BY <2>1, Zenon DEF RecordsSound, TypeOK
<1> QED  BY <1>1, <1>2, <1>3 DEF Batch

\* Every step keeps the records in order.
LEMMA RecordsStep ==
  TypeOK /\ ControlSound /\ RecordsSound /\ KernelSound /\ CallbacksSound /\ [Next]_vars => RecordsSound'
<1> SUFFICES ASSUME TypeOK, ControlSound, RecordsSound, KernelSound, CallbacksSound, [Next]_vars
             PROVE  RecordsSound'
  OBVIOUS
<1> USE DEF table, queues, kernel, control, results, ghosts
<1>1. ASSUME UNCHANGED <<nextId, op, reason, answer, live, timers>>,
             \A i \in shut' : i <= nextId, \A i \in cancels' : i <= nextId, \A i \in finished' : i <= nextId,
             \A e \in todo' : e.id <= nextId
      PROVE  RecordsSound'
  BY <1>1, Zenon DEF RecordsSound
<1>2. ASSUME UNCHANGED <<nextId, op, reason, answer, live, timers, shut, cancels, finished, todo>> PROVE RecordsSound'
  BY <1>1, <1>2, Zenon DEF RecordsSound
<1>3. ASSUME NEW r \in OpType, r \in IoOps \cup Sleeps, NEW a \in FreeAddrs, Admitted(r), Acquire(r, a),
             UNCHANGED <<reason, answer, shut, cancels, finished, todo>>
      PROVE  RecordsSound'
  <2>1. /\ nextId + 1 \in Ids /\ nextId' = nextId + 1
        /\ op'[nextId + 1] = r
        /\ live' = live \cup {nextId + 1} /\ timers' = timers \cup TimersOf(nextId + 1, r)
        /\ \A i \in Ids : i # nextId + 1 => op'[i] = op[i]
        /\ \A i \in Ids : i <= nextId => i # nextId + 1 /\ i <= nextId'
        /\ \A i \in Ids : i <= nextId' => i <= nextId \/ i = nextId + 1
        /\ \A i \in Ids : nextId' < i => nextId < i /\ i # nextId + 1
        /\ nextId < nextId + 1 /\ nextId + 1 <= nextId'
    BY <1>3, AcquireFacts, Zenon
  <2>2. \A i \in Ids : i <= nextId' => op'[i] \in IoOps \cup Sleeps
    BY <1>3, <2>1, Zenon DEF RecordsSound
  <2>3. \A t \in timers' : t.id \in live' /\ t \in TimersOf(t.id, op'[t.id])
    <3>1. \A t \in TimersOf(nextId + 1, r) : t.id = nextId + 1
      BY DEF TimersOf
    <3>2. \A t \in timers : t.id \in Ids /\ t.id <= nextId
      BY DEF RecordsSound, TypeOK
    <3> QED  BY <2>1, <3>1, <3>2, Zenon DEF RecordsSound
  <2>4. \A i \in live' : i <= nextId' /\ answer'[i] = "none"
    <3>1. \A i \in live : i \in Ids /\ i <= nextId /\ answer[i] = "none"
      BY DEF RecordsSound, TypeOK
    <3>2. answer[nextId + 1] = "none"
      BY <2>1, Zenon DEF RecordsSound
    <3> QED  BY <1>3, <2>1, <3>1, <3>2, ZenonT(40)
  <2>5. /\ \A i \in shut' : i <= nextId'
        /\ \A i \in cancels' : i <= nextId'
        /\ \A i \in finished' : i <= nextId'
        /\ \A e \in todo' : e.id <= nextId'
    BY <1>3, <2>1, Zenon DEF RecordsSound, TypeOK
  <2>6. \A i \in Ids : nextId' < i => reason'[i] = "none" /\ answer'[i] = "none"
    BY <1>3, <2>1, Zenon DEF RecordsSound
  <2> QED  BY <2>2, <2>3, <2>4, <2>5, <2>6 DEF RecordsSound, TimersOf
<1>4. ASSUME NEW r \in IoRequests, SubmitIo(r) PROVE RecordsSound'
  <2>1. PICK a \in FreeAddrs : Acquire(r, a)
    BY <1>4, Zenon DEF SubmitIo
  <2> QED  BY <1>3, <1>4, <2>1, RequestTypes, Zenon DEF SubmitIo
<1>5. ASSUME NEW r \in SleepRequests, AddTimer(r) PROVE RecordsSound'
  <2>1. PICK a \in FreeAddrs : Acquire(r, a)
    BY <1>5 DEF AddTimer
  <2> QED  BY <1>3, <1>5, <2>1, RequestTypes, Zenon DEF AddTimer
<1>6. ASSUME NEW r \in IoRequests, SubmitRefused(r) PROVE RecordsSound'
  <2>2. /\ \A i \in Ids : i <= nextId => i # nextId + 1 /\ i <= nextId'
        /\ \A i \in Ids : i <= nextId' => i <= nextId \/ i = nextId + 1
        /\ \A i \in Ids : nextId' < i => nextId < i /\ i # nextId + 1
    BY <1>6, RefusedFacts, Zenon
  <2>3. /\ op'[nextId + 1] = r
        /\ \A i \in Ids : i # nextId + 1 => op'[i] = op[i] /\ answer'[i] = answer[i]
    BY <1>6, RefusedFacts, Zenon
  <2>4. UNCHANGED <<live, reason, shut, timers, cancels, todo, finished>>
    BY <1>6 DEF SubmitRefused
  <2>5. \A i \in Ids : i <= nextId' => op'[i] \in IoOps \cup Sleeps
    BY <2>2, <2>3, RequestTypes, Zenon DEF RecordsSound
  <2>6. \A t \in timers' : t.id \in live' /\ t \in TimersOf(t.id, op'[t.id])
    BY <2>2, <2>3, <2>4, Zenon DEF RecordsSound, TypeOK
  <2>7. \A i \in live' : i <= nextId' /\ answer'[i] = "none"
    BY <2>2, <2>3, <2>4, Zenon DEF RecordsSound, TypeOK
  <2>8. /\ \A i \in shut' : i <= nextId'
        /\ \A i \in cancels' : i <= nextId'
        /\ \A i \in finished' : i <= nextId'
        /\ \A e \in todo' : e.id <= nextId'
    BY <2>2, <2>4, Zenon DEF RecordsSound, TypeOK
  <2>9. \A i \in Ids : nextId' < i => reason'[i] = "none" /\ answer'[i] = "none"
    BY <2>2, <2>3, <2>4, ZenonT(40) DEF RecordsSound
  <2> QED  BY <2>5, <2>6, <2>7, <2>8, <2>9, Zenon DEF RecordsSound, TimersOf
<1>7. ASSUME NEW i \in Ids, IoFinishes(i, "ok") \/ IoFinishes(i, "failed") PROVE RecordsSound'
  BY <1>2, <1>7 DEF IoFinishes
<1>8. ASSUME NEW t \in Threads, NEW i \in Ids, FixReason(t, i) PROVE RecordsSound'
  <2>1. i \in live /\ i <= nextId
    BY <1>8, Zenon DEF FixReason, Pinnable, RecordsSound
  <2>2. \A j \in Ids : nextId < j => reason'[j] = reason[j]
    <3>1. \A j \in Ids : nextId < j => j # i
      BY <2>1 DEF TypeOK, Ids
    <3>2. \A j \in Ids : j # i => reason'[j] = reason[j]
      BY <1>8, Zenon DEF FixReason, TypeOK
    <3> QED  BY <3>1, <3>2, Zenon
  <2> QED  BY <1>8, <2>2, Zenon DEF FixReason, DeadlineDropped, RecordsSound
<1>9. ASSUME NEW t \in Threads, CancelIo(t) PROVE RecordsSound'
  <2>1. calling[t].id \in Held
    BY <1>9, Zenon DEF CancelIo, CallbacksSound
  <2>2. calling[t].id <= nextId
    BY <2>1, Zenon DEF Held, CallbacksSound, RecordsSound
  <2> QED  BY <1>1, <1>9, <2>2, Zenon DEF CancelIo, RecordsSound
<1>10. ASSUME NEW h \in Handles, Close(h) \/ Reopen(h) PROVE RecordsSound'
  BY <1>1, <1>10, Zenon DEF Close, On, Reopen, RecordsSound
<1>11. CASE Post \/ Tick \/ RunOnce \/ DequeueFails \/ Resume \/ RunPosted \/ Suspend \/ Return \/ Drained
  BY <1>2, <1>11, Zenon DEF Post, Tick, RunOnce, DequeueFails, Resume, RunPosted, Suspend, Return, Drained
<1>12. CASE Dequeue
  <2>1. \A i \in InPort : i <= nextId
    BY Zenon DEF InPort, KernelSound, Outstanding, RecordsSound
  <2> QED  BY <1>1, <1>12, <2>1, Zenon DEF Dequeue, RecordsSound
<1>13. CASE Collect
  <2>1. \A e \in todo' : e.id <= nextId
    BY <1>13, BatchIds DEF Collect
  <2>2. \A i \in Overdue : i <= nextId
    BY Zenon DEF Overdue, Pinnable, RecordsSound
  <2>3. \A i \in Ids : nextId < i => reason'[i] = reason[i]
    <3>1. \A i \in Ids : nextId < i => i \notin Overdue
      BY <2>2 DEF TypeOK, Ids
    <3>2. \A i \in Ids : i \notin Overdue => reason'[i] = reason[i]
      BY <1>13, Zenon DEF Collect
    <3> QED  BY <3>1, <3>2, ZenonT(40)
  <2> QED  BY <1>13, <2>1, <2>3, Zenon DEF Collect, RecordsSound
<1>14. ASSUME NEW e \in todo, Take(e) PROVE RecordsSound'
  <2>1. e.id \in Ids /\ e.id <= nextId
    BY Zenon DEF TypeOK, RecordsSound
  <2>2. CASE e.id \in live
    <3>1. \A i \in Ids : i # e.id => answer'[i] = answer[i]
      <4>1. DOMAIN answer = Ids /\ answer' = [answer EXCEPT ![e.id] = e.out]
        BY <1>14, <2>2, ZenonT(40) DEF Take, TypeOK
      <4> QED  BY <4>1
    <3>2. \A i \in Ids : nextId < i => i # e.id
      BY <2>1 DEF TypeOK, Ids
    <3>3. live' = live \ {e.id} /\ timers' = {t \in timers : t.id # e.id} /\ todo' \subseteq todo
      BY <1>14, <2>2, Zenon DEF Take
    <3> QED  BY <1>14, <3>1, <3>2, <3>3, Zenon DEF Take, RecordsSound, TypeOK
  <2>3. CASE e.id \notin live
    BY <1>1, <1>14, <2>3, Zenon DEF Take, RecordsSound
  <2> QED  BY <2>2, <2>3
<1>15. CASE Shutdown
  <2>1. \A e \in todo' : e.id \in live
    <3>1. todo' = {Entry(i, Cancelled, 0, 0, IF reason[i] = "none" THEN "cancelled" ELSE reason[i]) : i \in live}
      BY <1>15 DEF Shutdown
    <3> TAKE e \in todo'
    <3>2. PICK i \in live : e = Entry(i, Cancelled, 0, 0, IF reason[i] = "none" THEN "cancelled" ELSE reason[i])
      BY <3>1, Zenon
    <3> QED  BY <3>2, Zenon DEF Entry
  <2>2. \A i \in Ids : nextId < i => reason'[i] = reason[i]
    <3>1. \A i \in Ids : nextId < i => i \notin live
      <4>1. nextId \in Nat /\ \A i \in live : i <= nextId
        BY DEF RecordsSound, TypeOK
      <4> QED  BY <4>1 DEF Ids
    <3>2. \A i \in Ids : i \notin live => reason'[i] = reason[i]
      BY <1>15, Zenon DEF Shutdown, Pinnable
    <3> QED  BY <3>1, <3>2, Zenon
  <2> QED  BY <1>15, <2>1, <2>2, Zenon DEF Shutdown, RecordsSound
<1>16. ASSUME NEW i \in Ids, DrainOne(i) PROVE RecordsSound'
  BY <1>2, <1>16, Zenon DEF DrainOne
<1>17. CASE UNCHANGED vars
  BY <1>2, <1>17 DEF vars
<1> QED
  BY <1>4, <1>5, <1>6, <1>7, <1>8, <1>9, <1>10, <1>11, <1>12, <1>13, <1>14, <1>15, <1>16, <1>17, Zenon DEF Next

-----------------------------------------------------------------------------
(* The table against the kernel.                                           *)

\* Nobody has asked the kernel for anything yet.
LEMMA KernelInit == Init => KernelSound
  BY Zenon DEF Init, KernelSound, Outstanding

\* The results of a batch are for operations the kernel has let go of.
LEMMA BatchReleased ==
  ASSUME TypeOK, ControlSound, RecordsSound, KernelSound, NEW e \in Batch
  PROVE  e.id \notin inflight /\ (packets[e.id] # "none" => e.id \in dequeued)
<1>1. CASE \E i \in dequeued : e = Entry(i, Completion, 0, 0, Outcome(i))
  <2>1. e.id \in dequeued
    <3>1. PICK i \in dequeued : e = Entry(i, Completion, 0, 0, Outcome(i))
      BY <1>1, Zenon
    <3> QED  BY <3>1 DEF Entry
  <2> QED  BY <2>1, Zenon DEF ControlSound, KernelSound
<1>2. ASSUME NEW t \in Expired, ResolvableNow(t),
             e = Entry(t.id, Expiry, t.at, t.cut, IF t.cut = 1 THEN "timed_out" ELSE "ok")
      PROVE  e.id \in Ids /\ ~KernelBacked(e.id)
  <2>1. e.id = t.id /\ t.id \in Ids /\ t.id <= nextId /\ t \in TimersOf(t.id, op[t.id])
    BY <1>2, Zenon DEF Expired, Entry, RecordsSound, TypeOK
  <2>2. t.cut = 0 => op[t.id].wake # Never
    BY <2>1 DEF TimersOf
  <2>3. op[t.id] \in IoOps \cup Sleeps
    BY <2>1, Zenon DEF RecordsSound
  <2>4. t.cut = 0 => ~KernelBacked(t.id)
    BY <2>2, <2>3 DEF IoOps, Sleeps, KernelBacked
  <2> QED  BY <1>2, <2>1, <2>4 DEF ResolvableNow
<1>3. ASSUME NEW i \in cancels, e = Entry(i, Cancelled, 0, 0, reason[i])
      PROVE  e.id \in Ids /\ ~KernelBacked(e.id)
  BY <1>3, Zenon DEF Entry, KernelSound, TypeOK
<1>4. e.id \in Ids /\ ~KernelBacked(e.id) => e.id \notin inflight /\ packets[e.id] = "none"
  BY Zenon DEF KernelSound, Outstanding
<1> QED  BY <1>1, <1>2, <1>3, <1>4 DEF Batch

\* Every step keeps the table exact.
LEMMA KernelStep ==
  Counting /\ TypeOK /\ ControlSound /\ RecordsSound /\ KernelSound /\ [Next]_vars => KernelSound'
<1> SUFFICES ASSUME Counting, TypeOK, ControlSound, RecordsSound, KernelSound, [Next]_vars PROVE KernelSound'
  OBVIOUS
<1> USE DEF table, queues, kernel, control, results, ghosts
<1>1. ASSUME UNCHANGED <<inflight, packets, live, op, cancels, todo, timers>>,
             UNCHANGED <<pc, owed>> \/ (pc # "drain" /\ pc' # "drain")
      PROVE  KernelSound'
  <2>1. UNCHANGED Outstanding /\ \A i : InTodo(i)' = InTodo(i) /\ WakeTimer(i)' = WakeTimer(i) /\ KernelBacked(i)' = KernelBacked(i)
    BY <1>1, Zenon DEF Outstanding, InTodo, WakeTimer, KernelBacked
  <2> QED  BY <1>1, <2>1, Zenon DEF KernelSound
<1>2. ASSUME NEW r \in IoRequests, SubmitIo(r) PROVE KernelSound'
  <2>1. PICK a \in FreeAddrs : Acquire(r, a)
    BY <1>2, Zenon DEF SubmitIo
  <2>n. PICK n : n = nextId + 1
    OBVIOUS
  <2>2. /\ n \in Ids /\ op'[n] = r /\ live' = live \cup {n} /\ timers \subseteq timers'
        /\ \A i \in Ids : i # n => op'[i] = op[i]
        /\ \A i \in Ids : i <= nextId => i # n
    BY <1>2, <2>1, <2>n, RequestTypes, AcquireFacts, Zenon DEF SubmitIo
  <2>3. pc = "user" /\ pc' = pc /\ inflight' = inflight \cup {n} /\ UNCHANGED <<packets, cancels, todo>>
    BY <1>2, <2>n, Zenon DEF SubmitIo, UserRuns
  <2>4. /\ n \notin live /\ n \notin Outstanding /\ n \notin cancels
        /\ \A e \in todo : e.id # n
    BY <2>2, Zenon DEF RecordsSound, KernelSound, TypeOK
  <2>5. packets[n] = "none" /\ Outstanding' = Outstanding \cup {n}
    BY <2>2, <2>3, <2>4, Zenon DEF Outstanding
  <2>6. KernelBacked(n)'
    <3>1. r \in IoOps
      BY RequestTypes
    <3>2. r.kind # "timer"
      BY <3>1 DEF IoOps
    <3> QED  BY <2>2, <3>2 DEF KernelBacked
  <2>7. /\ \A i \in live : i \in Ids /\ i # n
        /\ \A i \in Ids : i # n => KernelBacked(i)' = KernelBacked(i) /\ WakeTimer(i)' = WakeTimer(i)
        /\ \A i \in Ids : InTodo(i)' = InTodo(i)
    BY <2>2, <2>3, <2>4, Zenon DEF KernelBacked, WakeTimer, InTodo, TypeOK
  <2>8. \A i \in inflight' : packets'[i] = "none"
    BY <2>3, <2>5, Zenon DEF KernelSound
  <2>9. \A i \in Outstanding' : i \in live' /\ KernelBacked(i)'
    BY <2>2, <2>5, <2>6, <2>7, Zenon DEF KernelSound
  <2>10. \A i \in cancels' : ~KernelBacked(i)'
    BY <2>3, <2>4, <2>7, Zenon DEF KernelSound, TypeOK
  <2>11. \A e \in todo' : e.id \notin Outstanding'
    BY <2>3, <2>4, <2>5, Zenon DEF KernelSound
  <2>12. \A i \in live' : i \in Outstanding' \/ InTodo(i)' \/ (~KernelBacked(i)' /\ WakeTimer(i)' \in timers')
    <3> SUFFICES ASSUME NEW i \in live
                 PROVE  i \in Outstanding' \/ InTodo(i)' \/ (~KernelBacked(i)' /\ WakeTimer(i)' \in timers')
      BY <2>2, <2>5, Zenon
    <3>1. i \in Outstanding \/ InTodo(i) \/ (~KernelBacked(i) /\ WakeTimer(i) \in timers)
      BY Zenon DEF KernelSound
    <3>2. i \in Ids /\ i # n
      BY <2>7
    <3>3. InTodo(i)' = InTodo(i) /\ KernelBacked(i)' = KernelBacked(i) /\ WakeTimer(i)' = WakeTimer(i)
      BY <2>7, <3>2
    <3> QED  BY <2>2, <2>5, <3>1, <3>3, Zenon
  <2> QED  BY <2>3, <2>8, <2>9, <2>10, <2>11, <2>12, Zenon DEF KernelSound
<1>3. ASSUME NEW r \in SleepRequests, AddTimer(r) PROVE KernelSound'
  <2>1. PICK a \in FreeAddrs : Acquire(r, a)
    BY <1>3 DEF AddTimer
  <2>n. PICK n : n = nextId + 1
    OBVIOUS
  <2>2. /\ n \in Ids /\ op'[n] = r /\ live' = live \cup {n} /\ timers' = timers \cup TimersOf(n, r)
        /\ \A i \in Ids : i # n => op'[i] = op[i]
        /\ \A i \in Ids : i <= nextId => i # n
    BY <1>3, <2>1, <2>n, RequestTypes, AcquireFacts, Zenon DEF AddTimer
  <2>3. pc = "user" /\ pc' = pc /\ UNCHANGED <<inflight, packets, cancels, todo>>
    BY <1>3 DEF AddTimer, UserRuns
  <2>4. n \notin live /\ n \notin Outstanding /\ n \notin cancels /\ Outstanding' = Outstanding
    BY <2>2, <2>3, ZenonT(40) DEF RecordsSound, KernelSound, Outstanding, TypeOK
  <2>5. ~KernelBacked(n)' /\ WakeTimer(n)' \in timers'
    <3>1. r \in Sleeps
      BY RequestTypes
    <3>2. r.wake # Never /\ r.kind = "timer"
      BY <3>1 DEF Sleeps
    <3>3. [at |-> r.wake, id |-> n, cut |-> 0] \in TimersOf(n, r)
      BY <3>2, Zenon DEF TimersOf
    <3>4. WakeTimer(n)' = [at |-> r.wake, id |-> n, cut |-> 0]
      <4>1. WakeTimer(n)' = [at |-> op'[n].wake, id |-> n, cut |-> 0]
        BY DEF WakeTimer
      <4> QED  BY <2>2, <4>1, Zenon
    <3> QED  BY <2>2, <3>2, <3>3, <3>4, Zenon DEF KernelBacked
  <2>6. /\ \A i \in live : i \in Ids /\ i # n
        /\ \A i \in Ids : i # n => KernelBacked(i)' = KernelBacked(i) /\ WakeTimer(i)' = WakeTimer(i)
        /\ \A i \in Ids : InTodo(i)' = InTodo(i)
    BY <2>2, <2>3, <2>4, Zenon DEF KernelBacked, WakeTimer, InTodo, TypeOK
  <2>7. \A i \in Outstanding' : i \in live' /\ KernelBacked(i)'
    BY <2>2, <2>4, <2>6, Zenon DEF KernelSound
  <2>8. \A i \in cancels' : ~KernelBacked(i)'
    BY <2>3, <2>4, <2>6, Zenon DEF KernelSound, TypeOK
  <2>9. \A i \in live' : i \in Outstanding' \/ InTodo(i)' \/ (~KernelBacked(i)' /\ WakeTimer(i)' \in timers')
    <3> SUFFICES ASSUME NEW i \in live
                 PROVE  i \in Outstanding' \/ InTodo(i)' \/ (~KernelBacked(i)' /\ WakeTimer(i)' \in timers')
      BY <2>2, <2>5, Zenon
    <3>1. i \in Outstanding \/ InTodo(i) \/ (~KernelBacked(i) /\ WakeTimer(i) \in timers)
      BY Zenon DEF KernelSound
    <3>2. i \in Ids /\ i # n
      BY <2>6, Zenon
    <3>3. InTodo(i)' = InTodo(i) /\ KernelBacked(i)' = KernelBacked(i) /\ WakeTimer(i)' = WakeTimer(i)
      BY <2>6, <3>2
    <3> QED  BY <2>2, <2>4, <3>1, <3>3, Zenon
  <2> QED  BY <2>3, <2>4, <2>7, <2>8, <2>9, Zenon DEF KernelSound
<1>4. ASSUME NEW r \in IoRequests, SubmitRefused(r) PROVE KernelSound'
  <2> DEFINE n == nextId + 1
  <2>1. n \in Ids /\ \A i \in Ids : i <= nextId => i # n
    BY <1>4, RefusedFacts, Zenon
  <2>2. \A i \in Ids : i # n => op'[i] = op[i]
    BY <1>4, RefusedFacts, Zenon
  <2> HIDE DEF n
  <2>3. UNCHANGED <<pc, owed, inflight, packets, live, cancels, todo, timers>> /\ pc = "user"
    BY <1>4 DEF SubmitRefused, UserRuns
  <2>4. /\ \A i \in live : i \in Ids /\ i # n
        /\ \A i \in cancels : i \in Ids /\ i # n
    BY <2>1, Zenon DEF RecordsSound, TypeOK
  <2>5. /\ \A i \in Ids : i # n => KernelBacked(i)' = KernelBacked(i) /\ WakeTimer(i)' = WakeTimer(i)
        /\ \A i \in Ids : InTodo(i)' = InTodo(i)
        /\ Outstanding' = Outstanding
    BY <2>2, <2>3, Zenon DEF KernelBacked, WakeTimer, InTodo, Outstanding
  <2> QED  BY <2>3, <2>4, <2>5, Zenon DEF KernelSound
<1>5. ASSUME NEW i \in Ids, NEW status \in {"ok", "failed"}, IoFinishes(i, status) PROVE KernelSound'
  <2>1. /\ i \in inflight /\ inflight' = inflight \ {i} /\ packets'[i] = status
        /\ \A j \in Ids : j # i => packets'[j] = packets[j]
        /\ UNCHANGED <<pc, owed, live, op, cancels, todo, timers>>
    BY <1>5, Zenon DEF IoFinishes, TypeOK
  <2>2. Outstanding' = Outstanding
    BY <2>1 DEF Outstanding
  <2>3. \A j : InTodo(j)' = InTodo(j) /\ WakeTimer(j)' = WakeTimer(j) /\ KernelBacked(j)' = KernelBacked(j)
    BY <2>1, Zenon DEF InTodo, WakeTimer, KernelBacked
  <2>4. \A j \in inflight' : packets'[j] = "none"
    BY <2>1, Zenon DEF KernelSound, TypeOK
  <2> QED  BY <2>1, <2>2, <2>3, <2>4, Zenon DEF KernelSound
<1>6. ASSUME NEW t \in Threads, NEW i \in Ids, FixReason(t, i) PROVE KernelSound'
  <2>1. /\ UNCHANGED <<pc, owed, inflight, packets, live, op, cancels, todo>>
        /\ timers' = DeadlineDropped(i)
    BY <1>6, Zenon DEF FixReason
  <2>2. Outstanding' = Outstanding /\ \A j : InTodo(j)' = InTodo(j) /\ WakeTimer(j)' = WakeTimer(j) /\ KernelBacked(j)' = KernelBacked(j)
    BY <2>1, Zenon DEF Outstanding, InTodo, WakeTimer, KernelBacked
  <2>3. \A j \in Ids : WakeTimer(j) \in timers => WakeTimer(j) \in timers'
    BY <2>1, FieldFacts, Zenon DEF DeadlineDropped
  <2> QED  BY <2>1, <2>2, <2>3, Zenon DEF KernelSound, TypeOK
<1>7. ASSUME NEW t \in Threads, CancelIo(t) PROVE KernelSound'
  <2>1. UNCHANGED <<pc, owed, inflight, packets, live, op, todo, timers>>
    BY <1>7, Zenon DEF CancelIo
  <2>2. Outstanding' = Outstanding /\ \A j : InTodo(j)' = InTodo(j) /\ WakeTimer(j)' = WakeTimer(j) /\ KernelBacked(j)' = KernelBacked(j)
    BY <2>1, Zenon DEF Outstanding, InTodo, WakeTimer, KernelBacked
  <2>3. \A j \in cancels' : ~KernelBacked(j)
    BY <1>7, Zenon DEF CancelIo, KernelSound
  <2> QED  BY <2>1, <2>2, <2>3, Zenon DEF KernelSound
<1>8. ASSUME NEW h \in Handles, Close(h) \/ Reopen(h) PROVE KernelSound'
  BY <1>1, <1>8, Zenon DEF Close, Reopen
<1>9. CASE Post \/ Tick
  BY <1>1, <1>9, Zenon DEF Post, Tick
<1>10. CASE RunOnce \/ Dequeue \/ DequeueFails \/ Resume \/ RunPosted \/ Suspend \/ Return
  BY <1>1, <1>10, Zenon DEF RunOnce, Dequeue, DequeueFails, Resume, RunPosted, Suspend, Return, UserRuns
<1>11. CASE Collect
  <2>1. /\ UNCHANGED <<inflight, live, op>> /\ pc = "classify" /\ pc' = "deliver" /\ cancels' = {}
        /\ todo' = Batch /\ timers' = timers \ Expired
        /\ packets' = [i \in Ids |-> IF i \in dequeued THEN "none" ELSE packets[i]]
    BY <1>11, Zenon DEF Collect
  <2>2. todo = {}
    BY <2>1 DEF ControlSound
  <2>3. \A i : WakeTimer(i)' = WakeTimer(i) /\ KernelBacked(i)' = KernelBacked(i)
    BY <2>1, Zenon DEF WakeTimer, KernelBacked
  <2>4. Outstanding' = Outstanding \ dequeued
    <3>1. \A i \in inflight : i \in Ids /\ i \notin dequeued
      BY Zenon DEF KernelSound, ControlSound, TypeOK
    <3> QED  BY <2>1, <3>1 DEF Outstanding
  <2>5. \A i \in inflight' : packets'[i] = "none"
    BY <2>1, Zenon DEF KernelSound, TypeOK
  <2>6. \A e \in todo' : e.id \notin Outstanding'
    <3> SUFFICES ASSUME NEW e \in Batch PROVE e.id \notin Outstanding'
      BY <2>1, Zenon
    <3>1. e.id \notin inflight /\ (packets[e.id] # "none" => e.id \in dequeued)
      BY BatchReleased, Zenon
    <3> QED  BY <2>4, <3>1 DEF Outstanding
  <2>7. \A i \in dequeued : InTodo(i)'
    <3> SUFFICES ASSUME NEW i \in dequeued PROVE \E e \in Batch : e.id = i
      BY <2>1, Zenon DEF InTodo
    <3>1. Entry(i, Completion, 0, 0, Outcome(i)) \in Batch
      BY Zenon DEF Batch
    <3> QED  BY <3>1, Zenon DEF Entry
  <2>8. \A i \in live : WakeTimer(i) \in timers => WakeTimer(i) \in timers' \/ InTodo(i)'
    <3> SUFFICES ASSUME NEW i \in live, WakeTimer(i) \in timers, WakeTimer(i) \in Expired
                 PROVE  \E e \in Batch : e.id = i
      BY <2>1, Zenon DEF InTodo
    <3> DEFINE t == WakeTimer(i)
    <3>1. t.id = i /\ t.cut = 0 /\ t \in {u \in Expired : ResolvableNow(u)}
      BY DEF WakeTimer, ResolvableNow
    <3> HIDE DEF t
    <3>2. Entry(t.id, Expiry, t.at, t.cut, IF t.cut = 1 THEN "timed_out" ELSE "ok") \in Batch
      BY <3>1 DEF Batch
    <3> QED  BY <3>1, <3>2, Zenon DEF Entry
  <2>9. \A i \in Outstanding' : i \in live' /\ KernelBacked(i)'
    BY <2>1, <2>3, <2>4, Zenon DEF KernelSound
  <2>10. \A i \in live' : i \in Outstanding' \/ InTodo(i)' \/ (~KernelBacked(i)' /\ WakeTimer(i)' \in timers')
    <3> SUFFICES ASSUME NEW i \in live
                 PROVE  i \in Outstanding' \/ InTodo(i)' \/ (~KernelBacked(i) /\ WakeTimer(i) \in timers')
      BY <2>1, <2>3
    <3>1. ~InTodo(i)
      BY <2>2 DEF InTodo
    <3>2. i \in Outstanding \/ (~KernelBacked(i) /\ WakeTimer(i) \in timers)
      BY <3>1, Zenon DEF KernelSound
    <3> QED  BY <2>4, <2>7, <2>8, <3>2, Zenon
  <2> QED  BY <2>1, <2>5, <2>6, <2>9, <2>10, Zenon DEF KernelSound
<1>12. ASSUME NEW e \in todo, Take(e) PROVE KernelSound'
  <2>1. /\ UNCHANGED <<inflight, packets, op, cancels>> /\ pc = "deliver" /\ todo' = todo \ {e}
        /\ e.id \notin Outstanding
    BY <1>12, Zenon DEF Take, KernelSound
  <2>2. /\ Outstanding' = Outstanding
        /\ \A j : WakeTimer(j)' = WakeTimer(j) /\ KernelBacked(j)' = KernelBacked(j)
        /\ \A j : j # e.id => InTodo(j)' = InTodo(j)
    BY <2>1, Zenon DEF Outstanding, InTodo, WakeTimer, KernelBacked
  <2>3. pc' # "drain"
    BY <1>12, <2>1, Zenon DEF Take
  <2>4. \A i \in live' : i \in live /\ i # e.id
    <3>1. CASE e.id \in live
      BY <1>12, <3>1, Zenon DEF Take
    <3>2. CASE e.id \notin live
      <4>1. live' = live
        BY <1>12, <3>2, Zenon DEF Take
      <4> QED  BY <3>2, <4>1
    <3> QED  BY <3>1, <3>2
  <2>5. \A i \in live \ {e.id} : i \in live' /\ (WakeTimer(i) \in timers => WakeTimer(i) \in timers')
    BY <1>12, Zenon DEF Take, WakeTimer
  <2>6. \A i \in live' : i \in Outstanding' \/ InTodo(i)' \/ (~KernelBacked(i)' /\ WakeTimer(i)' \in timers')
    BY <2>2, <2>4, <2>5, Zenon DEF KernelSound
  <2>7. \A i \in Outstanding' : i \in live' /\ KernelBacked(i)'
    BY <2>1, <2>2, <2>5, Zenon DEF KernelSound
  <2> QED  BY <2>1, <2>2, <2>3, <2>6, <2>7, Zenon DEF KernelSound
<1>13. CASE Shutdown
  <2>1. /\ UNCHANGED <<inflight, packets, live, op, timers>> /\ pc' = "drain" /\ cancels' = {} /\ ~batch
        /\ owed' = Cardinality(Owing)
        /\ todo' = {Entry(i, Cancelled, 0, 0, IF reason[i] = "none" THEN "cancelled" ELSE reason[i]) : i \in live}
    BY <1>13 DEF Shutdown
  <2>2. Outstanding' = Outstanding /\ \A j : KernelBacked(j)' = KernelBacked(j)
    BY <2>1, Zenon DEF Outstanding, KernelBacked
  <2>3. \A i : ~InTodo(i)
    BY <2>1 DEF ControlSound, InTodo
  <2>4. Owing = Outstanding
    BY <2>3, Zenon DEF Owing, KernelSound
  <2>5. \A i \in live : InTodo(i)'
    <3> SUFFICES ASSUME NEW i \in live PROVE InTodo(i)'
      OBVIOUS
    <3>1. Entry(i, Cancelled, 0, 0, IF reason[i] = "none" THEN "cancelled" ELSE reason[i]) \in todo'
      BY <2>1
    <3> QED  BY <3>1 DEF InTodo, Entry
  <2> QED  BY <2>1, <2>2, <2>4, <2>5, ZenonT(40) DEF KernelSound
<1>14. ASSUME NEW i \in Ids, DrainOne(i) PROVE KernelSound'
  <2>1. /\ UNCHANGED <<pc, inflight, live, op, cancels, todo, timers>> /\ pc = "drain" /\ owed' = owed - 1
        /\ packets[i] # "none" /\ packets'[i] = "none"
        /\ \A j \in Ids : j # i => packets'[j] = packets[j]
    BY <1>14, Zenon DEF DrainOne, TypeOK
  <2>2. i \notin inflight /\ i \in Outstanding
    BY <2>1, Zenon DEF KernelSound, Outstanding
  <2>3. Outstanding' = Outstanding \ {i}
    BY <2>1, <2>2, ZenonT(40) DEF Outstanding
  <2>4. \A j : InTodo(j)' = InTodo(j) /\ KernelBacked(j)' = KernelBacked(j)
    BY <2>1 DEF InTodo, KernelBacked
  <2>5. owed' = Cardinality(Outstanding')
    <3>1. Outstanding \in SUBSET Ids
      BY DEF Outstanding
    <3>2. Cardinality(Outstanding \ {i}) = Cardinality(Outstanding) - 1
      BY <2>2, <3>1, Zenon DEF Counting
    <3> QED  BY <2>1, <2>3, <3>2, Zenon DEF KernelSound
  <2>6. \A j \in inflight' : packets'[j] = "none"
    BY <2>1, <2>2, Zenon DEF KernelSound, TypeOK
  <2> QED  BY <2>1, <2>3, <2>4, <2>5, <2>6, Zenon DEF KernelSound
<1>15. CASE Drained
  <2>1. UNCHANGED <<inflight, packets, live, op, cancels, todo, timers>> /\ pc = "drain" /\ owed = 0 /\ pc' = "deliver"
    BY <1>15 DEF Drained
  <2>2. Outstanding = {}
    <3>1. Outstanding \in SUBSET Ids
      BY DEF Outstanding
    <3> QED  BY <2>1, <3>1, Zenon DEF KernelSound, Counting
  <2>3. Outstanding' = Outstanding /\ \A j : InTodo(j)' = InTodo(j) /\ WakeTimer(j)' = WakeTimer(j) /\ KernelBacked(j)' = KernelBacked(j)
    BY <2>1, Zenon DEF Outstanding, InTodo, WakeTimer, KernelBacked
  <2> QED  BY <2>1, <2>2, <2>3, Zenon DEF KernelSound
<1>16. CASE UNCHANGED vars
  BY <1>1, <1>16, ZenonT(40) DEF vars
<1> QED
  BY <1>2, <1>3, <1>4, <1>5, <1>6, <1>7, <1>8, <1>9, <1>10, <1>11, <1>12, <1>13, <1>14, <1>15, <1>16, ZenonT(40) DEF Next

-----------------------------------------------------------------------------
(* Stop callbacks.                                                         *)

\* No stop callback runs in a new loop.
LEMMA CallbacksInit == Init => CallbacksSound
<1> SUFFICES ASSUME Init PROVE CallbacksSound
  OBVIOUS
<1>1. Held = {} /\ pc # "resume" /\ hit = {}
  BY Zenon DEF Init, Held
<1>2. \A t \in Threads : calling[t] = NotCalling
  BY Zenon DEF Init
<1>3. Loop \in Threads
  BY Zenon DEF Threads
<1> QED  BY <1>1, <1>2, <1>3 DEF CallbacksSound

\* Every step keeps the address of an operation whose callback is running.
LEMMA CallbacksStep ==
  TypeOK /\ ControlSound /\ RecordsSound /\ KernelSound /\ CallbacksSound /\ [Next]_vars => CallbacksSound'
<1> SUFFICES ASSUME TypeOK, ControlSound, RecordsSound, KernelSound, CallbacksSound, [Next]_vars
             PROVE  CallbacksSound'
  OBVIOUS
<1> USE DEF table, queues, kernel, control, results, ghosts
<1>1. ASSUME UNCHANGED <<nextId, live, addr, calling, hit>>,
             UNCHANGED <<pc, resuming>> \/ (pc # "resume" /\ pc' # "resume")
      PROVE  CallbacksSound'
  <2>1. Held' = Held
    BY <1>1 DEF Held
  <2> QED  BY <1>1, <2>1, Zenon DEF CallbacksSound
<1>2. ASSUME NEW r \in OpType, Admitted(r), \E a \in FreeAddrs : Acquire(r, a), pc = "user", UNCHANGED <<pc, calling, hit>>
      PROVE  CallbacksSound'
  <2>1. PICK a \in FreeAddrs : Acquire(r, a)
    BY <1>2
  <2> DEFINE n == nextId + 1
  <2>2. /\ n \in Ids /\ live' = live \cup {n}
        /\ \A i \in Ids : i <= nextId => i # n
    BY <1>2, <2>1, AcquireFacts, Zenon
  <2>3. addr'[n] = a /\ \A i \in Ids : i # n => addr'[i] = addr[i]
    BY <2>1, <2>2, Zenon DEF Acquire, TypeOK
  <2> HIDE DEF n
  <2>4. Held = live /\ Held' = live \cup {n}
    BY <1>2, <2>2 DEF Held
  <2>5. \A i \in live : i \in Ids /\ i # n /\ addr[i] # a
    <3>1. \A i \in live : i \in Ids /\ i <= nextId
      BY Zenon DEF RecordsSound, TypeOK
    <3>2. \A i \in live : addr[i] # a
      BY <2>1, Zenon DEF FreeAddrs
    <3> QED  BY <2>2, <3>1, <3>2, Zenon
  <2>6. \A i, j \in Held' : addr'[i] = addr'[j] => i = j
    <3>1. \A i, j \in live : addr[i] = addr[j] => i = j
      BY <2>4, Zenon DEF CallbacksSound
    <3>2. \A i \in live : addr'[i] = addr[i] /\ addr'[i] # a
      BY <2>3, <2>5, Zenon
    <3> SUFFICES ASSUME NEW i \in Held', NEW j \in Held', addr'[i] = addr'[j] PROVE i = j
      OBVIOUS
    <3>3. CASE i \in live /\ j \in live
      BY <3>1, <3>2, <3>3, Zenon
    <3>4. CASE ~(i \in live /\ j \in live)
      BY <2>3, <2>4, <3>2, <3>4, Zenon
    <3> QED  BY <3>3, <3>4
  <2> QED  BY <1>2, <2>2, <2>3, <2>4, <2>5, <2>6, Zenon DEF CallbacksSound
<1>3. ASSUME NEW r \in IoRequests, SubmitIo(r) PROVE CallbacksSound'
  BY <1>2, <1>3, RequestTypes, Zenon DEF SubmitIo, UserRuns
<1>4. ASSUME NEW r \in SleepRequests, AddTimer(r) PROVE CallbacksSound'
  BY <1>2, <1>4, RequestTypes DEF AddTimer, UserRuns
<1>5. ASSUME NEW r \in IoRequests, SubmitRefused(r) PROVE CallbacksSound'
  <2>1. UNCHANGED <<live, addr, calling, hit, pc, resuming>> /\ pc = "user"
    BY <1>5 DEF SubmitRefused, UserRuns
  <2> QED  BY <2>1, Zenon DEF CallbacksSound, Held
<1>6. ASSUME NEW i \in Ids, IoFinishes(i, "ok") \/ IoFinishes(i, "failed") \/ DrainOne(i) PROVE CallbacksSound'
  BY <1>1, <1>6, Zenon DEF IoFinishes, DrainOne
<1>7. ASSUME NEW t \in Threads, NEW i \in Ids, FixReason(t, i) PROVE CallbacksSound'
  <2>1. /\ UNCHANGED <<nextId, live, addr, hit, pc, resuming>> /\ i \in live
        /\ calling'[t].id = i /\ calling'[t].addr = addr[i]
        /\ \A u \in Threads : u # t => calling'[u] = calling[u]
    BY <1>7, Zenon DEF FixReason, Pinnable, TypeOK
  <2>2. Held' = Held /\ i \in Held
    BY <2>1, Zenon DEF Held
  <2>3. \A u \in Threads : calling'[u] # NotCalling => calling'[u].id \in Held' /\ calling'[u].addr = addr'[calling'[u].id]
    BY <2>1, <2>2, Zenon DEF CallbacksSound
  <2>4. calling'[Loop] # NotCalling => calling'[Loop].id \in live'
    BY <2>1, Zenon DEF CallbacksSound, Threads
  <2> QED  BY <2>1, <2>2, <2>3, <2>4, Zenon DEF CallbacksSound
<1>8. ASSUME NEW t \in Threads, CancelIo(t) PROVE CallbacksSound'
  <2> DEFINE c == calling[t]
  <2>1. /\ UNCHANGED <<nextId, live, addr, pc, resuming>> /\ c # NotCalling /\ calling'[t] = NotCalling
        /\ \A u \in Threads : u # t => calling'[u] = calling[u]
        /\ hit' = hit \cup (Reached(c.handle, c.addr) \ {c.id})
    BY <1>8, Zenon DEF CancelIo, TypeOK
  <2>2. c.id \in Held /\ c.addr = addr[c.id]
    BY <2>1, Zenon DEF CallbacksSound
  <2>3. Reached(c.handle, c.addr) \subseteq {c.id}
    <3> SUFFICES ASSUME NEW j \in inflight, addr[j] = c.addr PROVE j = c.id
      BY Zenon DEF Reached
    <3>1. j \in live
      BY Zenon DEF KernelSound, Outstanding, TypeOK
    <3>2. j \in Held
      BY <3>1, Zenon DEF Held
    <3> QED  BY <2>2, <3>2, Zenon DEF CallbacksSound
  <2>4. hit' = {} /\ Held' = Held
    BY <2>1, <2>3, Zenon DEF CallbacksSound, Held
  <2>5. calling'[Loop] # NotCalling => calling'[Loop].id \in live'
    BY <2>1, Zenon DEF CallbacksSound, Threads
  <2>6. \A u \in Threads : calling'[u] # NotCalling =>
          calling'[u].id \in Held' /\ calling'[u].addr = addr'[calling'[u].id]
    <3> TAKE u \in Threads
    <3> QED  BY <2>1, <2>4, ZenonT(40) DEF CallbacksSound
  <2> QED  BY <2>1, <2>4, <2>5, <2>6, Zenon DEF CallbacksSound
<1>9. ASSUME NEW h \in Handles, Close(h) \/ Reopen(h) PROVE CallbacksSound'
  BY <1>1, <1>9, Zenon DEF Close, Reopen
<1>10. CASE Post \/ Tick
  BY <1>1, <1>10, Zenon DEF Post, Tick
<1>11. CASE RunOnce \/ Dequeue \/ DequeueFails \/ Collect \/ RunPosted \/ Suspend \/ Return
  BY <1>1, <1>11, Zenon DEF RunOnce, Dequeue, DequeueFails, Collect, RunPosted, Suspend, Return, UserRuns
<1>12. CASE Shutdown \/ Drained
  BY <1>1, <1>12, Zenon DEF Shutdown, Drained, UserRuns
<1>13. ASSUME NEW e \in todo, Take(e) PROVE CallbacksSound'
  <2>1. UNCHANGED <<nextId, addr, calling, hit>> /\ pc = "deliver"
    BY <1>13, Zenon DEF Take
  <2>2. CASE e.id \in live
    <3>1. live' = live \ {e.id} /\ resuming' = e.id /\ pc' = "resume"
      BY <1>13, <2>2, Zenon DEF Take
    <3>2. Held' = Held
      BY <2>1, <2>2, <3>1, Zenon DEF Held
    <3>3. e.id \in Ids \ live' /\ e.id <= nextId
      BY <2>2, <3>1, Zenon DEF TypeOK, RecordsSound
    <3>4. calling'[Loop] = NotCalling
      BY <2>1 DEF ControlSound
    <3> QED  BY <2>1, <3>1, <3>2, <3>3, <3>4, Zenon DEF CallbacksSound
  <2>3. CASE e.id \notin live
    BY <1>1, <1>13, <2>1, <2>3, Zenon DEF Take
  <2> QED  BY <2>2, <2>3
<1>14. CASE Resume
  <2>1. UNCHANGED <<nextId, live, addr, calling, hit>> /\ pc = "resume" /\ pc' = "user"
    BY <1>14, Zenon DEF Resume
  <2>2. Held = live \cup {resuming} /\ Held' = live
    BY <2>1, Zenon DEF Held
  <2>3. calling[Loop] = NotCalling
    BY <2>1, Zenon DEF ControlSound
  <2>4. \A t \in Threads : calling[t] # NotCalling => calling[t].id # resuming
    BY <1>14, <2>3 DEF Resume, CallbackDone, Threads
  <2> QED  BY <2>1, <2>2, <2>3, <2>4, Zenon DEF CallbacksSound
<1>15. CASE UNCHANGED vars
  BY <1>1, <1>15, Zenon DEF vars
<1> QED
  BY <1>3, <1>4, <1>5, <1>6, <1>7, <1>8, <1>9, <1>10, <1>11, <1>12, <1>13, <1>14, <1>15, Zenon DEF Next

-----------------------------------------------------------------------------
(* Handles, and asking the kernel.                                         *)

\* A new loop has nothing in flight.
LEMMA HandlesInit == Init => HandlesSound
  BY ZenonT(40) DEF Init, HandlesSound, KernelIsAsked

\* Every step that pins an answer asks the kernel, or leaves that to a callback
\* that knows the handle.
LEMMA HandlesStep ==
  TypeOK /\ RecordsSound /\ KernelSound /\ CallbacksSound /\ HandlesSound /\ [Next]_vars => HandlesSound'
<1> SUFFICES ASSUME TypeOK, RecordsSound, KernelSound, CallbacksSound, HandlesSound, [Next]_vars
             PROVE  HandlesSound'
  OBVIOUS
<1> USE DEF table, queues, kernel, control, results, ghosts
<1>1. ASSUME UNCHANGED <<op, shut, open, inc, reopens, aborting, calling, reason>>,
             live' \subseteq live, inflight' \subseteq inflight
      PROVE  HandlesSound'
  BY <1>1, Zenon DEF HandlesSound, KernelIsAsked, KernelBacked
<1>2. \A t \in Threads : calling[t] # NotCalling => calling[t].id \in Ids /\ calling[t].id <= nextId
  <2>1. \A i \in live : i \in Ids /\ i <= nextId
    BY Zenon DEF RecordsSound, TypeOK
  <2>2. \A i \in Held : i \in Ids /\ i <= nextId
    BY <2>1, Zenon DEF Held, CallbacksSound
  <2> QED  BY <2>2, Zenon DEF CallbacksSound
<1>3. \A t \in Threads, i \in Ids : calling[t].id = i => calling[t] # NotCalling
  BY FieldFacts, Zenon
<1>4. \A i \in inflight : i \in Ids /\ i \in live /\ KernelBacked(i)
  BY Zenon DEF KernelSound, Outstanding, TypeOK
<1>5. ASSUME NEW r \in IoRequests, SubmitIo(r) PROVE HandlesSound'
  <2>1. PICK a \in FreeAddrs : Acquire(r, a)
    BY <1>5, Zenon DEF SubmitIo
  <2> DEFINE n == nextId + 1
  <2>2. /\ n \in Ids /\ op'[n] = r /\ live' = live \cup {n}
        /\ \A i \in Ids : i # n => op'[i] = op[i]
        /\ \A i \in Ids : i <= nextId => i # n
        /\ nextId < n
    BY <1>5, <2>1, RequestTypes, AcquireFacts, Zenon DEF SubmitIo
  <2>3. inc'[n] = reopens[r.handle] /\ \A i \in Ids : i # n => inc'[i] = inc[i]
    BY <1>5, <2>2, Zenon DEF SubmitIo, TypeOK
  <2> HIDE DEF n
  <2>4. /\ r.handle \in open /\ inflight' = inflight \cup {n}
        /\ UNCHANGED <<shut, open, reopens, aborting, calling, reason>>
    BY <1>5, Zenon DEF SubmitIo, n
  <2>5. n \notin shut /\ reason[n] = "none"
    BY <2>2, Zenon DEF RecordsSound
  <2>6. /\ \A i \in live : i \in Ids /\ i # n
        /\ \A i \in Ids : i # n => KernelBacked(i)' = KernelBacked(i)
    BY <2>2, Zenon DEF KernelBacked, RecordsSound, TypeOK
  <2>7. \A i \in live' : KernelBacked(i)' /\ i \notin shut' => op'[i].handle \in open' /\ inc'[i] = reopens'[op'[i].handle]
    BY <2>2, <2>3, <2>4, <2>6, Zenon DEF HandlesSound
  <2>8. \A i \in inflight' \cap shut' : i \in aborting'
    BY <2>4, <2>5, Zenon DEF HandlesSound
  <2>9. \A t \in Threads : calling'[t] # NotCalling /\ op'[calling'[t].id].kind # "timer" /\ calling'[t].id \notin shut'
          => calling'[t].handle = op'[calling'[t].id].handle
    BY <1>2, <2>2, <2>4, <2>6, Zenon DEF HandlesSound, KernelBacked
  <2>10. KernelIsAsked'
    BY <2>4, <2>5, Zenon DEF HandlesSound, KernelIsAsked
  <2> QED  BY <2>7, <2>8, <2>9, <2>10, Zenon DEF HandlesSound, KernelBacked
<1>6. ASSUME NEW r \in SleepRequests, AddTimer(r) PROVE HandlesSound'
  <2>1. PICK a \in FreeAddrs : Acquire(r, a)
    BY <1>6 DEF AddTimer
  <2>n. PICK n : n = nextId + 1
    OBVIOUS
  <2>2. /\ n \in Ids /\ op'[n] = r /\ live' = live \cup {n}
        /\ \A i \in Ids : i # n => op'[i] = op[i]
        /\ \A i \in Ids : i <= nextId => i # n
    BY <1>6, <2>1, <2>n, RequestTypes, AcquireFacts, Zenon DEF AddTimer
  <2>3. UNCHANGED <<inflight, shut, inc, open, reopens, aborting, calling, reason>>
    BY <1>6 DEF AddTimer
  <2>4. r \in Sleeps
    BY RequestTypes
  <2>5. ~KernelBacked(n)'
    <3>1. r.kind = "timer"
      BY <2>4 DEF Sleeps
    <3> QED  BY <2>2, <3>1, Zenon DEF KernelBacked
  <2>6. /\ \A i \in live : i \in Ids /\ i # n
        /\ \A i \in Ids : i # n => KernelBacked(i)' = KernelBacked(i)
    BY <2>2, Zenon DEF KernelBacked, RecordsSound, TypeOK
  <2>7. \A i \in live' : KernelBacked(i)' /\ i \notin shut' => op'[i].handle \in open' /\ inc'[i] = reopens'[op'[i].handle]
    BY <2>2, <2>3, <2>5, <2>6, Zenon DEF HandlesSound
  <2>8. \A t \in Threads : calling'[t] # NotCalling /\ op'[calling'[t].id].kind # "timer" /\ calling'[t].id \notin shut'
          => calling'[t].handle = op'[calling'[t].id].handle
    BY <1>2, <2>2, <2>3, <2>6, Zenon DEF HandlesSound, KernelBacked
  <2>9. KernelIsAsked'
    BY <2>3, Zenon DEF HandlesSound, KernelIsAsked
  <2> QED  BY <2>3, <2>7, <2>8, <2>9, Zenon DEF HandlesSound, KernelBacked
<1>7. ASSUME NEW r \in IoRequests, SubmitRefused(r) PROVE HandlesSound'
  <2> DEFINE n == nextId + 1
  <2>1. n \in Ids /\ \A i \in Ids : i <= nextId => i # n
    BY <1>7, RefusedFacts, Zenon
  <2>2. \A i \in Ids : i # n => op'[i] = op[i]
    BY <1>7, RefusedFacts, Zenon
  <2> HIDE DEF n
  <2>3. UNCHANGED <<live, inflight, shut, inc, open, reopens, aborting, calling, reason>>
    BY <1>7, Zenon DEF SubmitRefused
  <2>4. /\ \A i \in live : i \in Ids /\ i # n
        /\ \A i \in Ids : i # n => KernelBacked(i)' = KernelBacked(i)
    BY <2>1, <2>2, Zenon DEF KernelBacked, RecordsSound, TypeOK
  <2>5. \A i \in live' : KernelBacked(i)' /\ i \notin shut' => op'[i].handle \in open' /\ inc'[i] = reopens'[op'[i].handle]
    BY <2>2, <2>3, <2>4, Zenon DEF HandlesSound
  <2>6. \A t \in Threads : calling'[t] # NotCalling /\ op'[calling'[t].id].kind # "timer" /\ calling'[t].id \notin shut'
          => calling'[t].handle = op'[calling'[t].id].handle
    BY <1>2, <2>1, <2>2, <2>3, <2>4, Zenon DEF HandlesSound, KernelBacked
  <2>7. KernelIsAsked'
    BY <2>3, Zenon DEF HandlesSound, KernelIsAsked
  <2> QED  BY <2>3, <2>5, <2>6, <2>7, Zenon DEF HandlesSound, KernelBacked
<1>8. ASSUME NEW i \in Ids, IoFinishes(i, "ok") \/ IoFinishes(i, "failed") \/ DrainOne(i) PROVE HandlesSound'
  BY <1>1, <1>8, Zenon DEF IoFinishes, DrainOne
<1>9. ASSUME NEW t \in Threads, NEW i \in Ids, FixReason(t, i) PROVE HandlesSound'
  <2>1. /\ UNCHANGED <<live, op, inflight, shut, inc, open, reopens, aborting>>
        /\ calling[t] = NotCalling /\ calling'[t].id = i
        /\ calling'[t].handle = IF KernelBacked(i) /\ i \notin shut THEN op[i].handle ELSE NoHandle
        /\ \A u \in Threads : u # t => calling'[u] = calling[u]
        /\ \A j \in Ids : j # i => reason'[j] = reason[j]
    BY <1>9, Zenon DEF FixReason, UserRuns, LoopAtRest, TypeOK
  <2>2. \A j : KernelBacked(j)' = KernelBacked(j)
    BY <2>1, Zenon DEF KernelBacked
  <2>3. \A u \in Threads : calling'[u] # NotCalling /\ op'[calling'[u].id].kind # "timer" /\ calling'[u].id \notin shut'
          => calling'[u].handle = op'[calling'[u].id].handle
    BY <2>1, <2>2, Zenon DEF HandlesSound, KernelBacked
  <2>4. \A u \in Threads, j \in Ids : calling[u].id = j => calling'[u].id = j
    BY <1>3, <2>1, Zenon
  <2>5. KernelIsAsked'
    <3> SUFFICES ASSUME NEW j \in inflight, reason'[j] # "none" \/ j \in shut
                 PROVE  j \in aborting \/ \E u \in Threads : calling'[u].id = j
      BY <2>1, Zenon DEF KernelIsAsked
    <3>1. CASE j = i
      BY <2>1, <3>1, Zenon
    <3>2. CASE j # i
      <4>1. j \in Ids /\ (reason[j] # "none" \/ j \in shut)
        BY <1>4, <2>1, <3>2, Zenon
      <4>2. j \in aborting \/ \E u \in Threads : calling[u].id = j
        BY <4>1, Zenon DEF HandlesSound, KernelIsAsked
      <4> QED  BY <2>4, <4>1, <4>2, Zenon
    <3> QED  BY <3>1, <3>2, Zenon
  <2> QED  BY <2>1, <2>2, <2>3, <2>5, Zenon DEF HandlesSound, KernelBacked
<1>10. ASSUME NEW t \in Threads, CancelIo(t) PROVE HandlesSound'
  <2> DEFINE c == calling[t]
  <2>1. /\ UNCHANGED <<live, op, inflight, shut, inc, open, reopens, reason>>
        /\ c # NotCalling /\ calling'[t] = NotCalling
        /\ \A u \in Threads : u # t => calling'[u] = calling[u]
        /\ aborting' = aborting \cup Reached(c.handle, c.addr)
    BY <1>10, Zenon DEF CancelIo, TypeOK
  <2>2. \A j : KernelBacked(j)' = KernelBacked(j)
    BY <2>1, Zenon DEF KernelBacked
  <2>3. c.id \in inflight => c.id \in aborting'
    <3> SUFFICES ASSUME c.id \in inflight, c.id \notin shut PROVE c.id \in Reached(c.handle, c.addr)
      BY <2>1, Zenon DEF HandlesSound
    <3>1. c.id \in live /\ KernelBacked(c.id)
      BY <1>4
    <3>2. c.addr = addr[c.id] /\ c.handle = op[c.id].handle
      BY <2>1, <3>1, Zenon DEF CallbacksSound, HandlesSound
    <3>3. op[c.id].handle \in open /\ inc[c.id] = reopens[op[c.id].handle]
      BY <3>1, Zenon DEF HandlesSound
    <3> QED  BY <3>2, <3>3, Zenon DEF Reached
  <2>4. \A j \in inflight : j \in aborting' \/ \A u \in Threads : calling[u].id = j => u # t
    BY <2>3
  <2>5. KernelIsAsked'
    <3> SUFFICES ASSUME NEW j \in inflight, reason[j] # "none" \/ j \in shut, j \notin aborting'
                 PROVE  \E u \in Threads : calling'[u].id = j
      BY <2>1, Zenon DEF KernelIsAsked
    <3>1. PICK u \in Threads : calling[u].id = j
      BY <2>1, Zenon DEF HandlesSound, KernelIsAsked
    <3> QED  BY <2>1, <2>4, <3>1, Zenon
  <2>6. \A u \in Threads : calling'[u] # NotCalling /\ op'[calling'[u].id].kind # "timer" /\ calling'[u].id \notin shut'
          => calling'[u].handle = op'[calling'[u].id].handle
    BY <2>1, <2>2, Zenon DEF HandlesSound, KernelBacked
  <2> QED  BY <2>1, <2>2, <2>5, <2>6, Zenon DEF HandlesSound, KernelBacked
<1>11. ASSUME NEW h \in Handles, Close(h) PROVE HandlesSound'
  <2>1. /\ UNCHANGED <<live, op, inflight, inc, reopens, calling, reason>>
        /\ shut' = shut \cup On(h) /\ open' = open \ {h}
        /\ aborting' = aborting \cup {i \in inflight : op[i].handle = h}
    BY <1>11, Zenon DEF Close
  <2>2. \A j : KernelBacked(j)' = KernelBacked(j)
    BY <2>1, Zenon DEF KernelBacked
  <2>3. \A i \in live' : KernelBacked(i)' /\ i \notin shut' => op'[i].handle \in open' /\ inc'[i] = reopens'[op'[i].handle]
    BY <2>1, <2>2, Zenon DEF HandlesSound, On
  <2>4. \A i \in inflight' \cap shut' : i \in aborting'
    BY <2>1, Zenon DEF HandlesSound, On
  <2>5. \A u \in Threads : calling'[u] # NotCalling /\ op'[calling'[u].id].kind # "timer" /\ calling'[u].id \notin shut'
          => calling'[u].handle = op'[calling'[u].id].handle
    BY <2>1, <2>2, Zenon DEF HandlesSound, KernelBacked
  <2>6. KernelIsAsked'
    BY <2>1, <2>4, Zenon DEF HandlesSound, KernelIsAsked
  <2> QED  BY <2>3, <2>4, <2>5, <2>6, Zenon DEF HandlesSound, KernelBacked
<1>12. ASSUME NEW h \in Handles, Reopen(h) PROVE HandlesSound'
  <2>1. /\ UNCHANGED <<live, op, shut, inflight, aborting, inc, calling, reason>>
        /\ h \notin open /\ open' = open \cup {h}
        /\ \A g \in Handles : g # h => reopens'[g] = reopens[g]
    BY <1>12, Zenon DEF Reopen, TypeOK
  <2>2. \A j : KernelBacked(j)' = KernelBacked(j)
    BY <2>1, Zenon DEF KernelBacked
  <2>3. \A i \in live' : KernelBacked(i)' /\ i \notin shut' => op'[i].handle \in open' /\ inc'[i] = reopens'[op'[i].handle]
    BY <2>1, <2>2, ZenonT(40) DEF HandlesSound, TypeOK
  <2> QED  BY <2>1, <2>2, <2>3, Zenon DEF HandlesSound, KernelIsAsked, KernelBacked
<1>13. CASE Collect
  <2>1. /\ UNCHANGED <<live, op, shut, inflight, inc, open, reopens, calling>>
        /\ aborting' = aborting \cup Interrupted(Overdue)
        /\ \A i \in Ids : reason'[i] = IF i \in Overdue THEN "timed_out" ELSE reason[i]
    BY <1>13, Zenon DEF Collect
  <2>2. \A j : KernelBacked(j)' = KernelBacked(j)
    BY <2>1, Zenon DEF KernelBacked
  <2>3. \A i \in inflight : i \in Overdue => i \in aborting'
    BY <2>1, Zenon DEF Interrupted, HandlesSound
  <2>4. KernelIsAsked'
    BY <1>4, <2>1, <2>3, Zenon DEF HandlesSound, KernelIsAsked
  <2> QED  BY <2>1, <2>2, <2>4, Zenon DEF HandlesSound, KernelBacked
<1>14. CASE Shutdown
  <2>1. /\ UNCHANGED <<live, op, shut, inflight, inc, open, reopens, calling>>
        /\ aborting' = aborting \cup Interrupted(live)
    BY <1>14, Zenon DEF Shutdown
  <2>2. \A j : KernelBacked(j)' = KernelBacked(j)
    BY <2>1, Zenon DEF KernelBacked
  <2>3. \A i \in inflight : i \in aborting'
    BY <1>4, <2>1, Zenon DEF Interrupted, HandlesSound
  <2>4. KernelIsAsked'
    BY <2>1, <2>3, Zenon DEF KernelIsAsked
  <2> QED  BY <2>1, <2>2, <2>4, Zenon DEF HandlesSound, KernelBacked
<1>15. ASSUME NEW e \in todo, Take(e) PROVE HandlesSound'
  BY <1>1, <1>15, Zenon DEF Take
<1>16. CASE Post \/ Tick \/ Drained
  BY <1>1, <1>16, Zenon DEF Post, Tick, Drained
<1>17. CASE RunOnce \/ Dequeue \/ DequeueFails \/ Resume \/ RunPosted \/ Suspend \/ Return
  BY <1>1, <1>17, Zenon DEF RunOnce, Dequeue, DequeueFails, Resume, RunPosted, Suspend, Return
<1>18. CASE UNCHANGED vars
  BY <1>1, <1>18, Zenon DEF vars
<1> QED
  BY <1>5, <1>6, <1>7, <1>8, <1>9, <1>10, <1>11, <1>12, <1>13, <1>14, <1>15, <1>16, <1>17, <1>18, Zenon DEF Next

-----------------------------------------------------------------------------
(* The invariant.                                                          *)

\* What the proofs carry along.
LoopInv == TypeOK /\ ControlSound /\ RecordsSound /\ KernelSound /\ CallbacksSound /\ HandlesSound

\* The loop starts in it and no step leaves it.
LEMMA LoopStep ==
  /\ Init => LoopInv
  /\ Counting /\ LoopInv /\ [Next]_vars => LoopInv'
<1>1. Init => LoopInv
  BY TypeInit, BaseInit, KernelInit, CallbacksInit, HandlesInit, Zenon DEF LoopInv
<1>2. Counting /\ LoopInv /\ [Next]_vars => LoopInv'
  BY TypeStep, ControlStep, RecordsStep, KernelStep, CallbacksStep, HandlesStep, Zenon DEF LoopInv
<1> QED  BY <1>1, <1>2

-----------------------------------------------------------------------------
(* The contract, and a completion beats the deadline that passes beside it. *)

\* The refinement mapping of IocpLoop!Contract.
PhaseBar == [i \in Ids |-> IF answer[i] # "none" THEN answer[i]
                           ELSE IF i <= nextId THEN "pending" ELSE "unused"]
LateBar == {i \in Ids : i <= nextId /\ op[i].deadline <= now}

Caused(i, out) ==
  /\ out = "cancelled" => i \in asked
  /\ out = "timed_out" => i <= nextId /\ op[i].deadline <= now

\* Whatever pins an answer has its cause, and so has a result still to be handed out.
CausesKnown ==
  /\ \A i \in shut : i \in asked
  /\ \A i \in Ids : Caused(i, reason[i])
  /\ \A e \in todo : Caused(e.id, e.out)

\* A success that was dequeued unpinned is classified as one, and delivered as one.
FinishedSound ==
  /\ \A i \in finished : KernelBacked(i)
  /\ \A i \in finished \ asked :
       \/ pc = "classify" /\ i \in dequeued /\ packets[i] = "ok" /\ reason[i] = "none" /\ i \in live
       \/ i \notin Outstanding /\ answer[i] \in {"none", "ok"} /\ \A e \in todo : e.id = i => e.out = "ok"

\* The socket of an accept is held as long as its record is.
AcceptsSound ==
  \A i \in Ids : op[i].kind = "accept" =>
    /\ i \in live => accepted[i] = "held"
    /\ answer[i] # "none" => accepted[i] = IF answer[i] = "ok" THEN "given" ELSE "closed"

-----------------------------------------------------------------------------
(* The invariant of IocpLoopProofs, and what follows from it.              *)

\* There are at most MaxOps operations to count.
LEMMA OperationsCount == Counting
<1>1. IsFiniteSet(Ids) /\ Cardinality(Ids) = MaxOps
  BY BoundsAssumption, FS_Interval DEF Ids
<1> SUFFICES ASSUME NEW S \in SUBSET Ids
             PROVE  /\ Cardinality(S) \in 0 .. MaxOps /\ (Cardinality(S) = 0 => S = {})
                    /\ \A i \in S : Cardinality(S \ {i}) = Cardinality(S) - 1
  BY DEF Counting
<1>2. IsFiniteSet(S) /\ Cardinality(S) <= Cardinality(Ids) /\ Cardinality(S) \in Nat
  BY <1>1, FS_Subset, FS_CardinalityType, Zenon
<1>3. Cardinality(S) \in 0 .. MaxOps
  BY <1>1, <1>2, BoundsAssumption
<1>4. Cardinality(S) = 0 => S = {}
  BY <1>2, FS_EmptySet
<1>5. \A i \in S : Cardinality(S \ {i}) = Cardinality(S) - 1
  BY <1>2, FS_RemoveElement, Zenon
<1> QED  BY <1>3, <1>4, <1>5, Zenon

\* LoopInv is an invariant of the completion-port loop.
LEMMA LoopInvariant == Spec => []LoopInv
<1>1. LoopInv /\ [Next]_vars => LoopInv'
  BY LoopStep, OperationsCount
<1> QED  BY <1>1, LoopStep, PTL DEF Spec

\* Whatever the program submits, stops and closes, operations_ keeps a record
\* exactly as long as the kernel may write through it, and shutdown waits for
\* exactly the packets the kernel still owes.
THEOREM TableAlwaysExact == Spec => []TableIsExact
<1>1. LoopInv => TableIsExact
  BY Zenon DEF LoopInv, TableIsExact, KernelSound, Outstanding, InTodo, WakeTimer
<1> QED  BY <1>1, LoopInvariant, PTL

\* cancel_io, called by a stop callback after the lock is released, never hits
\* another operation that has been allocated at the same address.
THEOREM CancelsAreAimed == Spec => []CancelsOnlyItsOwn
<1>1. LoopInv => CancelsOnlyItsOwn
  BY Zenon DEF LoopInv, CancelsOnlyItsOwn, CallbacksSound
<1> QED  BY <1>1, LoopInvariant, PTL

\* Every answer pinned on an operation in flight is followed up in the kernel.
THEOREM KernelIsAlwaysAsked == Spec => []KernelIsAsked
<1>1. LoopInv => KernelIsAsked
  BY ZenonT(40) DEF LoopInv, HandlesSound
<1> QED  BY <1>1, LoopInvariant, PTL
-----------------------------------------------------------------------------
(* Causes.                                                                 *)

\* Records are not rewritten, the clock does not go back, and nobody takes a
\* request to cancel back.
LEMMA Monotone ==
  ASSUME TypeOK, [Next]_vars
  PROVE  /\ asked \subseteq asked' /\ now <= now' /\ nextId <= nextId'
         /\ \A i \in Ids : i <= nextId => op'[i] = op[i]
<1> USE DEF table, queues, kernel, control, results, ghosts
<1>1. nextId \in Nat /\ now \in Nat /\ nextId <= nextId /\ now <= now /\ now <= now + 1 /\ nextId <= nextId + 1
  BY BoundsAssumption DEF TypeOK
<1>2. \A i \in Ids : i <= nextId => i # nextId + 1
  BY <1>1 DEF Ids
<1>3. ASSUME UNCHANGED <<asked, now>>, nextId' = nextId + 1, NEW r, op' = [op EXCEPT ![nextId + 1] = r]
      PROVE  asked \subseteq asked' /\ now <= now' /\ nextId <= nextId' /\ \A i \in Ids : i <= nextId => op'[i] = op[i]
  BY <1>1, <1>2, <1>3, Zenon DEF TypeOK
<1>4. ASSUME NEW r \in IoRequests, SubmitIo(r) \/ SubmitRefused(r)
      PROVE  asked \subseteq asked' /\ now <= now' /\ nextId <= nextId' /\ \A i \in Ids : i <= nextId => op'[i] = op[i]
  BY <1>3, <1>4, Zenon DEF SubmitIo, SubmitRefused, Acquire
<1>5. ASSUME NEW r \in SleepRequests, AddTimer(r)
      PROVE  asked \subseteq asked' /\ now <= now' /\ nextId <= nextId' /\ \A i \in Ids : i <= nextId => op'[i] = op[i]
  BY <1>3, <1>5, ZenonT(40) DEF AddTimer, Acquire
<1>6. ASSUME NEW t \in Threads, NEW i \in Ids, FixReason(t, i) PROVE asked \subseteq asked' /\ UNCHANGED <<now, nextId, op>>
  BY <1>6, Zenon DEF FixReason
<1>7. ASSUME NEW t \in Threads, CancelIo(t) PROVE UNCHANGED <<asked, now, nextId, op>>
  BY <1>7, Zenon DEF CancelIo
<1>8. ASSUME NEW i \in Ids, IoFinishes(i, "ok") \/ IoFinishes(i, "failed") \/ DrainOne(i)
      PROVE  UNCHANGED <<asked, now, nextId, op>>
  BY <1>8, Zenon DEF IoFinishes, DrainOne
<1>9. ASSUME NEW h \in Handles, Close(h) \/ Reopen(h) PROVE asked \subseteq asked' /\ UNCHANGED <<now, nextId, op>>
  BY <1>9, Zenon DEF Close, Reopen
<1>10. CASE Tick
  BY <1>1, <1>10, Zenon DEF Tick
<1>11. ASSUME NEW e \in todo, Take(e) PROVE UNCHANGED <<asked, now, nextId, op>>
  BY <1>11, ZenonT(40) DEF Take
<1>12. CASE Shutdown \/ Collect \/ Drained \/ Post
  BY <1>1, <1>12 DEF Shutdown, Collect, Drained, Post
<1>13. CASE RunOnce \/ Dequeue \/ DequeueFails \/ Resume \/ RunPosted \/ Suspend \/ Return
  BY <1>1, <1>13, ZenonT(40) DEF RunOnce, Dequeue, DequeueFails, Resume, RunPosted, Suspend, Return
<1>14. CASE UNCHANGED vars
  BY <1>1, <1>14, Zenon DEF vars
<1> QED
  BY <1>1, <1>4, <1>5, <1>6, <1>7, <1>8, <1>9, <1>10, <1>11, <1>12, <1>13, <1>14, ZenonT(40) DEF Next

\* Nothing takes a cause back.
LEMMA CausedStays ==
  ASSUME TypeOK, TypeOK', [Next]_vars, NEW i \in Ids, NEW out, Caused(i, out)
  PROVE  Caused(i, out)'
<1>1. asked \subseteq asked' /\ now <= now' /\ nextId <= nextId' /\ (i <= nextId => op'[i] = op[i])
  BY Monotone, Zenon
<1>2. i \in Nat /\ op[i].deadline \in Nat /\ now \in Nat /\ now' \in Nat /\ nextId \in Nat /\ nextId' \in Nat
  <2>1. /\ op \in [Ids -> OpType] /\ now \in 0 .. MaxTime /\ nextId \in 0 .. MaxOps
        /\ now' \in 0 .. MaxTime /\ nextId' \in 0 .. MaxOps
    BY ZenonT(40) DEF TypeOK, OpType
  <2>2. op[i] \in OpType
    BY <2>1, Zenon
  <2>3. op[i].deadline \in Times
    BY <2>2, Zenon DEF OpType
  <2> QED  BY <2>1, <2>3, BoundsAssumption DEF Times, Ids
<1>3. i <= nextId /\ op[i].deadline <= now => i <= nextId' /\ op'[i].deadline <= now'
  BY <1>1, <1>2
<1> QED  BY <1>1, <1>3, Zenon DEF Caused

\* A deadline that pins its operation has passed.
LEMMA OverdueCaused ==
  ASSUME TypeOK, RecordsSound, NEW t \in Expired, t.cut = 1
  PROVE  t.id \in Ids /\ Caused(t.id, "timed_out")
<1>1. t \in timers /\ t.at <= now
  BY DEF Expired
<1>2. t.id \in live /\ t \in TimersOf(t.id, op[t.id]) /\ t.id <= nextId /\ t.id \in Ids
  BY <1>1, Zenon DEF RecordsSound, TypeOK
<1>3. t.at = op[t.id].deadline
  BY <1>2 DEF TimersOf
<1> QED  BY <1>1, <1>2, <1>3 DEF Caused

\* Everything run_once hands out has its cause.
LEMMA BatchCaused ==
  ASSUME TypeOK, RecordsSound, CausesKnown, NEW e \in Batch
  PROVE  Caused(e.id, e.out)
<1>1. ASSUME NEW i \in dequeued, e = Entry(i, Completion, 0, 0, Outcome(i)) PROVE Caused(e.id, e.out)
  <2>1. e.id = i /\ e.out = Outcome(i) /\ i \in Ids
    BY <1>1, Zenon DEF Entry, TypeOK
  <2>2. reason[i] # "none" => Outcome(i) = reason[i]
    BY Zenon DEF Outcome
  <2>3. reason[i] = "none" /\ i \in shut => Outcome(i) = "cancelled"
    BY Zenon DEF Outcome
  <2>4. reason[i] = "none" /\ i \notin shut => Outcome(i) \in {"ok", "error"}
    BY Zenon DEF Outcome
  <2> QED  BY <2>1, <2>2, <2>3, <2>4, Zenon DEF CausesKnown, Caused
<1>2. ASSUME NEW t \in Expired, e = Entry(t.id, Expiry, t.at, t.cut, IF t.cut = 1 THEN "timed_out" ELSE "ok")
      PROVE  Caused(e.id, e.out)
  BY <1>2, OverdueCaused, Zenon DEF Entry, Caused
<1>3. ASSUME NEW i \in cancels, e = Entry(i, Cancelled, 0, 0, reason[i]) PROVE Caused(e.id, e.out)
  BY <1>3, Zenon DEF Entry, CausesKnown, TypeOK
<1> QED  BY <1>1, <1>2, <1>3, Zenon DEF Batch

\* Nothing is pinned in a new loop.
LEMMA CausesInit == Init => CausesKnown
  BY Zenon DEF Init, CausesKnown, Caused

\* Every step that pins an answer has a cause for it.
LEMMA CausesStep == TypeOK /\ TypeOK' /\ ControlSound /\ RecordsSound /\ CausesKnown /\ [Next]_vars => CausesKnown'
<1> SUFFICES ASSUME TypeOK, TypeOK', ControlSound, RecordsSound, CausesKnown, [Next]_vars PROVE CausesKnown'
  BY Zenon
<1> USE DEF table, queues, kernel, control, results, ghosts
<1>1. /\ \A i \in Ids : Caused(i, reason[i])'  \/ reason'[i] # reason[i]
      /\ \A e \in todo : Caused(e.id, e.out)'
      /\ asked \subseteq asked'
  <2>1. \A e \in todo : e.id \in Ids
    BY ZenonT(40) DEF TypeOK
  <2>2. ASSUME NEW i \in Ids, reason'[i] = reason[i] PROVE Caused(i, reason[i])'
    <3>1. PICK out : out = reason[i] /\ Caused(i, out)
      BY Zenon DEF CausesKnown
    <3>2. Caused(i, out)'
      BY <3>1, CausedStays
    <3> QED  BY <2>2, <3>1, <3>2, Zenon DEF Caused
  <2>3. ASSUME NEW e \in todo PROVE Caused(e.id, e.out)'
    <3>1. PICK i, out : i = e.id /\ out = e.out /\ Caused(i, out)
      BY DEF CausesKnown
    <3>2. Caused(i, out)'
      BY <2>1, <3>1, CausedStays, Zenon
    <3> QED  BY <3>1, <3>2, Zenon
  <2> QED  BY <2>2, <2>3, Monotone, ZenonT(40)
<1>2. ASSUME UNCHANGED <<shut, reason>>, todo' \subseteq todo PROVE CausesKnown'
  BY <1>1, <1>2, Zenon DEF CausesKnown
<1>3. ASSUME NEW r \in IoRequests, SubmitIo(r) \/ SubmitRefused(r) PROVE CausesKnown'
  BY <1>2, <1>3, Zenon DEF SubmitIo, SubmitRefused
<1>4. ASSUME NEW r \in SleepRequests, AddTimer(r) PROVE CausesKnown'
  BY <1>2, <1>4, Zenon DEF AddTimer
<1>5. ASSUME NEW t \in Threads, NEW i \in Ids, FixReason(t, i) PROVE CausesKnown'
  <2>1. UNCHANGED <<shut, todo>> /\ i \in asked' /\ reason'[i] = "cancelled" /\ \A j \in Ids : j # i => reason'[j] = reason[j]
    <3>1. reason \in [Ids -> {"none", "cancelled", "timed_out"}]
      BY Zenon DEF TypeOK
    <3>2. UNCHANGED <<shut, todo>> /\ i \in asked' /\ reason' = [reason EXCEPT ![i] = "cancelled"]
      BY <1>5, Zenon DEF FixReason
    <3> QED  BY <3>1, <3>2
  <2>2. Caused(i, reason[i])'
    BY <2>1, Zenon DEF Caused
  <2> QED  BY <1>1, <2>1, <2>2, Zenon DEF CausesKnown
<1>6. ASSUME NEW t \in Threads, CancelIo(t) PROVE CausesKnown'
  BY <1>2, <1>6, Zenon DEF CancelIo
<1>7. ASSUME NEW i \in Ids, IoFinishes(i, "ok") \/ IoFinishes(i, "failed") \/ DrainOne(i) PROVE CausesKnown'
  BY <1>2, <1>7, Zenon DEF IoFinishes, DrainOne
<1>8. ASSUME NEW h \in Handles, Close(h) PROVE CausesKnown'
  <2>1. UNCHANGED <<reason, todo>> /\ shut' = shut \cup On(h) /\ asked' = asked \cup On(h)
    BY <1>8, Zenon DEF Close
  <2> QED  BY <1>1, <2>1, Zenon DEF CausesKnown
<1>9. ASSUME NEW h \in Handles, Reopen(h) PROVE CausesKnown'
  BY <1>2, <1>9, Zenon DEF Reopen
<1>10. CASE Collect
  <2>1. /\ UNCHANGED <<shut, asked, nextId, op, now>> /\ todo' = Batch
        /\ \A i \in Ids : reason'[i] = IF i \in Overdue THEN "timed_out" ELSE reason[i]
    BY <1>10, ZenonT(40) DEF Collect
  <2>2. \A e \in todo' : Caused(e.id, e.out)'
    BY <2>1, BatchCaused, Zenon DEF Caused
  <2>3. \A i \in Overdue : Caused(i, "timed_out")
    BY OverdueCaused, Zenon DEF Overdue
  <2>4. \A i \in Ids : Caused(i, reason[i])'
    BY <1>1, <2>1, <2>3, Zenon DEF Caused
  <2> QED  BY <2>1, <2>2, <2>4, Zenon DEF CausesKnown
<1>11. ASSUME NEW e \in todo, Take(e) PROVE CausesKnown'
  BY <1>2, <1>11, Zenon DEF Take
<1>12. CASE Shutdown
  <2>1. /\ UNCHANGED <<shut, nextId, op, now, live>>
        /\ asked' = asked \cup {i \in live : reason[i] = "none"}
        /\ todo' = {Entry(i, Cancelled, 0, 0, IF reason[i] = "none" THEN "cancelled" ELSE reason[i]) : i \in live}
        /\ \A i \in Ids : reason'[i] = IF Pinnable(i) THEN "cancelled" ELSE reason[i]
    BY <1>12, Zenon DEF Shutdown
  <2>2. \A i \in Ids : Caused(i, reason[i])'
    BY <1>1, <2>1, Zenon DEF Caused, Pinnable
  <2>3. \A e \in todo' : e.id \in Ids /\ e.out = reason'[e.id]
    <3>1. live \subseteq Ids
      BY Zenon DEF TypeOK
    <3> TAKE e \in todo'
    <3>2. PICK i \in live : e = Entry(i, Cancelled, 0, 0, IF reason[i] = "none" THEN "cancelled" ELSE reason[i])
      BY <2>1, Zenon
    <3>3. e.id = i /\ e.out = IF reason[i] = "none" THEN "cancelled" ELSE reason[i]
      BY <3>2, Zenon DEF Entry
    <3> QED  BY <2>1, <3>1, <3>3, Zenon DEF Pinnable
  <2>4. \A e \in todo' : Caused(e.id, e.out)'
    BY <2>2, <2>3, ZenonT(40) DEF Caused
  <2> QED  BY <1>1, <2>1, <2>2, <2>4, ZenonT(40) DEF CausesKnown
<1>13. CASE Post \/ Tick \/ Drained
  BY <1>2, <1>13 DEF Post, Tick, Drained
<1>14. CASE RunOnce \/ Dequeue \/ DequeueFails \/ Resume \/ RunPosted \/ Suspend \/ Return
  BY <1>2, <1>14, ZenonT(40) DEF RunOnce, Dequeue, DequeueFails, Resume, RunPosted, Suspend, Return
<1>15. CASE UNCHANGED vars
  BY <1>2, <1>15, Zenon DEF vars
<1> QED
  BY <1>3, <1>4, <1>5, <1>6, <1>7, <1>8, <1>9, <1>10, <1>11, <1>12, <1>13, <1>14, <1>15, ZenonT(40) DEF Next

-----------------------------------------------------------------------------
(* Successes, and the sockets of accepts.                                  *)

\* Only its packet puts a finished operation into a batch.
LEMMA FinishedOnce ==
  ASSUME TypeOK, RecordsSound, KernelSound, NEW e \in Batch, e.id \in Ids, KernelBacked(e.id)
  PROVE  e.id \in dequeued /\ e.out = Outcome(e.id)
<1>1. ASSUME NEW i \in dequeued, e = Entry(i, Completion, 0, 0, Outcome(i))
      PROVE  e.id \in dequeued /\ e.out = Outcome(e.id)
  BY <1>1, Zenon DEF Entry
<1>2. ASSUME NEW t \in Expired, ResolvableNow(t),
             e = Entry(t.id, Expiry, t.at, t.cut, IF t.cut = 1 THEN "timed_out" ELSE "ok")
      PROVE  FALSE
  <2>1. e.id = t.id /\ t.id \in Ids /\ t.id <= nextId /\ t \in TimersOf(t.id, op[t.id])
    BY <1>2, Zenon DEF Expired, Entry, RecordsSound, TypeOK
  <2>2. t.cut = 0
    BY <1>2, <2>1, Zenon DEF ResolvableNow
  <2>3. op[t.id].wake # Never
    BY <2>1, <2>2 DEF TimersOf
  <2>4. op[t.id] \in IoOps \cup Sleeps
    BY <2>1 DEF RecordsSound
  <2> QED  BY <2>1, <2>3, <2>4, Zenon DEF IoOps, Sleeps, KernelBacked
<1>3. ASSUME NEW i \in cancels, e = Entry(i, Cancelled, 0, 0, reason[i]) PROVE FALSE
  BY <1>3, ZenonT(40) DEF Entry, KernelSound
<1> QED  BY <1>1, <1>2, <1>3, Zenon DEF Batch

\* No success has been dequeued and no accept started in a new loop.
LEMMA ResultsInit == Init => FinishedSound /\ AcceptsSound
  BY Zenon DEF Init, FinishedSound, AcceptsSound

\* Every step leaves a dequeued success a success, unless it asks for the
\* cancellation itself.
LEMMA FinishedStep ==
  TypeOK /\ ControlSound /\ RecordsSound /\ KernelSound /\ CausesKnown /\ FinishedSound /\ [Next]_vars => FinishedSound'
<1> SUFFICES ASSUME TypeOK, ControlSound, RecordsSound, KernelSound, CausesKnown, FinishedSound, [Next]_vars
             PROVE  FinishedSound'
  BY Zenon
<1> USE DEF table, queues, kernel, control, results, ghosts
<1>1. ASSUME finished' = finished, asked \subseteq asked', Outstanding' = Outstanding, UNCHANGED <<dequeued, reason, live, todo>>,
             UNCHANGED pc \/ (pc # "classify" /\ pc' # "classify"),
             \A i \in finished : op'[i] = op[i] /\ packets'[i] = packets[i] /\ answer'[i] = answer[i]
      PROVE  FinishedSound'
  BY <1>1, ZenonT(40) DEF FinishedSound, KernelBacked
<1>2. ASSUME UNCHANGED <<inflight, packets>> PROVE Outstanding' = Outstanding
  BY <1>2 DEF Outstanding
<1>3. \A i \in finished : i \in Ids /\ i <= nextId
  BY Zenon DEF RecordsSound, TypeOK
<1>4. ASSUME NEW r \in IoRequests, SubmitIo(r) PROVE FinishedSound'
  <2>1. PICK a \in FreeAddrs : Acquire(r, a)
    BY <1>4, Zenon DEF SubmitIo
  <2> DEFINE n == nextId + 1
  <2>2. /\ live' = live \cup {n}
        /\ \A i \in Ids : i # n => op'[i] = op[i]
        /\ \A i \in Ids : i <= nextId => i # n
    BY <1>4, <2>1, RequestTypes, AcquireFacts, Zenon DEF SubmitIo
  <2>3. inflight' = inflight \cup {n} /\ UNCHANGED <<pc, packets, asked, answer, dequeued, reason, todo, finished>>
    BY <1>4, Zenon DEF SubmitIo
  <2> HIDE DEF n
  <2>4. \A i \in finished : i # n /\ op'[i] = op[i] /\ (i \in Outstanding' => i \in Outstanding)
    BY <1>3, <2>2, <2>3, ZenonT(40) DEF Outstanding
  <2> QED  BY <2>2, <2>3, <2>4, ZenonT(40) DEF FinishedSound, KernelBacked
<1>5. ASSUME NEW r \in SleepRequests, AddTimer(r) PROVE FinishedSound'
  <2>1. PICK a \in FreeAddrs : Acquire(r, a)
    BY <1>5 DEF AddTimer
  <2>2. live \subseteq live' /\ \A i \in Ids : i <= nextId => op'[i] = op[i]
    BY <1>5, <2>1, RequestTypes, AcquireFacts, ZenonT(40) DEF AddTimer
  <2>3. UNCHANGED <<pc, inflight, packets, asked, answer, dequeued, reason, todo, finished>>
    BY <1>5, Zenon DEF AddTimer
  <2> QED  BY <1>2, <1>3, <2>2, <2>3, Zenon DEF FinishedSound, KernelBacked
<1>6. ASSUME NEW r \in IoRequests, SubmitRefused(r) PROVE FinishedSound'
  <2>0. finished \subseteq Ids /\ nextId \in 0 .. MaxOps
    BY Zenon DEF TypeOK
  <2>1. \A i \in finished : i \in Ids /\ i # nextId + 1
    BY <1>3, <2>0, BoundsAssumption DEF Ids
  <2>2. \A i \in finished : op'[i] = op[i] /\ answer'[i] = answer[i]
    BY <1>6, <2>1, Zenon DEF SubmitRefused, TypeOK
  <2> QED  BY <1>1, <1>2, <1>6, <2>2, Zenon DEF SubmitRefused
<1>7. ASSUME NEW i \in Ids, NEW status \in {"ok", "failed"}, IoFinishes(i, status) PROVE FinishedSound'
  <2>1. /\ i \in inflight /\ inflight' = inflight \ {i} /\ packets'[i] # "none"
        /\ \A j \in Ids : j # i => packets'[j] = packets[j]
        /\ UNCHANGED <<pc, asked, op, live, answer, dequeued, reason, todo, finished>>
    BY <1>7, Zenon DEF IoFinishes, TypeOK
  <2>2. Outstanding' = Outstanding /\ i \in Outstanding /\ packets[i] = "none"
    BY <2>1, ZenonT(40) DEF Outstanding, KernelSound
  <2>3. \A j \in finished \ asked : j # i
    BY <2>2 DEF FinishedSound
  <2>4. \A j : KernelBacked(j)' = KernelBacked(j)
    BY <2>1, Zenon DEF KernelBacked
  <2>5. ASSUME NEW j \in finished \ asked
        PROVE  \/ pc' = "classify" /\ j \in dequeued' /\ packets'[j] = "ok" /\ reason'[j] = "none" /\ j \in live'
               \/ j \notin Outstanding' /\ answer'[j] \in {"none", "ok"} /\ \A e \in todo' : e.id = j => e.out = "ok"
    <3>1. packets'[j] = packets[j]
      BY <1>3, <2>1, <2>3, Zenon
    <3>2. \/ pc = "classify" /\ j \in dequeued /\ packets[j] = "ok" /\ reason[j] = "none" /\ j \in live
          \/ j \notin Outstanding /\ answer[j] \in {"none", "ok"} /\ \A e \in todo : e.id = j => e.out = "ok"
      BY Zenon DEF FinishedSound
    <3> QED  BY <2>1, <2>2, <3>1, <3>2, Zenon
  <2> QED  BY <2>1, <2>4, <2>5, Zenon DEF FinishedSound
<1>8. ASSUME NEW t \in Threads, NEW i \in Ids, FixReason(t, i) PROVE FinishedSound'
  <2>1. /\ UNCHANGED <<pc, inflight, packets, op, live, answer, dequeued, todo, finished>>
        /\ asked' = asked \cup {i} /\ \A j \in Ids : j # i => reason'[j] = reason[j]
    BY <1>8, Zenon DEF FixReason, TypeOK
  <2> QED  BY <1>2, <1>3, <2>1, Zenon DEF FinishedSound, KernelBacked
<1>9. ASSUME NEW t \in Threads, CancelIo(t) PROVE FinishedSound'
  BY <1>1, <1>2, <1>9, Zenon DEF CancelIo
<1>10. ASSUME NEW h \in Handles, Close(h) \/ Reopen(h) PROVE FinishedSound'
  BY <1>1, <1>2, <1>10, Zenon DEF Close, Reopen
<1>11. CASE Post \/ Tick \/ Drained
  BY <1>1, <1>2, <1>11, Zenon DEF Post, Tick, Drained
<1>12. CASE RunOnce \/ DequeueFails \/ Resume \/ RunPosted \/ Suspend \/ Return
  BY <1>1, <1>2, <1>12, Zenon DEF RunOnce, DequeueFails, Resume, RunPosted, Suspend, Return, UserRuns
<1>13. CASE Dequeue
  <2>1. PICK S \in SUBSET InPort : /\ dequeued' = S
                                   /\ finished' = finished \cup {i \in S : packets[i] = "ok" /\ reason[i] = "none"}
    BY <1>13, ZenonT(40) DEF Dequeue
  <2>2. pc = "poll" /\ pc' = "classify" /\ UNCHANGED <<inflight, packets, asked, op, live, answer, reason, todo>>
    BY <1>13, Zenon DEF Dequeue
  <2>3. \A i \in S : i \in live /\ KernelBacked(i)
    BY <2>1, Zenon DEF InPort, KernelSound, Outstanding
  <2>4. \A i \in finished' : KernelBacked(i)'
    BY <2>1, <2>2, <2>3, Zenon DEF FinishedSound, KernelBacked
  <2>5. \A i \in finished' \ asked' : i \in finished \ asked \/ (i \in dequeued' /\ packets[i] = "ok" /\ reason[i] = "none" /\ i \in live)
    BY <2>1, <2>2, <2>3, Zenon
  <2> QED  BY <1>2, <2>2, <2>4, <2>5, Zenon DEF FinishedSound
<1>14. CASE Collect
  <2>1. /\ UNCHANGED <<inflight, asked, op, live, answer, finished, shut>>
        /\ packets' = [i \in Ids |-> IF i \in dequeued THEN "none" ELSE packets[i]]
        /\ todo' = Batch /\ pc = "classify" /\ pc' = "deliver"
    BY <1>14, ZenonT(40) DEF Collect
  <2>2. \A i \in inflight : i \in Ids /\ i \notin dequeued
    BY DEF KernelSound, ControlSound, TypeOK
  <2>3. Outstanding' = Outstanding \ dequeued /\ dequeued \subseteq Outstanding
    BY <2>1, <2>2, Zenon DEF Outstanding, ControlSound, TypeOK
  <2>4. ASSUME NEW i \in finished \ asked
        PROVE  i \notin Outstanding' /\ answer[i] \in {"none", "ok"} /\ \A e \in Batch : e.id = i => e.out = "ok"
    <3>1. i \in Ids /\ KernelBacked(i) /\ i \notin shut
      BY <1>3, Zenon DEF FinishedSound, CausesKnown
    <3>2. \A e \in Batch : e.id = i => i \in dequeued /\ e.out = Outcome(i)
      BY <3>1, FinishedOnce, Zenon
    <3>3. CASE i \in dequeued /\ packets[i] = "ok" /\ reason[i] = "none" /\ i \in live
      BY <2>3, <3>1, <3>2, <3>3, Zenon DEF Outcome, RecordsSound
    <3>4. CASE i \notin Outstanding /\ answer[i] \in {"none", "ok"}
      BY <2>3, <3>2, <3>4, ZenonT(40)
    <3> QED  BY <3>3, <3>4, Zenon DEF FinishedSound
  <2> QED  BY <2>1, <2>4, Zenon DEF FinishedSound, KernelBacked
<1>15. ASSUME NEW e \in todo, Take(e) PROVE FinishedSound'
  <2>1. /\ UNCHANGED <<inflight, packets, asked, op, finished>> /\ pc = "deliver" /\ todo' \subseteq todo
        /\ answer' = answer \/ answer' = [answer EXCEPT ![e.id] = e.out]
    BY <1>15, Zenon DEF Take
  <2>2. \A i \in finished \ asked : i \notin Outstanding /\ answer[i] \in {"none", "ok"} /\ \A f \in todo : f.id = i => f.out = "ok"
    BY <2>1, ZenonT(40) DEF FinishedSound
  <2>3. \A i \in finished \ asked : answer'[i] \in {"none", "ok"}
    <3>1. finished \subseteq Ids /\ answer \in [Ids -> {"none", "ok", "timed_out", "cancelled", "error"}]
      BY Zenon DEF TypeOK
    <3> QED  BY <2>1, <2>2, <3>1
  <2> QED  BY <1>2, <2>1, <2>2, <2>3, Zenon DEF FinishedSound, KernelBacked
<1>16. CASE Shutdown
  <2>1. /\ UNCHANGED <<inflight, packets, op, live, answer, finished>> /\ asked \subseteq asked'
        /\ pc = "user" /\ ~batch
        /\ todo' = {Entry(i, Cancelled, 0, 0, IF reason[i] = "none" THEN "cancelled" ELSE reason[i]) : i \in live}
    BY <1>16 DEF Shutdown, UserRuns
  <2>2. \A i \in finished \ asked : i \notin Outstanding /\ answer[i] \in {"none", "ok"} /\ KernelBacked(i)
    BY <2>1, Zenon DEF FinishedSound
  <2>3. \A i \in finished \ asked : i \notin live
    BY <2>1, <2>2, Zenon DEF KernelSound, ControlSound, InTodo
  <2>4. \A i \in finished \ asked, e \in todo' : e.id # i
    <3> TAKE i \in finished \ asked, e \in todo'
    <3>1. e.id \in live
      <4>1. PICK j \in live : e = Entry(j, Cancelled, 0, 0, IF reason[j] = "none" THEN "cancelled" ELSE reason[j])
        BY <2>1
      <4> QED  BY <4>1, Zenon DEF Entry
    <3> QED  BY <2>3, <3>1, Zenon
  <2> QED  BY <1>2, <2>1, <2>2, <2>4, ZenonT(40) DEF FinishedSound, KernelBacked
<1>17. ASSUME NEW i \in Ids, DrainOne(i) PROVE FinishedSound'
  <2>1. /\ UNCHANGED <<pc, inflight, asked, op, live, answer, todo, finished>> /\ pc = "drain"
        /\ packets'[i] = "none" /\ \A j \in Ids : j # i => packets'[j] = packets[j]
    BY <1>17, Zenon DEF DrainOne, TypeOK
  <2>2. Outstanding' \subseteq Outstanding
    BY <2>1, Zenon DEF Outstanding
  <2> QED  BY <2>1, <2>2, Zenon DEF FinishedSound, KernelBacked
<1>18. CASE UNCHANGED vars
  BY <1>1, <1>2, <1>18, ZenonT(40) DEF vars
<1> QED
  BY <1>4, <1>5, <1>6, <1>7, <1>8, <1>9, <1>10, <1>11, <1>12, <1>13, <1>14, <1>15, <1>16, <1>17, <1>18, ZenonT(40) DEF Next

\* Every step keeps the socket of an accept with its record.
LEMMA AcceptsStep == TypeOK /\ RecordsSound /\ AcceptsSound /\ [Next]_vars => AcceptsSound'
<1> SUFFICES ASSUME TypeOK, RecordsSound, AcceptsSound, [Next]_vars PROVE AcceptsSound'
  OBVIOUS
<1> USE DEF table, queues, kernel, control, results, ghosts
<1>1. ASSUME UNCHANGED <<op, live, answer, accepted>> PROVE AcceptsSound'
  BY <1>1, ZenonT(40) DEF AcceptsSound
<1>2. ASSUME NEW r \in IoRequests, SubmitIo(r) PROVE AcceptsSound'
  <2>1. PICK a \in FreeAddrs : Acquire(r, a)
    BY <1>2, Zenon DEF SubmitIo
  <2> DEFINE n == nextId + 1
  <2>2. /\ n \in Ids /\ op'[n] = r /\ live' = live \cup {n} /\ nextId < n
        /\ \A i \in Ids : i # n => op'[i] = op[i]
    BY <1>2, <2>1, RequestTypes, AcquireFacts, Zenon DEF SubmitIo
  <2>3. /\ answer' = answer /\ (r.kind = "accept" => accepted'[n] = "held")
        /\ \A i \in Ids : i # n => accepted'[i] = accepted[i]
    BY <1>2, <2>2, ZenonT(40) DEF SubmitIo, TypeOK
  <2> HIDE DEF n
  <2>4. answer[n] = "none"
    BY <2>2, Zenon DEF RecordsSound
  <2> QED  BY <2>2, <2>3, <2>4, ZenonT(40) DEF AcceptsSound
<1>3. ASSUME NEW r \in IoRequests, SubmitRefused(r) PROVE AcceptsSound'
  <2> DEFINE n == nextId + 1
  <2>1. n \in Ids /\ \A i \in Ids : i <= nextId => i # n
    <3>1. nextId \in Nat
      BY DEF TypeOK
    <3>2. nextId < MaxOps
      BY <1>3, Zenon DEF SubmitRefused, Admitted
    <3> QED  BY <3>1, <3>2, BoundsAssumption DEF Ids
  <2>2. /\ op'[n] = r /\ answer'[n] = "error" /\ (r.kind = "accept" => accepted'[n] = "closed") /\ live' = live
        /\ \A i \in Ids : i # n => op'[i] = op[i] /\ answer'[i] = answer[i] /\ accepted'[i] = accepted[i]
    BY <1>3, <2>1, Zenon DEF SubmitRefused, TypeOK
  <2> HIDE DEF n
  <2>3. n \notin live
    BY <2>1, Zenon DEF RecordsSound, TypeOK
  <2> QED  BY <2>1, <2>2, <2>3, ZenonT(40) DEF AcceptsSound
<1>4. ASSUME NEW r \in SleepRequests, AddTimer(r) PROVE AcceptsSound'
  <2>1. PICK a \in FreeAddrs : Acquire(r, a)
    BY <1>4 DEF AddTimer
  <2> DEFINE n == nextId + 1
  <2>2. /\ n \in Ids /\ op'[n] = r /\ live' = live \cup {n}
        /\ \A i \in Ids : i # n => op'[i] = op[i]
    BY <1>4, <2>1, RequestTypes, AcquireFacts, ZenonT(40) DEF AddTimer
  <2> HIDE DEF n
  <2>3. UNCHANGED <<answer, accepted>> /\ r.kind # "accept"
    BY <1>4, RequestTypes DEF AddTimer, Sleeps
  <2> QED  BY <2>2, <2>3, Zenon DEF AcceptsSound
<1>5. ASSUME NEW t \in Threads, NEW i \in Ids, FixReason(t, i) PROVE AcceptsSound'
  BY <1>1, <1>5, ZenonT(40) DEF FixReason
<1>6. ASSUME NEW t \in Threads, CancelIo(t) PROVE AcceptsSound'
  BY <1>1, <1>6 DEF CancelIo
<1>7. ASSUME NEW i \in Ids, IoFinishes(i, "ok") \/ IoFinishes(i, "failed") \/ DrainOne(i) PROVE AcceptsSound'
  BY <1>1, <1>7, Zenon DEF IoFinishes, DrainOne
<1>8. ASSUME NEW h \in Handles, Close(h) \/ Reopen(h) PROVE AcceptsSound'
  BY <1>1, <1>8, Zenon DEF Close, Reopen
<1>9. ASSUME NEW e \in todo, Take(e) PROVE AcceptsSound'
  <2>1. CASE e.id \notin live
    BY <1>1, <1>9, <2>1, ZenonT(40) DEF Take
  <2>2. CASE e.id \in live
    <3>1. e.id \in Ids
      BY <2>2 DEF TypeOK
    <3>2. /\ op' = op /\ live' = live \ {e.id}
          /\ answer'[e.id] = e.out /\ accepted'[e.id] = Settled(accepted[e.id], e.out)
          /\ \A i \in Ids : i # e.id => answer'[i] = answer[i] /\ accepted'[i] = accepted[i]
      BY <1>9, <2>2, <3>1, ZenonT(40) DEF Take, TypeOK
    <3>3. op[e.id].kind = "accept" => accepted[e.id] = "held"
      BY <2>2, <3>1, Zenon DEF AcceptsSound
    <3>4. op[e.id].kind = "accept" => accepted'[e.id] = IF answer'[e.id] = "ok" THEN "given" ELSE "closed"
      BY <3>2, <3>3, Zenon DEF Settled
    <3> SUFFICES ASSUME NEW i \in Ids, op[i].kind = "accept"
                 PROVE  /\ i \in live' => accepted'[i] = "held"
                        /\ answer'[i] # "none" => accepted'[i] = IF answer'[i] = "ok" THEN "given" ELSE "closed"
      BY <3>2, Zenon DEF AcceptsSound
    <3>5. CASE i = e.id
      BY <3>2, <3>4, <3>5, Zenon
    <3>6. CASE i # e.id
      <4>1. answer'[i] = answer[i] /\ accepted'[i] = accepted[i] /\ (i \in live' => i \in live)
        BY <3>2, <3>6, Zenon
      <4>2. /\ i \in live => accepted[i] = "held"
            /\ answer[i] # "none" => accepted[i] = IF answer[i] = "ok" THEN "given" ELSE "closed"
        BY Zenon DEF AcceptsSound
      <4> QED  BY <4>1, <4>2, Zenon
    <3> QED  BY <3>5, <3>6, ZenonT(40)
  <2> QED  BY <2>1, <2>2
<1>10. CASE Post \/ Tick \/ Collect \/ Shutdown \/ Drained
  BY <1>1, <1>10, Zenon DEF Post, Tick, Collect, Shutdown, Drained
<1>11. CASE RunOnce \/ Dequeue \/ DequeueFails \/ Resume \/ RunPosted \/ Suspend \/ Return
  BY <1>1, <1>11, ZenonT(40) DEF RunOnce, Dequeue, DequeueFails, Resume, RunPosted, Suspend, Return
<1>12. CASE UNCHANGED vars
  BY <1>1, <1>12 DEF vars
<1> QED
  BY <1>2, <1>3, <1>4, <1>5, <1>6, <1>7, <1>8, <1>9, <1>10, <1>11, <1>12, ZenonT(40) DEF Next

-----------------------------------------------------------------------------
(* The refinement.                                                         *)

\* A step the callers do not notice, but for requests to cancel and time.
Quiet == UNCHANGED <<answer, nextId, op>> /\ asked \subseteq asked' /\ now <= now'

\* A submission that is taken, or refused on the spot.
Submits(r, a) ==
  /\ Admitted(r) /\ UNCHANGED <<asked, now>>
  /\ nextId' = nextId + 1 /\ op' = [op EXCEPT ![nextId + 1] = r]
  /\ answer' = IF a = "none" THEN answer ELSE [answer EXCEPT ![nextId + 1] = a]

Resolves(i, a) ==
  /\ i \in live /\ a \in {"ok", "timed_out", "cancelled", "error"} /\ Caused(i, a)
  /\ answer' = [answer EXCEPT ![i] = a]
  /\ UNCHANGED <<op, nextId, now, asked>>

\* Every step of the loop is, to its callers, nothing, a submission, or one
\* operation leaving the table with an answer that has a cause.
LEMMA StepKinds ==
  ASSUME TypeOK, CausesKnown, [Next]_vars
  PROVE  \/ Quiet
         \/ \E r : Submits(r, "none") \/ Submits(r, "error")
         \/ \E i \in Ids : \E a : Resolves(i, a)
<1> USE DEF table, queues, kernel, control, results, ghosts
<1>1. ASSUME UNCHANGED <<answer, nextId, op>> PROVE Quiet
  BY <1>1, Monotone DEF Quiet
<1>2. ASSUME NEW r \in IoRequests, SubmitIo(r) PROVE Submits(r, "none")
  BY <1>2, Zenon DEF SubmitIo, Acquire, Submits
<1>3. ASSUME NEW r \in IoRequests, SubmitRefused(r) PROVE Submits(r, "error")
  BY <1>3, Zenon DEF SubmitRefused, Submits
<1>4. ASSUME NEW r \in SleepRequests, AddTimer(r) PROVE Submits(r, "none")
  BY <1>4 DEF AddTimer, Acquire, Submits
<1>5. ASSUME NEW e \in todo, Take(e) PROVE Quiet \/ \E i \in Ids : \E a : Resolves(i, a)
  <2>1. CASE e.id \in live
    <3>1. e.id \in Ids /\ e.out \in {"ok", "timed_out", "cancelled", "error"} /\ Caused(e.id, e.out)
      BY DEF TypeOK, CausesKnown
    <3>2. Resolves(e.id, e.out)
      BY <1>5, <2>1, <3>1, Zenon DEF Take, Resolves
    <3> QED  BY <3>1, <3>2, ZenonT(40)
  <2>2. CASE e.id \notin live
    BY <1>1, <1>5, <2>2, Zenon DEF Take
  <2> QED  BY <2>1, <2>2, Zenon
<1>6. ASSUME NEW t \in Threads, NEW i \in Ids, FixReason(t, i) PROVE Quiet
  BY <1>1, <1>6, ZenonT(40) DEF FixReason
<1>7. ASSUME NEW t \in Threads, CancelIo(t) PROVE Quiet
  BY <1>1, <1>7 DEF CancelIo
<1>8. ASSUME NEW i \in Ids, IoFinishes(i, "ok") \/ IoFinishes(i, "failed") \/ DrainOne(i) PROVE Quiet
  BY <1>1, <1>8, Zenon DEF IoFinishes, DrainOne
<1>9. ASSUME NEW h \in Handles, Close(h) \/ Reopen(h) PROVE Quiet
  BY <1>1, <1>9, Zenon DEF Close, Reopen
<1>10. CASE Post \/ Tick \/ Collect \/ Shutdown \/ Drained
  BY <1>1, <1>10, Zenon DEF Post, Tick, Collect, Shutdown, Drained
<1>11. CASE RunOnce \/ Dequeue \/ DequeueFails \/ Resume \/ RunPosted \/ Suspend \/ Return
  BY <1>1, <1>11, ZenonT(40) DEF RunOnce, Dequeue, DequeueFails, Resume, RunPosted, Suspend, Return
<1>12. CASE UNCHANGED vars
  BY <1>1, <1>12, Zenon DEF vars
<1> QED
  BY <1>2, <1>3, <1>4, <1>5, <1>6, <1>7, <1>8, <1>9, <1>10, <1>11, <1>12, ZenonT(40) DEF Next

\* Every step of the loop is a step of the contract or a stutter of it.
LEMMA ContractStep ==
  TypeOK /\ TypeOK' /\ RecordsSound /\ CausesKnown /\ [Next]_vars => [Contract!ContractNext]_(Contract!contractVars)
<1> SUFFICES ASSUME TypeOK, TypeOK', RecordsSound, CausesKnown, [Next]_vars PROVE Contract!ContractNext
  OBVIOUS
<1>1. /\ nextId \in Nat /\ now \in Nat /\ now' \in Nat /\ Ids \subseteq Nat /\ asked' \subseteq Ids
      /\ answer \in [Ids -> {"none", "ok", "timed_out", "cancelled", "error"}]
  <2>1. nextId \in Nat /\ now \in Nat /\ now' \in Nat
    <3>1. nextId \in 0 .. MaxOps /\ now \in 0 .. MaxTime /\ now' \in 0 .. MaxTime
      BY Zenon DEF TypeOK
    <3> QED  BY <3>1
  <2>2. asked' \subseteq Ids /\ answer \in [Ids -> {"none", "ok", "timed_out", "cancelled", "error"}]
    BY Zenon DEF TypeOK
  <2> QED  BY <2>1, <2>2 DEF Ids
<1>2. \A i \in Ids : op[i].deadline \in Nat /\ op'[i].deadline \in Nat
  <2>1. Times \subseteq Nat
    BY BoundsAssumption DEF Times
  <2>2. op \in [Ids -> OpType] /\ op' \in [Ids -> OpType]
    BY Zenon DEF TypeOK, OpType
  <2>3. \A o \in OpType : o.deadline \in Times
    BY DEF OpType
  <2> QED  BY <2>1, <2>2, <2>3, Zenon
<1>3. CASE Quiet
  <2>1. PhaseBar' = PhaseBar
    BY <1>3, Zenon DEF Quiet, PhaseBar
  <2>2. LateBar \subseteq LateBar'
    <3>1. \A x \in Nat : x <= now => x <= now'
      <4>1. now <= now'
        BY <1>3, Zenon DEF Quiet
      <4> QED  BY <1>1, <4>1
    <3>2. \A i \in Ids : op[i].deadline <= now => op[i].deadline <= now'
      BY <1>2, <3>1, Zenon
    <3> QED  BY <1>3, <3>2 DEF Quiet, LateBar
  <2>3. Contract!Surroundings
    BY <1>1, <1>3, <2>1, <2>2, Zenon DEF Quiet, PhaseBar, LateBar, Contract!Surroundings
  <2> QED  BY <2>3, Zenon DEF Contract!ContractNext
<1>4. ASSUME NEW r, Submits(r, "none") \/ Submits(r, "error") PROVE Contract!ContractNext
  <2>0. nextId < MaxOps
    BY <1>4, Zenon DEF Submits, Admitted
  <2>1. nextId + 1 \in Ids
    BY <1>1, <2>0, BoundsAssumption DEF Ids
  <2>2. PICK i \in Ids : i = nextId + 1
    BY <2>1, Zenon
  <2>3. op' = [op EXCEPT ![i] = r] /\ nextId' = i /\ now < r.deadline /\ UNCHANGED <<asked, now>>
    BY <1>4, <2>2, Zenon DEF Submits, Admitted
  <2>4. \A j \in Ids : j # i => op'[j] = op[j] /\ (j <= nextId' <=> j <= nextId)
    BY <1>1, <2>2, <2>3
  <2>5. answer[i] = "none" /\ ~(i <= nextId) /\ i <= nextId'
    BY <1>1, <2>2, <2>3 DEF RecordsSound
  <2>6. op'[i] = r
    <3>1. op \in [Ids -> OpType]
      BY ZenonT(40) DEF TypeOK, OpType
    <3> QED  BY <2>2, <2>3, <3>1, Zenon
  <2>7. LateBar' = LateBar
    <3>1. ~(op'[i].deadline <= now)
      BY <1>1, <1>2, <2>3, <2>6
    <3> QED  BY <2>3, <2>4, <2>5, <3>1, Zenon DEF LateBar
  <2>8. CASE Submits(r, "none")
    <3>1. answer' = answer
      BY <2>8 DEF Submits
    <3>2. PhaseBar[i] = "unused" /\ PhaseBar' = [PhaseBar EXCEPT ![i] = "pending"]
      BY <2>3, <2>4, <2>5, <3>1, ZenonT(40) DEF PhaseBar
    <3>3. Contract!Submit(i)
      BY <2>3, <2>7, <3>2, Zenon DEF PhaseBar, LateBar, Contract!Submit
    <3> QED  BY <3>3, Zenon DEF Contract!ContractNext
  <2>9. CASE Submits(r, "error")
    <3>1. answer' = [answer EXCEPT ![i] = "error"]
      BY <2>2, <2>9, Zenon DEF Submits
    <3>2. answer'[i] = "error" /\ \A j \in Ids : j # i => answer'[j] = answer[j]
      BY <1>1, <3>1
    <3>3. PhaseBar[i] = "unused" /\ PhaseBar' = [PhaseBar EXCEPT ![i] = "error"]
      BY <2>3, <2>4, <2>5, <3>2, ZenonT(40) DEF PhaseBar
    <3>4. Contract!Refuse(i)
      BY <2>3, <2>7, <3>3, Zenon DEF PhaseBar, LateBar, Contract!Refuse
    <3> QED  BY <3>4, Zenon DEF Contract!ContractNext
  <2> QED  BY <1>4, <2>8, <2>9, Zenon
<1>5. ASSUME NEW i \in Ids, NEW a, Resolves(i, a) PROVE Contract!ContractNext
  <2>1. i <= nextId /\ answer[i] = "none"
    BY <1>5 DEF Resolves, RecordsSound
  <2>2. PhaseBar[i] = "pending" /\ PhaseBar' = [PhaseBar EXCEPT ![i] = a]
    BY <1>1, <1>5, <2>1, ZenonT(40) DEF Resolves, PhaseBar
  <2>3. LateBar' = LateBar /\ (a = "timed_out" => i \in LateBar)
    BY <1>5, <2>1, Zenon DEF Resolves, LateBar, Caused
  <2>4. Contract!Resolve(i, a)
    BY <1>5, <2>2, <2>3, Zenon DEF Resolves, Caused, PhaseBar, LateBar, Contract!Resolve
  <2>5. a \in Contract!Answers
    BY <1>5 DEF Resolves, Contract!Answers
  <2> QED  BY <2>4, <2>5, Zenon DEF Contract!ContractNext
<1> QED  BY <1>3, <1>4, <1>5, StepKinds, Zenon

-----------------------------------------------------------------------------
(* The theorems.                                                           *)

\* The completion-port backend keeps the contract of event_loop.hpp: an
\* operation is refused on the spot or answered once, and is cancelled or timed
\* out only with cause, for any number of operations, handles and threads.
THEOREM IocpKeepsContract == Spec => KeepsContract
<1>1. Init => Contract!ContractInit
  <2> SUFFICES ASSUME Init PROVE Contract!ContractInit
    BY ZenonT(40)
  <2>1. \A i \in Ids : answer[i] = "none" /\ ~(i <= nextId)
    BY BoundsAssumption DEF Init, Ids
  <2>2. PhaseBar = [i \in Ids |-> "unused"] /\ LateBar = {}
    BY <2>1, Zenon DEF PhaseBar, LateBar
  <2> QED  BY <2>2, Zenon DEF Init, PhaseBar, LateBar, Contract!ContractInit
<1>2. LoopInv /\ LoopInv' /\ CausesKnown /\ [Next]_vars => CausesKnown'
  BY CausesStep, Zenon DEF LoopInv
<1>3. LoopInv /\ LoopInv' /\ CausesKnown /\ [Next]_vars => [Contract!ContractNext]_(Contract!contractVars)
  BY ContractStep DEF LoopInv
<1> QED
  BY <1>1, <1>2, <1>3, CausesInit, LoopInvariant, PTL DEF Spec, KeepsContract, Contract!ContractSpec

\* A success that run_once dequeues beside a passed deadline is reported as a
\* success, and an accept's socket goes to the caller exactly then.
THEOREM CompletionAlwaysWins == Spec => []CompletionBeatsDeadline
<1>1. LoopInv /\ LoopInv' /\ CausesKnown /\ FinishedSound /\ AcceptsSound /\ [Next]_vars
        => CausesKnown' /\ FinishedSound' /\ AcceptsSound'
  BY CausesStep, FinishedStep, AcceptsStep DEF LoopInv
<1>2. LoopInv /\ FinishedSound /\ AcceptsSound => CompletionBeatsDeadline
  BY Zenon DEF LoopInv, RecordsSound, FinishedSound, AcceptsSound, CompletionBeatsDeadline
<1> QED  BY <1>1, <1>2, CausesInit, ResultsInit, LoopInvariant, PTL DEF Spec
=============================================================================
