--------------------------- MODULE PosixWaitProofs ---------------------------
(***************************************************************************)
(* What PosixLoop does for the one that waits: verdicts of sleeps, claims  *)
(* of a batch, datagram tokens, and kqueue's interest.                     *)
(***************************************************************************)
EXTENDS PosixLoopProofs

\* The entry of an expired timer.
TimerEntry(t) == Entry(t.id, Expiry, t.at, t.cut, IF t.cut = 1 THEN "timed_out" ELSE "ok")

\* A descriptor being closed belongs to one delivery, and nobody waits on a
\* number whose socket has been given up.
ClosesSound ==
  /\ \A k \in 1 .. Len(stack) : stack[k].fd # NoFd => sock[stack[k].fd] = "closing"
  /\ \A j, k \in 1 .. Len(stack) : stack[j].fd = stack[k].fd /\ stack[j].fd # NoFd => j = k
  /\ \A fd \in Fds, d \in Dirs : slot[fd][d] # NoOp => sock[fd] = "open"

\* A datagram wait whose token has not been revoked still holds it, and its
\* descriptor is the socket it was submitted on.
TokensSound ==
  \A i \in live : op[i].kind = "readiness" /\ op[i].datagram /\ i \notin revoked =>
    /\ token[op[i].fd][op[i].dir] = i
    /\ sock[op[i].fd] = "open" /\ inc[i] = reopens[op[i].fd]

\* Completions and expiries are only in run_once's own batch, the outermost
\* delivery.  An expired timer precedes whatever timer its operation has left.
EntrySound(k, e) ==
  /\ e.rank = Completion =>
       k = 1 /\ e.id <= nextId /\ op[e.id].kind = "readiness" /\ e.out = "ok"
  /\ e.rank = Expiry =>
       /\ k = 1 /\ e.id <= nextId /\ e.at <= now
       /\ \E t \in TimersOf(e.id, op[e.id]) : e = TimerEntry(t)
       /\ \A t \in timers : t.id = e.id => e.at < t.at
  /\ e.rank = Cancelled => e.out \in {"cancelled", "error"}
EntriesSound == \A k \in 1 .. Len(stack) : \A e \in stack[k].todo : EntrySound(k, e)

\* An operation the batch has completed is out of its slot, so that nothing
\* run in the middle of the batch collects it a second time.
ClaimsSound ==
  \A k \in 1 .. Len(stack) : \A e \in stack[k].todo : e.rank = Completion /\ e.id \in live =>
    /\ \A fd \in Fds, d \in Dirs : slot[fd][d] # e.id
    /\ \A j \in 1 .. Len(stack) : \A f \in stack[j].todo : f.id = e.id => j = 1

\* A timer of a live operation is in the queue or in the batch.
TimersKept ==
  \A i \in live : \A t \in TimersOf(i, op[i]) :
    t \in timers \/ (stack # <<>> /\ TimerEntry(t) \in stack[1].todo)

-----------------------------------------------------------------------------
(* What a step does to the deliveries.                                     *)

\* The k-th delivery is what is left of an earlier one,
FrameKept(k) ==
  k \in 1 .. Len(stack) /\ stack'[k].todo \subseteq stack[k].todo /\ stack'[k].fd = stack[k].fd

\* or a new one: a batch, a closed or failed descriptor, the destructor's.
FrameOf(k, todo, fd) == stack'[k].todo = todo /\ stack'[k].fd = fd
FrameCollected(k) ==
  k = 1 /\ Len(stack') = 1 /\ \E report \in Reports : \E failed, last :
    Collect(report, failed, last) /\ FrameOf(k, Batch(Claimed(report, failed)), NoFd)
FrameBroken(k) ==
  /\ k = Len(stack) + 1
  /\ \/ \E fd \in Fds, isClose \in BOOLEAN :
          Detach(fd, isClose) /\ FrameOf(k, Broken(fd, "cancelled"), IF isClose THEN fd ELSE NoFd)
     \/ stack # <<>> /\ \E r \in Top.rearm :
          r.fd \in Fds /\ RearmRefused(r) /\ FrameOf(k, Broken(r.fd, "error"), NoFd)
FrameOrphans(k) ==
  k = 1 /\ Len(stack') = 1 /\ Shutdown
    /\ FrameOf(k, {Entry(i, Cancelled, 0, 0, "cancelled") : i \in live}, NoFd)
FrameNew(k) == FrameCollected(k) \/ FrameBroken(k) \/ FrameOrphans(k)

\* Pushing a delivery leaves the ones below it.
LEMMA FramesPush ==
  ASSUME NEW s \in Seq(FrameType), NEW f \in FrameType
  PROVE  /\ Len(s) \in Nat /\ Len(Append(s, f)) = Len(s) + 1 /\ Append(s, f)[Len(s) + 1] = f
         /\ \A k \in 1 .. Len(s) : k \in 1 .. Len(s) + 1 /\ Append(s, f)[k] = s[k]
         /\ \A k \in 1 .. Len(s) + 1 : k \in 1 .. Len(s) \/ k = Len(s) + 1
OBVIOUS

\* A step keeps every delivery at its place or shortens it, or starts one; and
\* an entry that goes is one that finalize has looked at.
LEMMA FramesStep ==
  ASSUME TypeOK, ControlSound, [Next]_vars
  PROVE  /\ \A k \in 1 .. Len(stack') : FrameKept(k) \/ FrameNew(k)
         /\ \A k \in 1 .. Len(stack) : \A e \in stack[k].todo :
              (k \in 1 .. Len(stack') /\ e \in stack'[k].todo) \/ e.id \notin live'
<1> USE DEF table, tokens, queues, kernel, control, results
<1> DEFINE Kept == \A k \in 1 .. Len(stack') : FrameKept(k) \/ FrameNew(k)
           Gone == \A k \in 1 .. Len(stack) : \A e \in stack[k].todo :
                     (k \in 1 .. Len(stack') /\ e \in stack'[k].todo) \/ e.id \notin live'
<1> SUFFICES Kept /\ Gone
  OBVIOUS
<1>1. stack \in Seq(FrameType) /\ Len(stack) \in Nat
  BY DEF TypeOK
<1>2. ASSUME UNCHANGED stack PROVE Kept /\ Gone
  BY <1>2, Zenon DEF FrameKept
<1>3. ASSUME NEW f, stack = <<>>, stack' = <<f>>, FrameNew(1) PROVE Kept /\ Gone
  <2>1. Len(stack') = 1 /\ \A k \in 1 .. Len(stack') : k = 1
    BY <1>3
  <2>2. \A k \in 1 .. Len(stack) : FALSE
    BY <1>3
  <2> QED  BY <1>3, <2>1, <2>2, Zenon
<1>4. CASE Poll
  <2>1. PICK report \in Reports : \E failed \in SUBSET MayFail(report) : \E last \in Dirs :
          Collect(report, failed, last)
    BY <1>4, Zenon DEF Poll
  <2>2. PICK failed, last : Collect(report, failed, last)
    BY <2>1, Zenon
  <2>3. PICK f : f = Frame(Batch(Claimed(report, failed)), ToRearm(report, failed, last), posted, NoFd, "user")
    OBVIOUS
  <2>4. stack' = <<f>> /\ Polling
    BY <2>2, <2>3, Zenon DEF Collect
  <2>5. f.todo = Batch(Claimed(report, failed)) /\ f.fd = NoFd
    BY <2>3 DEF Frame
  <2>6. Len(stack') = 1 /\ stack'[1] = f
    BY <2>4
  <2>7. FrameNew(1)
    BY <2>2, <2>5, <2>6, Zenon DEF FrameNew, FrameCollected, FrameOf
  <2> QED  BY <1>3, <2>4, <2>7, Zenon DEF ControlSound
<1>5. CASE Shutdown
  <2>1. PICK f : f = Frame({Entry(i, Cancelled, 0, 0, "cancelled") : i \in live}, {}, 0, NoFd, "user")
    BY Zenon
  <2>2. stack' = <<f>> /\ stack = <<>>
    BY <1>5, <2>1, Zenon DEF Shutdown
  <2>3. f.todo = {Entry(i, Cancelled, 0, 0, "cancelled") : i \in live} /\ f.fd = NoFd
    BY <2>1 DEF Frame
  <2>4. Len(stack') = 1 /\ stack'[1] = f
    BY <2>2
  <2>5. FrameNew(1)
    BY <1>5, <2>3, <2>4, Zenon DEF FrameNew, FrameOrphans, FrameOf
  <2> QED  BY <1>3, <2>2, <2>5, Zenon
<1>6. ASSUME NEW fd \in Fds, NEW isClose \in BOOLEAN, Detach(fd, isClose)
      PROVE  Kept /\ Gone
  <2>1. PICK f : f = Frame(Broken(fd, "cancelled"), {}, 0, IF isClose THEN fd ELSE NoFd, "user")
    OBVIOUS
  <2>2. f \in FrameType
    BY <2>1, FrameTypes, Zenon
  <2>3. f.todo = Broken(fd, "cancelled") /\ f.fd = IF isClose THEN fd ELSE NoFd
    BY <2>1 DEF Frame
  <2>4. stack' = Append(stack, f)
    BY <1>6, <2>1, Zenon DEF Detach
  <2>5. /\ Len(stack') = Len(stack) + 1 /\ stack'[Len(stack) + 1] = f
        /\ \A k \in 1 .. Len(stack) : k \in 1 .. Len(stack') /\ stack'[k] = stack[k]
        /\ \A k \in 1 .. Len(stack') : k \in 1 .. Len(stack) \/ k = Len(stack) + 1
    BY <1>1, <2>2, <2>4, FramesPush
  <2>6. FrameNew(Len(stack) + 1)
    BY <1>6, <2>3, <2>5, Zenon DEF FrameNew, FrameBroken, FrameOf
  <2>7. \A k \in 1 .. Len(stack) : FrameKept(k)
    BY <2>5, Zenon DEF FrameKept
  <2> QED  BY <2>5, <2>6, <2>7, Zenon
<1>7. CASE stack # <<>> /\ Deliver
  <2> USE <1>7
  <2>1. Top \in FrameType /\ Len(stack) \in Nat \ {0} /\ Top = stack[Len(stack)]
    BY <1>1, StackFacts DEF Top
  <2>2. ASSUME NEW g \in FrameType, g.todo \subseteq Top.todo, g.fd = Top.fd
        PROVE  /\ SetTop(g) \in Seq(FrameType) /\ Len(SetTop(g)) = Len(stack)
               /\ SetTop(g)[Len(stack)] = g /\ Len(stack) \in 1 .. Len(stack)
               /\ \A k \in 1 .. Len(stack) : k = Len(stack) \/ SetTop(g)[k] = stack[k]
               /\ \A k \in 1 .. Len(stack) :
                    SetTop(g)[k].todo \subseteq stack[k].todo /\ SetTop(g)[k].fd = stack[k].fd
    <3>1. /\ SetTop(g) \in Seq(FrameType) /\ Len(SetTop(g)) = Len(stack)
          /\ \A k \in 1 .. Len(stack) : SetTop(g)[k] = IF k = Len(stack) THEN g ELSE stack[k]
      BY <1>1, StackFacts, Zenon
    <3>2. Len(stack) \in 1 .. Len(stack)
      BY <2>1
    <3> QED  BY <2>1, <2>2, <3>1, <3>2, Zenon
  <2>3. ASSUME NEW g \in FrameType, g.todo = Top.todo, g.fd = Top.fd, stack' = SetTop(g)
        PROVE  Kept /\ Gone
    <3>1. \A k \in 1 .. Len(stack) : stack'[k].todo = stack[k].todo /\ stack'[k].fd = stack[k].fd
      BY <2>1, <2>2, <2>3, Zenon
    <3>2. Len(stack') = Len(stack)
      BY <2>2, <2>3, Zenon
    <3> QED  BY <3>1, <3>2, Zenon DEF FrameKept
  <2>4. ASSUME NEW r \in Top.rearm, RearmAccepted(r)
        PROVE  Kept /\ Gone
    <3>1. PICK g : g = [Top EXCEPT !.rearm = @ \ {r}]
      BY Zenon
    <3>2. g \in FrameType /\ g.todo = Top.todo /\ g.fd = Top.fd
      BY <2>1, <3>1 DEF FrameType
    <3>3. stack' = SetTop(g)
      BY <2>4, <3>1, Zenon DEF RearmAccepted
    <3> QED  BY <2>3, <3>2, <3>3, Zenon
  <2>5. CASE RunPosted
    <3>1. PICK g : g = [Top EXCEPT !.work = @ - 1]
      BY Zenon
    <3>2. Top.work \in 0 .. MaxPosted /\ Top.work > 0
      BY <2>1, <2>5 DEF FrameType, RunPosted
    <3>3. Top.work - 1 \in 0 .. MaxPosted
      BY <3>2, BoundsAssumption
    <3>4. g \in FrameType /\ g.todo = Top.todo /\ g.fd = Top.fd
      BY <2>1, <3>1, <3>3 DEF FrameType
    <3>5. stack' = SetTop(g)
      BY <2>5, <3>1, Zenon DEF RunPosted
    <3> QED  BY <2>3, <3>4, <3>5, Zenon
  <2>6. ASSUME NEW r \in Top.rearm, RearmRefused(r)
        PROVE  Kept /\ Gone
    <3>1. PICK g : g = [Top EXCEPT !.rearm = @ \ {r}]
      BY Zenon
    <3>2. PICK h : h = Frame(Broken(r.fd, "error"), {}, 0, NoFd, "deliver")
      OBVIOUS
    <3>3. r.fd \in Fds /\ g \in FrameType /\ g.todo = Top.todo /\ g.fd = Top.fd
      BY <2>1, <3>1 DEF FrameType
    <3>4. h \in FrameType
      BY <3>2, <3>3, FrameTypes, Zenon
    <3>5. h.todo = Broken(r.fd, "error") /\ h.fd = NoFd
      BY <3>2 DEF Frame
    <3>6. stack' = Append(SetTop(g), h)
      BY <2>6, <3>1, <3>2, Zenon DEF RearmRefused
    <3>7. SetTop(g) \in Seq(FrameType) /\ Len(SetTop(g)) = Len(stack)
      BY <2>2, <3>3, Zenon
    <3>8. \A k \in 1 .. Len(stack) : SetTop(g)[k].todo = stack[k].todo /\ SetTop(g)[k].fd = stack[k].fd
      BY <2>1, <2>2, <3>3
    <3>9. /\ Len(stack') = Len(stack) + 1 /\ stack'[Len(stack) + 1] = h
          /\ \A k \in 1 .. Len(stack) : k \in 1 .. Len(stack') /\ stack'[k] = SetTop(g)[k]
          /\ \A k \in 1 .. Len(stack') : k \in 1 .. Len(stack) \/ k = Len(stack) + 1
      <4>1. PICK s \in Seq(FrameType) : s = SetTop(g)
        BY <3>7
      <4>2. stack' = Append(s, h) /\ Len(s) = Len(stack)
        BY <3>6, <3>7, <4>1
      <4> QED  BY <3>4, <4>1, <4>2, FramesPush
    <3>10. FrameNew(Len(stack) + 1)
      BY <2>6, <3>3, <3>5, <3>9, Zenon DEF FrameNew, FrameBroken, FrameOf
    <3>11. \A k \in 1 .. Len(stack) : FrameKept(k)
      BY <3>8, <3>9, Zenon DEF FrameKept
    <3> QED  BY <3>8, <3>9, <3>10, <3>11, Zenon
  <2>7. ASSUME NEW e \in Top.todo, Finalize(e)
        PROVE  Kept /\ Gone
    <3>1. PICK g : g = [Top EXCEPT !.todo = @ \ {e}]
      BY Zenon
    <3>2. g \in FrameType /\ g.todo = Top.todo \ {e} /\ g.fd = Top.fd
      BY <2>1, <3>1 DEF FrameType
    <3>3. stack' = SetTop(g)
      BY <2>7, <3>1, Zenon DEF Finalize
    <3>4. Len(stack') = Len(stack)
      BY <2>2, <3>2, <3>3, Zenon
    <3>5. \A k \in 1 .. Len(stack) : stack'[k].todo \subseteq stack[k].todo /\ stack'[k].fd = stack[k].fd
      BY <2>2, <3>2, <3>3, Zenon
    <3>6. \A k \in 1 .. Len(stack) : \A f \in stack[k].todo : f = e \/ f \in stack'[k].todo
      BY <2>1, <2>2, <3>2, <3>3
    <3>7. e.id \notin live'
      BY <2>7, Zenon DEF Finalize, Unlink
    <3> QED  BY <3>4, <3>5, <3>6, <3>7, Zenon DEF FrameKept
  <2>8. CASE Return
    <3>1. stack' = Pop /\ Top.todo = {}
      BY <2>8, Zenon DEF Return
    <3>2. Len(stack') = Len(stack) - 1 /\ \A k \in 1 .. Len(stack) - 1 : stack'[k] = stack[k]
      BY <1>1, <3>1, StackFacts, Zenon
    <3>3. /\ \A k \in 1 .. Len(stack') : k \in 1 .. Len(stack) /\ stack'[k] = stack[k]
          /\ \A k \in 1 .. Len(stack) : k = Len(stack) \/ k \in 1 .. Len(stack')
      BY <2>1, <3>2
    <3> QED  BY <2>1, <3>1, <3>3, Zenon DEF FrameKept
  <2> QED  BY <2>4, <2>5, <2>6, <2>7, <2>8, Zenon DEF Deliver
<1>8. ASSUME (\E r \in WaitRequests : AddWaiter(r)) \/ ArmAccepted \/ ArmRefused
      PROVE  UNCHANGED stack
  BY <1>8, Zenon DEF AddWaiter, ArmAccepted, ArmRefused
<1>9. ASSUME \/ \E r \in SleepRequests : AddTimer(r)
             \/ \E i \in Ids : RequestCancel(i)
             \/ \E fd \in Fds : Reopen(fd)
      PROVE  UNCHANGED stack
  BY <1>9, Zenon DEF AddTimer, RequestCancel, Reopen
<1>10. ASSUME Post \/ Tick \/ RunOnce \/ PollFails \/ Suspend \/ UNCHANGED vars
       PROVE  UNCHANGED stack
  BY <1>10, Zenon DEF Post, Tick, RunOnce, PollFails, Suspend, vars
<1> HIDE DEF Kept, Gone
<1>11. ASSUME UNCHANGED stack PROVE Kept /\ Gone
  BY <1>2, <1>11, Zenon
<1>12. CASE (\E r \in WaitRequests : AddWaiter(r)) \/ ArmAccepted \/ ArmRefused
  BY <1>8, <1>11, <1>12, Zenon
<1>13. CASE \/ \E r \in SleepRequests : AddTimer(r)
            \/ \E i \in Ids : RequestCancel(i)
            \/ \E fd \in Fds : Reopen(fd)
  BY <1>9, <1>11, <1>13, Zenon
<1>14. CASE Post \/ Tick \/ RunOnce \/ PollFails \/ Suspend \/ UNCHANGED vars
  BY <1>10, <1>11, <1>14, Zenon
<1>15. CASE \E fd \in Fds, isClose \in BOOLEAN : Detach(fd, isClose)
  BY <1>6, <1>15, Zenon
<1> QED  BY <1>4, <1>5, <1>7, <1>12, <1>13, <1>14, <1>15, Zenon DEF Next

-----------------------------------------------------------------------------
(* What a step does to the table.                                          *)

\* The steps that touch neither the table nor the kernel.
Idles ==
  UNCHANGED <<nextId, op, inc, live, armed, slot, timers, token, revoked, interest, sock, reopens,
              arming, answer, strayed>>

\* The others.
Submission == \E r \in WaitRequests : AddWaiter(r)
Arming == ArmAccepted \/ ArmRefused
Sleeping == \E r \in SleepRequests : AddTimer(r)
Closing == \E fd \in Fds : Reopen(fd) \/ \E isClose \in BOOLEAN : Detach(fd, isClose)
Collecting ==
  \E report \in Reports : \E failed \in SUBSET MayFail(report) : \E last \in Dirs :
    Collect(report, failed, last)
Delivering ==
  /\ stack # <<>>
  /\ \/ \E r \in Top.rearm : RearmAccepted(r) \/ RearmRefused(r)
     \/ \E e \in Top.todo : Finalize(e)
     \/ Return

\* Posting, the clock, stop callbacks and the loop's own comings and goings are idle.
LEMMA StepCases ==
  ASSUME [Next]_vars
  PROVE  Idles \/ Submission \/ Arming \/ Sleeping \/ Closing \/ Collecting \/ Delivering
<1> USE DEF table, tokens, queues, kernel, control, results
<1>1. ASSUME Post \/ Tick \/ RunOnce \/ PollFails \/ Suspend PROVE Idles
  BY <1>1, Zenon DEF Post, Tick, RunOnce, PollFails, Suspend, Idles
<1>2. ASSUME Shutdown \/ RunPosted \/ UNCHANGED vars PROVE Idles
  BY <1>2, Zenon DEF Shutdown, RunPosted, Idles, vars
<1>3. ASSUME NEW i \in Ids, RequestCancel(i) PROVE Idles
  BY <1>3, Zenon DEF RequestCancel, Idles
<1>4. ASSUME stack # <<>> /\ Deliver PROVE Idles \/ Delivering
  BY <1>2, <1>4, Zenon DEF Deliver, Delivering
<1> QED
  BY <1>1, <1>2, <1>3, <1>4, Zenon
  DEF Next, Submission, Arming, Sleeping, Closing, Collecting, Poll

\* unlink empties at most one slot, and takes the timers along with the record.
LEMMA UnlinkMoves ==
  ASSUME TypeOK, NEW i \in live, Unlink(i)
  PROVE  /\ \A fd \in Fds, d \in Dirs : slot'[fd][d] \in {slot[fd][d], NoOp}
         /\ timers' \subseteq timers /\ live' \subseteq live /\ i \notin live'
         /\ \A t \in timers : t \in timers' \/ t.id \notin live'
<1>1. slot \in SlotType
  BY Zenon DEF TypeOK
<1>2. slot' = slot \/ slot' = [slot EXCEPT ![op[i].fd][op[i].dir] = NoOp]
  BY Zenon DEF Unlink, SlotsWithout
<1>3. \A fd \in Fds, d \in Dirs : slot'[fd][d] \in {slot[fd][d], NoOp}
  BY <1>1, <1>2 DEF SlotType
<1>4. /\ timers' \subseteq timers /\ live' \subseteq live /\ i \notin live'
      /\ \A t \in timers : t \in timers' \/ t.id \notin live'
  BY Zenon DEF Unlink
<1> QED  BY <1>3, <1>4, Zenon

\* Slots are emptied or given to the new operation.  A timer is registered for
\* the new operation, and goes with its operation or into the batch.
TableMoves ==
  /\ \A fd \in Fds, d \in Dirs :
       slot'[fd][d] \in {slot[fd][d], NoOp} \/ (Submission /\ slot'[fd][d] = nextId + 1)
  /\ \A t \in timers' : t \in timers \/ t.id = nextId + 1
  /\ \A t \in timers :
       t \in timers' \/ t.id \notin live' \/ (stack' # <<>> /\ TimerEntry(t) \in stack'[1].todo)
  /\ \A i \in live' : i \in live \/ (i = nextId + 1 /\ TimersOf(i, op'[i]) \subseteq timers')

\* Every step, taken to pieces, is one of these moves.
LEMMA TableStep ==
  ASSUME TypeOK, ArmingSound, [Next]_vars
  PROVE  TableMoves
<1> USE DEF table, tokens, queues, kernel, control, results
<1>1. slot \in SlotType /\ nextId \in Nat
  BY DEF TypeOK
<1>2. ASSUME \A fd \in Fds, d \in Dirs : slot'[fd][d] \in {slot[fd][d], NoOp},
             timers' \subseteq timers, live' \subseteq live, 
             \A t \in timers : t \in timers' \/ t.id \notin live'
      PROVE  TableMoves
  BY <1>2, Zenon DEF TableMoves
<1>3. ASSUME UNCHANGED <<live, timers>>, \A fd \in Fds, d \in Dirs : slot'[fd][d] \in {slot[fd][d], NoOp}
      PROVE  TableMoves
  BY <1>2, <1>3, Zenon
<1>4. ASSUME NEW r \in OpType, nextId < MaxOps, Record(r),
             \A fd \in Fds, d \in Dirs :
               slot'[fd][d] = slot[fd][d] \/ (Submission /\ slot'[fd][d] = nextId + 1)
      PROVE  TableMoves
  <2>1. nextId + 1 \in Ids
    BY <1>4, RecordTypes
  <2>2. PICK n \in Ids : n = nextId + 1
    BY <2>1
  <2>3. op' = [op EXCEPT ![n] = r] /\ live' = live \cup {n} /\ timers' = timers \cup TimersOf(n, r)
    BY <1>4, <2>2, Zenon DEF Record
  <2>4. op'[n] = r
    BY <2>3 DEF TypeOK
  <2>5. \A t \in TimersOf(n, r) : t.id = n
    BY DEF TimersOf
  <2>6. \A i \in live' : i \in live \/ (i = n /\ TimersOf(i, op'[i]) \subseteq timers')
    BY <2>3, <2>4, Zenon
  <2>7. \A t \in timers' : t \in timers \/ t.id = n
    BY <2>3, <2>5, Zenon
  <2>8. timers \subseteq timers'
    BY <2>3, Zenon
  <2> QED  BY <1>4, <2>2, <2>6, <2>7, <2>8, Zenon DEF TableMoves
<1>5. CASE Idles
  BY <1>3, <1>5, Zenon DEF Idles
<1>6. ASSUME NEW r \in WaitRequests, AddWaiter(r)
      PROVE  TableMoves
  <2>1. r \in OpType
    BY RequestTypes, Zenon
  <2>2. nextId < MaxOps /\ Record(r) /\ slot' = [slot EXCEPT ![r.fd][r.dir] = nextId + 1]
    BY <1>6, Zenon DEF AddWaiter, Admitted
  <2>3. \A fd \in Fds, d \in Dirs : slot'[fd][d] = slot[fd][d] \/ slot'[fd][d] = nextId + 1
    BY <1>1, <2>2 DEF SlotType
  <2>4. Submission
    BY <1>6, Zenon DEF Submission
  <2> QED  BY <1>4, <2>1, <2>2, <2>3, <2>4, Zenon
<1>7. ASSUME NEW r \in SleepRequests, AddTimer(r)
      PROVE  TableMoves
  <2>1. r \in OpType
    BY RequestTypes, Zenon
  <2>2. nextId < MaxOps /\ Record(r) /\ slot' = slot
    BY <1>7, Zenon DEF AddTimer, Admitted
  <2> QED  BY <1>4, <2>1, <2>2, Zenon
<1>8. ASSUME ArmAccepted
      PROVE  TableMoves
  <2>1. UNCHANGED <<live, timers, slot>>
    BY <1>8, Zenon DEF ArmAccepted
  <2> QED  BY <1>3, <2>1, Zenon
<1>9. ASSUME ArmRefused
      PROVE  TableMoves
  <2>1. PICK i \in live : i = arming.id
    BY <1>9, Zenon DEF ArmRefused, ArmingSound
  <2>2. Unlink(i)
    BY <1>9, <2>1, Zenon DEF ArmRefused
  <2> QED  BY <1>2, <2>2, UnlinkMoves
<1>10. ASSUME NEW fd \in Fds, NEW out, FailWaiters(fd, out), UNCHANGED <<live, timers>>
       PROVE  TableMoves
  <2>1. slot' = [slot EXCEPT ![fd] = [d \in Dirs |-> NoOp]]
    BY <1>10, Zenon DEF FailWaiters
  <2>2. \A g \in Fds, d \in Dirs : slot'[g][d] \in {slot[g][d], NoOp}
    BY <1>1, <2>1 DEF SlotType
  <2> QED  BY <1>3, <1>10, <2>2, Zenon
<1>11. CASE Closing
  <2>1. ASSUME NEW fd \in Fds, NEW isClose \in BOOLEAN, Detach(fd, isClose)
        PROVE  TableMoves
    <3>1. FailWaiters(fd, "cancelled") /\ UNCHANGED <<live, timers>>
      BY <2>1, Zenon DEF Detach
    <3> QED  BY <1>10, <3>1, Zenon
  <2>2. ASSUME NEW fd \in Fds, Reopen(fd)
        PROVE  TableMoves
    <3>1. UNCHANGED <<live, timers, slot>>
      BY <2>2, Zenon DEF Reopen
    <3> QED  BY <1>3, <3>1, Zenon
  <2> QED  BY <1>11, <2>1, <2>2, Zenon DEF Closing
<1>12. CASE Collecting
  <2>1. PICK report, failed, last : Collect(report, failed, last)
    BY <1>12, Zenon DEF Collecting
  <2>2. \A fd \in Fds, d \in Dirs : slot'[fd][d] \in {slot[fd][d], NoOp}
    BY <2>1, Zenon DEF Collect
  <2>3. live' = live /\ timers' = timers \ Expired
    BY <2>1, Zenon DEF Collect
  <2>4. PICK f : f = Frame(Batch(Claimed(report, failed)), ToRearm(report, failed, last), posted, NoFd, "user")
    OBVIOUS
  <2>5. stack' = <<f>>
    BY <2>1, <2>4, Zenon DEF Collect
  <2>6. f.todo = Batch(Claimed(report, failed))
    BY <2>4 DEF Frame
  <2>7. stack' # <<>> /\ stack'[1] = f
    BY <2>5
  <2>8. \A t \in Expired : TimerEntry(t) \in Batch(Claimed(report, failed))
    BY Zenon DEF Batch, TimerEntry
  <2> QED  BY <2>2, <2>3, <2>6, <2>7, <2>8, Zenon DEF TableMoves
<1>13. CASE Delivering
  <2> USE <1>13
  <2>1. ASSUME NEW r \in Top.rearm, RearmAccepted(r)
        PROVE  TableMoves
    <3>1. UNCHANGED <<live, timers, slot>>
      BY <2>1, Zenon DEF RearmAccepted
    <3> QED  BY <1>3, <3>1, Zenon
  <2>2. ASSUME NEW r \in Top.rearm, RearmRefused(r)
        PROVE  TableMoves
    <3>1. Top \in FrameType
      BY StackFacts, Zenon DEF TypeOK, Delivering
    <3>2. r.fd \in Fds
      BY <3>1 DEF FrameType
    <3>3. FailWaiters(r.fd, "error") /\ UNCHANGED <<live, timers>>
      BY <2>2, Zenon DEF RearmRefused
    <3> QED  BY <1>10, <3>2, <3>3, Zenon
  <2>3. ASSUME NEW e \in Top.todo, Finalize(e)
        PROVE  TableMoves
    <3>1. CASE e.id \in live
      <4>1. PICK i \in live : i = e.id
        BY <3>1
      <4>2. Unlink(i)
        BY <2>3, <3>1, <4>1, Zenon DEF Finalize
      <4> QED  BY <1>2, <4>2, UnlinkMoves
    <3>2. CASE e.id \notin live
      <4>1. UNCHANGED <<live, timers, slot>>
        BY <2>3, <3>2, Zenon DEF Finalize
      <4> QED  BY <1>3, <4>1, Zenon
    <3> QED  BY <3>1, <3>2
  <2>4. CASE Return
    <3>1. UNCHANGED <<live, timers, slot>>
      BY <2>4, Zenon DEF Return
    <3> QED  BY <1>3, <3>1, Zenon
  <2> QED  BY <2>1, <2>2, <2>3, <2>4, Zenon DEF Delivering
<1> QED
  BY <1>5, <1>6, <1>7, <1>8, <1>9, <1>11, <1>12, <1>13, StepCases, Zenon DEF Submission, Arming, Sleeping

-----------------------------------------------------------------------------
(* The entries of a batch.                                                 *)

\* An entry keeps its standing while the batch is delivered.
LEMMA EntryStays ==
  ASSUME TypeOK, TypeOK', ArmingSound, [Next]_vars, NEW k, NEW e \in EntryType, EntrySound(k, e)
  PROVE  EntrySound(k, e)'
<1>1. /\ now <= now' /\ nextId <= nextId'
      /\ \A i \in Ids : i <= nextId => op'[i] = op[i]
  BY Monotone, Zenon
<1>2. e.id \in Ids /\ e.id \in Nat /\ e.at \in Nat
  BY BoundsAssumption DEF EntryType, Ids, Times
<1>3. now \in Nat /\ now' \in Nat /\ nextId \in Nat /\ nextId' \in Nat
  BY DEF TypeOK
<1>4. \A t \in timers' : t \in timers \/ t.id = nextId + 1
  BY TableStep, Zenon DEF TableMoves
<1>5. e.id <= nextId => e.id <= nextId' /\ e.id # nextId + 1 /\ op'[e.id] = op[e.id]
  BY <1>1, <1>2, <1>3
<1>6. e.at <= now => e.at <= now'
  BY <1>1, <1>2, <1>3
<1>7. e.id <= nextId => \A t \in timers' : t.id = e.id => t \in timers
  BY <1>4, <1>5, Zenon
<1> QED  BY <1>5, <1>6, <1>7, Zenon DEF EntrySound, TimerEntry

\* What run_once collects is in order.
LEMMA BatchSound ==
  ASSUME TableInv, NEW report \in Reports, NEW failed, NEW last, Collect(report, failed, last)
  PROVE  \A e \in Batch(Claimed(report, failed)) : EntrySound(1, e)'
<1>1. UNCHANGED <<nextId, op, now>> /\ timers' = timers \ Expired
  BY Zenon DEF Collect
<1>2. /\ \A fd \in Fds, d \in Dirs : slot[fd][d] # NoOp =>
           slot[fd][d] \in live /\ op[slot[fd][d]].kind = "readiness"
      /\ \A t \in timers : t.id \in live /\ t \in TimersOf(t.id, op[t.id])
      /\ \A i \in live : i <= nextId
  BY IndexFacts DEF TableInv, Fresh
<1>3. timers \subseteq TimerType /\ now \in Nat /\ slot \in SlotType
  BY DEF TableInv, TypeOK
<1> SUFFICES ASSUME NEW e \in Batch(Claimed(report, failed)) PROVE EntrySound(1, e)'
  BY Zenon
<1>4. CASE \E i \in Claimed(report, failed) : e = Entry(i, Completion, 0, 0, "ok")
  <2>1. PICK i \in Claimed(report, failed) : e = Entry(i, Completion, 0, 0, "ok")
    BY <1>4
  <2>2. e.id = i /\ e.rank = Completion /\ e.out = "ok"
    BY <2>1 DEF Entry
  <2>3. i \in Ids /\ \E fd \in Fds : \E d \in Taken(report, failed, fd) : slot[fd][d] = i
    BY Zenon DEF Claimed
  <2>4. i \in live /\ op[i].kind = "readiness"
    <3>1. i # NoOp
      BY <2>3 DEF Ids, NoOp
    <3>2. \A fd \in Fds : Taken(report, failed, fd) \subseteq Dirs
      BY Zenon DEF Taken, Reports
    <3> QED  BY <1>2, <2>3, <3>1, <3>2, Zenon
  <2>5. e.rank # Expiry /\ e.rank # Cancelled
    BY <2>2 DEF Completion, Expiry, Cancelled
  <2> QED  BY <1>1, <1>2, <2>2, <2>4, <2>5, Zenon DEF EntrySound
<1>5. CASE \E t \in Expired : e = TimerEntry(t)
  <2>1. PICK t \in Expired : e = TimerEntry(t)
    BY <1>5
  <2>2. e.id = t.id /\ e.rank = Expiry /\ e.at = t.at
    BY <2>1 DEF TimerEntry, Entry
  <2>3. t \in timers /\ t.at <= now
    BY Zenon DEF Expired
  <2>4. \A u \in timers' : e.at < u.at
    <3>1. \A u \in timers' : u \in timers /\ ~(u.at <= now)
      BY <1>1, Zenon DEF Expired
    <3>2. \A u \in timers : u.at \in Nat
      BY <1>3, BoundsAssumption DEF TimerType, Times
    <3> QED  BY <1>3, <2>2, <2>3, <3>1, <3>2
  <2>5. e.rank # Completion /\ e.rank # Cancelled
    BY <2>2 DEF Completion, Expiry, Cancelled
  <2>6. t.id <= nextId /\ t \in TimersOf(t.id, op[t.id])
    BY <1>2, <2>3, Zenon
  <2> QED  BY <1>1, <2>1, <2>2, <2>3, <2>4, <2>5, <2>6, Zenon DEF EntrySound, TimerEntry
<1>6. CASE \E i \in cancels : e = Entry(i, Cancelled, 0, 0, "cancelled")
  <2>1. e.rank = Cancelled /\ e.out = "cancelled"
    BY <1>6 DEF Entry
  <2>2. e.rank # Completion /\ e.rank # Expiry
    BY <2>1 DEF Completion, Expiry, Cancelled
  <2> QED  BY <2>1, <2>2, Zenon DEF EntrySound
<1> QED  BY <1>4, <1>5, <1>6, Zenon DEF Batch, TimerEntry

\* The entries of a delivery are entries.
LEMMA EntriesTyped ==
  ASSUME TypeOK
  PROVE  \A k \in 1 .. Len(stack) : \A e \in stack[k].todo : e \in EntryType
<1> SUFFICES ASSUME NEW k \in 1 .. Len(stack) PROVE \A e \in stack[k].todo : e \in EntryType
  OBVIOUS
<1>1. stack[k] \in FrameType
  BY DEF TypeOK
<1> QED  BY <1>1 DEF FrameType

\* The waiters of a descriptor closed or failed in a nested delivery, and the
\* operations the destructor finds, are cut short.
LEMMA CutShort ==
  /\ \A fd, out : \A e \in Broken(fd, out) :
       /\ e.rank = Cancelled /\ e.out = out /\ \E d \in Dirs : e.id = slot[fd][d]
       /\ e.id # NoOp /\ e.rank # Completion /\ e.rank # Expiry
  /\ \A e \in {Entry(i, Cancelled, 0, 0, "cancelled") : i \in live} :
       e.rank = Cancelled /\ e.out = "cancelled" /\ e.rank # Completion /\ e.rank # Expiry
<1>1. Cancelled # Completion /\ Cancelled # Expiry
  BY DEF Cancelled, Completion, Expiry
<1>2. ASSUME NEW i, NEW out
      PROVE  LET e == Entry(i, Cancelled, 0, 0, out)
             IN  e.id = i /\ e.rank = Cancelled /\ e.out = out
  BY DEF Entry
<1>3. ASSUME NEW fd, NEW out, NEW e \in Broken(fd, out)
      PROVE  /\ e.rank = Cancelled /\ e.out = out /\ \E d \in Dirs : e.id = slot[fd][d]
             /\ e.id # NoOp
  <2>1. PICK i : i \in {slot[fd][d] : d \in Dirs} \ {NoOp} /\ e = Entry(i, Cancelled, 0, 0, out)
    BY Zenon DEF Broken
  <2> QED  BY <1>2, <2>1
<1> QED  BY <1>1, <1>2, <1>3

\* What is in a delivery stays in order, and what enters one is.
LEMMA EntriesStep ==
  ASSUME TableInv, TableInv', EntriesSound, [Next]_vars
  PROVE  EntriesSound'
<1>1. TypeOK /\ TypeOK' /\ ControlSound /\ ArmingSound
  BY Zenon DEF TableInv
<1> SUFFICES ASSUME NEW k \in 1 .. Len(stack'), NEW e \in stack'[k].todo PROVE EntrySound(k, e)'
  BY Zenon DEF EntriesSound
<1>2. CASE FrameKept(k)
  <2>1. k \in 1 .. Len(stack) /\ e \in stack[k].todo
    BY <1>2, Zenon DEF FrameKept
  <2> QED  BY <1>1, <2>1, EntryStays, EntriesTyped, Zenon DEF EntriesSound
<1>3. CASE FrameCollected(k)
  <2>1. PICK report \in Reports : \E failed, last :
          Collect(report, failed, last) /\ stack'[k].todo = Batch(Claimed(report, failed))
    BY <1>3, Zenon DEF FrameCollected, FrameOf
  <2>2. EntrySound(1, e)'
    BY <2>1, BatchSound, Zenon
  <2> QED  BY <1>3, <2>2, Zenon DEF FrameCollected
<1>4. CASE FrameBroken(k) \/ FrameOrphans(k)
  <2>1. e.rank = Cancelled /\ e.out \in {"cancelled", "error"} /\ e.rank # Completion /\ e.rank # Expiry
    BY <1>4, CutShort DEF FrameBroken, FrameOrphans, FrameOf
  <2> QED  BY <2>1, Zenon DEF EntrySound
<1> QED  BY <1>1, <1>2, <1>3, <1>4, FramesStep, Zenon DEF FrameNew

\* A batch takes each operation it completes out of its slot, and no operation
\* gets back into one.
LEMMA ClaimsStep ==
  ASSUME TableInv, TableInv', EntriesSound, ClaimsSound, [Next]_vars
  PROVE  ClaimsSound'
<1>1. TypeOK /\ TypeOK' /\ ControlSound /\ ArmingSound /\ nextId \in Nat
  <2>1. TypeOK /\ TypeOK' /\ ControlSound /\ ArmingSound
    BY Zenon DEF TableInv
  <2>2. nextId \in 0 .. MaxOps
    BY <2>1, Zenon DEF TypeOK
  <2> QED  BY <2>1, <2>2
<1>2. \A j \in 1 .. Len(stack') : FrameKept(j) \/ FrameNew(j)
  BY <1>1, FramesStep, Zenon
<1>3. /\ \A fd \in Fds, d \in Dirs : slot'[fd][d] \in {slot[fd][d], NoOp, nextId + 1}
      /\ \A i \in live' : i \in live \/ i = nextId + 1
  BY <1>1, TableStep, Zenon DEF TableMoves
<1> SUFFICES ASSUME NEW k \in 1 .. Len(stack'), NEW e \in stack'[k].todo, e.rank = Completion, e.id \in live'
             PROVE  /\ \A fd \in Fds, d \in Dirs : slot'[fd][d] # e.id
                    /\ \A j \in 1 .. Len(stack') : \A f \in stack'[j].todo : f.id = e.id => j = 1
  BY Zenon DEF ClaimsSound
<1>4. CASE FrameKept(k)
  <2>1. k \in 1 .. Len(stack) /\ e \in stack[k].todo
    BY <1>4, Zenon DEF FrameKept
  <2>2. e.id <= nextId
    BY <2>1, Zenon DEF EntriesSound, EntrySound
  <2>3. e.id \in Ids
    BY <1>1, <2>1, EntriesTyped DEF EntryType
  <2>4. e.id # NoOp /\ e.id # nextId + 1
    BY <1>1, <2>2, <2>3 DEF Ids, NoOp
  <2>5. e.id \in live
    BY <1>3, <2>4, Zenon
  <2>6. /\ \A fd \in Fds, d \in Dirs : slot[fd][d] # e.id
        /\ \A j \in 1 .. Len(stack) : \A f \in stack[j].todo : f.id = e.id => j = 1
    BY <2>1, <2>5, Zenon DEF ClaimsSound
  <2>7. \A fd \in Fds, d \in Dirs : slot'[fd][d] # e.id
    BY <1>3, <2>4, <2>6, Zenon
  <2>8. ASSUME NEW j \in 1 .. Len(stack'), NEW f \in stack'[j].todo, f.id = e.id
        PROVE  j = 1
    <3>1. CASE FrameKept(j)
      BY <2>6, <2>8, <3>1, Zenon DEF FrameKept
    <3>2. CASE FrameCollected(j) \/ FrameOrphans(j)
      BY <3>2, Zenon DEF FrameCollected, FrameOrphans
    <3>3. CASE FrameBroken(j)
      <4>1. PICK fd \in Fds : \E out : f \in Broken(fd, out)
        BY <2>8, <3>3, Zenon DEF FrameBroken, FrameOf
      <4> QED  BY <2>6, <2>8, <4>1, CutShort
    <3> QED  BY <1>2, <3>1, <3>2, <3>3, Zenon DEF FrameNew
  <2> QED  BY <2>7, <2>8, Zenon
<1>5. CASE FrameCollected(k)
  <2>1. \A j \in 1 .. Len(stack') : j = 1
    BY <1>5 DEF FrameCollected
  <2>2. PICK report \in Reports : \E failed, last :
          Collect(report, failed, last) /\ e \in Batch(Claimed(report, failed))
    BY <1>5, Zenon DEF FrameCollected, FrameOf
  <2>3. PICK failed, last : Collect(report, failed, last) /\ e \in Batch(Claimed(report, failed))
    BY <2>2
  <2>4. e.id \in Claimed(report, failed)
    <3>1. \A t : TimerEntry(t).rank = Expiry
      BY DEF TimerEntry, Entry
    <3>2. \A i : Entry(i, Cancelled, 0, 0, "cancelled").rank = Cancelled /\ Entry(i, Completion, 0, 0, "ok").id = i
      BY DEF Entry
    <3>3. Completion # Expiry /\ Completion # Cancelled
      BY DEF Completion, Expiry, Cancelled
    <3> QED  BY <2>3, <3>1, <3>2, <3>3 DEF Batch, TimerEntry
  <2>5. PICK g \in Fds : \E c \in Taken(report, failed, g) : slot[g][c] = e.id /\ e.id \in Ids
    BY <2>4, Zenon DEF Claimed
  <2>6. PICK c \in Taken(report, failed, g) : slot[g][c] = e.id /\ e.id \in Ids
    BY <2>5
  <2>7. c \in Dirs /\ e.id # NoOp
    BY <2>6 DEF Ids, NoOp, Taken, Reports
  <2>8. op[e.id].fd = g /\ op[e.id].dir = c
    BY <2>6, <2>7, IndexFacts DEF TableInv
  <2>9. ASSUME NEW fd \in Fds, NEW d \in Dirs, slot'[fd][d] = e.id
        PROVE  FALSE
    <3>1. slot'[fd][d] = IF d \in Taken(report, failed, fd) THEN NoOp ELSE slot[fd][d]
      BY <2>3, Zenon DEF Collect
    <3>2. slot[fd][d] = e.id /\ d \notin Taken(report, failed, fd)
      BY <2>7, <2>9, <3>1, Zenon
    <3>3. op[e.id].fd = fd /\ op[e.id].dir = d
      BY <2>7, <3>2, IndexFacts DEF TableInv
    <3> QED  BY <2>6, <2>8, <3>2, <3>3, Zenon
  <2> QED  BY <2>1, <2>9, Zenon
<1>6. CASE FrameBroken(k) \/ FrameOrphans(k)
  <2>1. e.rank # Completion
    BY <1>6, CutShort DEF FrameBroken, FrameOrphans, FrameOf
  <2> QED  BY <2>1
<1> QED  BY <1>2, <1>4, <1>5, <1>6, Zenon DEF FrameNew

\* A timer of a suspended operation is never dropped.
LEMMA TimersKeptStep ==
  ASSUME TableInv, TimersKept, [Next]_vars
  PROVE  TimersKept'
<1>1. TypeOK /\ ControlSound /\ ArmingSound /\ stack \in Seq(FrameType) /\ stack' = stack'
  BY DEF TableInv, TypeOK
<1>2. TableMoves
  BY <1>1, TableStep, Zenon
<1>3. \A i \in Ids : i <= nextId => op'[i] = op[i]
  BY <1>1, Monotone, Zenon
<1> SUFFICES ASSUME NEW i \in live', NEW t \in TimersOf(i, op'[i])
             PROVE  t \in timers' \/ (stack' # <<>> /\ TimerEntry(t) \in stack'[1].todo)
  BY Zenon DEF TimersKept, TimerEntry
<1>4. CASE i \in live
  <2>1. i \in Ids /\ i <= nextId
    BY <1>4, Zenon DEF TableInv, TypeOK, Fresh
  <2>2. t \in TimersOf(i, op[i]) /\ t.id = i
    <3>1. t \in TimersOf(i, op[i])
      BY <1>3, <2>1, Zenon
    <3> QED  BY <3>1 DEF TimersOf
  <2>3. CASE t \in timers
    BY <1>2, <2>2, <2>3, Zenon DEF TableMoves
  <2>4. CASE stack # <<>> /\ TimerEntry(t) \in stack[1].todo
    <3>1. TimerEntry(t).id = i
      BY <2>2 DEF TimerEntry, Entry
    <3>2. 1 \in 1 .. Len(stack)
      BY <1>1, <2>4
    <3>3. 1 \in 1 .. Len(stack') /\ TimerEntry(t) \in stack'[1].todo
      BY <1>1, <2>4, <3>1, <3>2, FramesStep, Zenon
    <3>4. stack' # <<>>
      BY <3>3
    <3> QED  BY <3>3, <3>4
  <2> QED  BY <1>4, <2>2, <2>3, <2>4, Zenon DEF TimersKept
<1>5. CASE i \notin live
  BY <1>2, <1>5, Zenon DEF TableMoves
<1> QED  BY <1>4, <1>5

-----------------------------------------------------------------------------
(* Verdicts.                                                               *)

\* Who answers an operation: a refused arm() under way, or finalize.
AnswersMove(i) ==
  \/ answer'[i] = answer[i] /\ (i \in live => i \in live')
  \/ i \in live /\ answer'[i] = "error" /\ arming # NotArming /\ arming.id = i
  \/ /\ i \in live /\ stack # <<>>
     /\ \E e \in Top.todo : Finalize(e) /\ e.id = i /\ answer'[i] = e.out

\* Nothing else answers, and an answered operation is no longer suspended.
LEMMA AnswersStep ==
  ASSUME TypeOK, ArmingSound, [Next]_vars
  PROVE  \A i \in Ids : AnswersMove(i)
<1> USE DEF table, tokens, queues, kernel, control, results
<1>1. answer \in [Ids -> AnswerType]
  BY Zenon DEF TypeOK
<1>2. ASSUME answer' = answer, live \subseteq live' PROVE \A i \in Ids : AnswersMove(i)
  BY <1>2, Zenon DEF AnswersMove
<1>3. ASSUME NEW j \in live, NEW a, Unlink(j), answer' = [answer EXCEPT ![j] = a]
      PROVE  \A i \in Ids : IF i = j THEN answer'[i] = a ELSE answer'[i] = answer[i] /\ (i \in live => i \in live')
  BY <1>1, <1>3 DEF Unlink
<1>4. ASSUME ArmRefused PROVE \A i \in Ids : AnswersMove(i)
  <2>1. arming # NotArming /\ arming.id \in live
    BY <1>4, Zenon DEF ArmRefused, ArmingSound
  <2>2. Unlink(arming.id) /\ answer' = [answer EXCEPT ![arming.id] = "error"]
    BY <1>4, Zenon DEF ArmRefused
  <2> QED  BY <1>3, <2>1, <2>2, Zenon DEF AnswersMove
<1>5. ASSUME stack # <<>>, NEW e \in Top.todo, Finalize(e) PROVE \A i \in Ids : AnswersMove(i)
  <2>1. CASE e.id \in live
    <3>1. Unlink(e.id) /\ answer' = [answer EXCEPT ![e.id] = e.out]
      BY <1>5, <2>1, Zenon DEF Finalize
    <3> QED  BY <1>3, <1>5, <2>1, <3>1, Zenon DEF AnswersMove
  <2>2. CASE e.id \notin live
    BY <1>2, <1>5, <2>2, Zenon DEF Finalize
  <2> QED  BY <2>1, <2>2
<1>6. ASSUME Submission \/ Sleeping PROVE answer' = answer /\ live \subseteq live'
  BY <1>6, Zenon DEF Submission, Sleeping, AddWaiter, AddTimer, Record
<1>7. ASSUME Closing \/ Collecting PROVE answer' = answer /\ live \subseteq live'
  BY <1>7, Zenon DEF Closing, Collecting, Reopen, Detach, Collect
<1>8. ASSUME Idles \/ Return PROVE answer' = answer /\ live \subseteq live'
  BY <1>8, Zenon DEF Idles, Return
<1>9. ASSUME NEW r, RearmAccepted(r) \/ RearmRefused(r) PROVE answer' = answer /\ live \subseteq live'
  BY <1>9, Zenon DEF RearmAccepted, RearmRefused
<1>10. ASSUME ArmAccepted PROVE answer' = answer /\ live \subseteq live'
  BY <1>10, Zenon DEF ArmAccepted
<1>11. CASE Delivering
  BY <1>2, <1>5, <1>8, <1>9, <1>11, Zenon DEF Delivering
<1>12. CASE Arming
  BY <1>2, <1>4, <1>10, <1>12, Zenon DEF Arming
<1> QED  BY <1>2, <1>6, <1>7, <1>8, <1>11, <1>12, StepCases, Zenon

\* Of the two timers of a sleep the earlier one is delivered, the wake-up when
\* they tie.
LEMMA VerdictOfSleep ==
  ASSUME TableInv, EntriesSound, TimersKept, stack # <<>>, NEW e \in Top.todo, Finalize(e),
         e.id \in live, op[e.id].kind = "timer"
  PROVE  /\ e.out = "ok" => op[e.id].wake <= op[e.id].deadline /\ op[e.id].wake <= now
         /\ e.out = "timed_out" => op[e.id].deadline < op[e.id].wake /\ op[e.id].deadline <= now
<1>1. /\ stack \in Seq(FrameType) /\ Len(stack) \in 1 .. Len(stack) /\ Top = stack[Len(stack)]
      /\ now \in 0 .. MaxTime /\ TypeOK
  <2>1. stack \in Seq(FrameType) /\ now \in 0 .. MaxTime /\ TypeOK
    BY Zenon DEF TableInv, TypeOK
  <2>2. Len(stack) \in Nat \ {0}
    BY <2>1, StackFacts, Zenon
  <2>3. Len(stack) \in 1 .. Len(stack)
    BY <2>2
  <2> QED  BY <2>1, <2>3, Zenon DEF Top
<1>2. EntrySound(Len(stack), e) /\ e \in EntryType
  BY <1>1, EntriesTyped, Zenon DEF EntriesSound
<1>3. e.rank \in {Completion, Expiry, Cancelled}
  BY <1>2 DEF EntryType
<1>4. CASE e.rank = Completion
  BY <1>2, <1>4 DEF EntrySound
<1>5. CASE e.rank = Cancelled
  BY <1>2, <1>5, Zenon DEF EntrySound
<1>6. CASE e.rank = Expiry
  <2>1. PICK i \in Ids : i = e.id
    BY <1>2 DEF EntryType
  <2>2. PICK w, d : w = op[i].wake /\ d = op[i].deadline
    BY Zenon
  <2>3. w \in Times /\ d \in Times
    BY <1>1, <2>2 DEF TypeOK
  <2>4. w \in Nat /\ d \in Nat /\ w <= Never /\ d <= Never /\ now < Never
    BY <1>1, <2>3, BoundsAssumption DEF Times, Never
  <2>5. PICK t \in TimersOf(i, op[i]) : e = TimerEntry(t)
    BY <1>2, <1>6, <2>1, Zenon DEF EntrySound
  <2>6. Top = stack[1] /\ e.at <= now /\ \A u \in timers : u.id = i => e.at < u.at
    BY <1>1, <1>2, <1>6, <2>1, Zenon DEF EntrySound
  <2>7. /\ e.at = t.at /\ e.cut = t.cut /\ e.out = (IF t.cut = 1 THEN "timed_out" ELSE "ok")
        /\ t.id = i /\ ((t.cut = 0 /\ t.at = w) \/ (t.cut = 1 /\ t.at = d))
    BY <2>2, <2>5 DEF TimerEntry, Entry, TimersOf
  <2>8. ASSUME NEW u \in TimersOf(i, op[i])
        PROVE  e.at < u.at \/ ~(u.at < e.at \/ (u.at = e.at /\ u.cut < e.cut))
    <3>1. u \in timers \/ TimerEntry(u) \in Top.todo
      BY <2>1, <2>6, Zenon DEF TimersKept
    <3>2. u.id = i /\ TimerEntry(u).rank = Expiry /\ TimerEntry(u).at = u.at
          /\ TimerEntry(u).cut = u.cut /\ TimerEntry(u).id = i
      BY DEF TimerEntry, Entry, TimersOf
    <3>3. CASE u \in timers
      BY <2>6, <3>2, <3>3, Zenon
    <3>4. CASE TimerEntry(u) \in Top.todo
      <4>1. ~DeliveredBefore(TimerEntry(u), e)
        BY <3>4, Zenon DEF Finalize
      <4> QED  BY <1>6, <2>1, <3>2, <4>1, Zenon DEF DeliveredBefore, KeyBefore
    <3> QED  BY <3>1, <3>3, <3>4
  <2>9. w # Never => e.at < w \/ ~(w < e.at \/ (w = e.at /\ 0 < e.cut))
    <3>1. PICK u : u = [at |-> w, id |-> i, cut |-> 0]
      BY Zenon
    <3>2. w # Never => u \in TimersOf(i, op[i])
      BY <2>2, <3>1 DEF TimersOf
    <3>3. u.at = w /\ u.cut = 0
      BY <3>1
    <3> QED  BY <2>8, <3>2, <3>3, Zenon
  <2>10. d # Never => e.at < d \/ ~(d < e.at \/ (d = e.at /\ 1 < e.cut))
    <3>1. PICK u : u = [at |-> d, id |-> i, cut |-> 1]
      BY Zenon
    <3>2. d # Never => u \in TimersOf(i, op[i])
      BY <2>2, <3>1 DEF TimersOf
    <3>3. u.at = d /\ u.cut = 1
      BY <3>1
    <3> QED  BY <2>8, <3>2, <3>3, Zenon
  <2>11. now \in Nat /\ MaxTime \in Nat
    BY <1>1, BoundsAssumption
  <2>12. CASE t.cut = 0
    <3>1. e.at = w /\ e.cut = 0 /\ e.out = "ok"
      BY <2>7, <2>12
    <3>2. w <= d /\ w <= now
      BY <2>4, <2>6, <2>10, <2>11, <3>1
    <3> QED  BY <2>1, <2>2, <3>1, <3>2
  <2>13. CASE t.cut = 1
    <3>1. e.at = d /\ e.cut = 1 /\ e.out = "timed_out"
      BY <2>7, <2>13
    <3>2. d < w /\ d <= now
      BY <2>4, <2>6, <2>9, <2>11, <3>1
    <3> QED  BY <2>1, <2>2, <3>1, <3>2
  <2> QED  BY <2>7, <2>12, <2>13
<1> QED  BY <1>3, <1>4, <1>5, <1>6

\* A verdict, once given, stays right; a sleep gets one only from its timers.
LEMMA VerdictStep ==
  ASSUME TableInv, TableInv', Unanswered, EntriesSound, TimersKept, SleepVerdict, [Next]_vars
  PROVE  SleepVerdict'
<1>1. TypeOK /\ TypeOK' /\ nextId \in Nat /\ now \in Nat /\ now' \in Nat /\ Ids \subseteq Nat
  <2>1. TypeOK /\ TypeOK'
    BY Zenon DEF TableInv
  <2>2. nextId \in 0 .. MaxOps /\ now \in 0 .. MaxTime /\ now' \in 0 .. MaxTime
    BY <2>1, Zenon DEF TypeOK
  <2>3. nextId \in Nat /\ now \in Nat /\ now' \in Nat /\ Ids \subseteq Nat
    BY <2>2 DEF Ids
  <2> QED  BY <2>1, <2>3
<1>2. now <= now' /\ \A i \in Ids : i <= nextId => op'[i] = op[i]
  BY <1>1, Monotone, Zenon
<1> SUFFICES ASSUME NEW i \in Ids, op'[i].kind = "timer"
             PROVE  /\ answer'[i] = "ok" => op'[i].wake <= op'[i].deadline /\ op'[i].wake <= now'
                    /\ answer'[i] = "timed_out" => op'[i].deadline < op'[i].wake /\ op'[i].deadline <= now'
  BY Zenon DEF SleepVerdict
<1>3. AnswersMove(i)
  BY <1>1, AnswersStep, Zenon DEF TableInv
<1>4. CASE nextId < i
  <2>1. i \notin live
    BY <1>1, <1>4 DEF TableInv, Fresh
  <2>2. answer'[i] = "none"
    BY <1>3, <1>4, <2>1, Zenon DEF AnswersMove, Unanswered
  <2> QED  BY <2>2
<1>5. CASE i <= nextId
  <2>1. op'[i] = op[i]
    BY <1>2, <1>5
  <2>2. op[i].wake \in Nat /\ op[i].deadline \in Nat
    BY <1>1, BoundsAssumption DEF TypeOK, Times
  <2>3. /\ answer'[i] = "ok" => op[i].wake <= op[i].deadline /\ op[i].wake <= now
        /\ answer'[i] = "timed_out" => op[i].deadline < op[i].wake /\ op[i].deadline <= now
    <3>1. CASE answer'[i] = answer[i]
      BY <2>1, <3>1, Zenon DEF SleepVerdict
    <3>2. CASE answer'[i] = "error"
      BY <3>2
    <3>3. CASE /\ i \in live /\ stack # <<>>
               /\ \E e \in Top.todo : Finalize(e) /\ e.id = i /\ answer'[i] = e.out
      <4>1. PICK e \in Top.todo : Finalize(e) /\ e.id = i /\ answer'[i] = e.out
        BY <3>3
      <4> QED  BY <2>1, <3>3, <4>1, VerdictOfSleep
    <3> QED  BY <1>3, <3>1, <3>2, <3>3, Zenon DEF AnswersMove
  <2> QED  BY <1>1, <1>2, <2>1, <2>2, <2>3
<1> QED  BY <1>1, <1>4, <1>5

\* The step of CompletionWins.
ClaimHeld ==
  \A i \in live :
    (/\ \E k \in 1 .. Len(stack) : \E e \in stack[k].todo : e.id = i /\ e.rank = Completion
     /\ i \notin live') => answer'[i] = "ok"

\* Only its completion answers an operation the batch has completed.
LEMMA ClaimsHold ==
  ASSUME TableInv, EntriesSound, ClaimsSound, [Next]_vars
  PROVE  ClaimHeld
<1> SUFFICES ASSUME NEW i \in live, NEW k \in 1 .. Len(stack), NEW e \in stack[k].todo,
                    e.id = i, e.rank = Completion, i \notin live'
             PROVE  answer'[i] = "ok"
  BY Zenon DEF ClaimHeld
<1>1. TypeOK /\ i \in Ids /\ stack \in Seq(FrameType)
  BY Zenon DEF TableInv, TypeOK
<1>2. AnswersMove(i)
  BY <1>1, AnswersStep, Zenon DEF TableInv
<1>12. ~(arming # NotArming /\ arming.id = i)
  <2> SUFFICES ASSUME arming # NotArming, arming.id = i PROVE FALSE
    OBVIOUS
  <2>1. i \in armed
    BY Zenon DEF TableInv, ArmingSound
  <2>2. PICK fd \in Fds, d \in Dirs : slot[fd][d] = i
    BY <1>1, <2>1, IndexFacts, Zenon DEF TableInv
  <2> QED  BY <2>2, Zenon DEF ClaimsSound
<1>3. stack # <<>> /\ \E f \in Top.todo : Finalize(f) /\ f.id = i /\ answer'[i] = f.out
  BY <1>2, <1>12, Zenon DEF AnswersMove
<1>4. PICK f \in Top.todo : Finalize(f) /\ f.id = i /\ answer'[i] = f.out
  BY <1>3
<1>5. Len(stack) \in 1 .. Len(stack) /\ Top = stack[Len(stack)]
  BY <1>1, <1>3, StackFacts DEF Top
<1>6. Len(stack) = 1
  BY <1>4, <1>5, ZenonT(40) DEF ClaimsSound
<1>7. k = 1
  BY Zenon DEF EntriesSound, EntrySound
<1>8. ~DeliveredBefore(e, f)
  BY <1>4, <1>5, <1>6, <1>7, Zenon DEF Finalize
<1>9. f \in EntryType /\ EntrySound(1, f)
  BY <1>1, <1>4, <1>5, <1>6, EntriesTyped, Zenon DEF EntriesSound
<1>10. f.rank \in {Completion, Expiry, Cancelled}
  BY <1>9 DEF EntryType
<1>11. f.rank = Completion
  BY <1>8, <1>10 DEF DeliveredBefore, Completion, Expiry, Cancelled
<1> QED  BY <1>4, <1>9, <1>11, Zenon DEF EntrySound

-----------------------------------------------------------------------------
(* Descriptors and datagram tokens.                                        *)

\* What a step does to the sockets: close gives one up, the end of its delivery
\* closes it, and the number may come back.
SocketsKept == UNCHANGED <<sock, reopens>>
SocketLeaves(fd) ==
  Detach(fd, TRUE) /\ sock[fd] = "open" /\ sock' = [sock EXCEPT ![fd] = "closing"] /\ reopens' = reopens
SocketCloses ==
  /\ stack # <<>> /\ Return /\ Top.fd \in Fds
  /\ sock' = [sock EXCEPT ![Top.fd] = "closed"] /\ reopens' = reopens
SocketReturns(fd) ==
  /\ Reopen(fd) /\ sock[fd] = "closed" /\ sock' = [sock EXCEPT ![fd] = "open"]
  /\ reopens' = [reopens EXCEPT ![fd] = @ + 1]

\* A step does one of these, to one descriptor.
LEMMA SocketsStep ==
  ASSUME TypeOK, [Next]_vars
  PROVE  SocketsKept \/ (\E fd \in Fds : SocketLeaves(fd) \/ SocketReturns(fd)) \/ SocketCloses
<1> USE DEF table, tokens, queues, kernel, control, results
<1>1. ASSUME NEW fd \in Fds, NEW isClose \in BOOLEAN, Detach(fd, isClose)
      PROVE  SocketsKept \/ SocketLeaves(fd)
  <2>1. CASE isClose = TRUE
    BY <1>1, <2>1, Zenon DEF Detach, SocketLeaves
  <2>2. CASE isClose = FALSE
    BY <1>1, <2>2, Zenon DEF Detach, SocketsKept
  <2> QED  BY <2>1, <2>2, Zenon
<1>2. ASSUME NEW fd \in Fds, Reopen(fd) PROVE SocketReturns(fd)
  BY <1>2, Zenon DEF Reopen, SocketReturns
<1>3. ASSUME stack # <<>>, Return PROVE SocketsKept \/ SocketCloses
  <2>1. Top \in FrameType
    BY <1>3, StackFacts, Zenon DEF TypeOK
  <2>2. Top.fd \in Fds \/ Top.fd = NoFd
    BY <2>1 DEF FrameType
  <2> QED  BY <1>3, <2>2, Zenon DEF Return, SocketsKept, SocketCloses
<1>4. ASSUME Submission \/ Arming \/ Sleeping PROVE SocketsKept
  BY <1>4, Zenon DEF Submission, Arming, Sleeping, AddWaiter, ArmAccepted, ArmRefused, AddTimer, SocketsKept
<1>5. ASSUME Collecting \/ Idles PROVE SocketsKept
  BY <1>5, Zenon DEF Collecting, Collect, Idles, SocketsKept
<1>6. ASSUME NEW r, RearmAccepted(r) \/ RearmRefused(r) PROVE SocketsKept
  BY <1>6, Zenon DEF RearmAccepted, RearmRefused, SocketsKept
<1>7. ASSUME NEW e, Finalize(e) PROVE SocketsKept
  BY <1>7, Zenon DEF Finalize, SocketsKept
<1>8. CASE Closing
  BY <1>1, <1>2, <1>8, Zenon DEF Closing
<1>9. CASE Delivering
  BY <1>3, <1>6, <1>7, <1>9, Zenon DEF Delivering
<1> QED  BY <1>4, <1>5, <1>8, <1>9, StepCases, Zenon

\* A delivery that closes a descriptor is the one close() started, and the socket
\* is open again only after that delivery is over.
LEMMA ClosesStep ==
  ASSUME TypeOK, ControlSound, ArmingSound, ClosesSound, [Next]_vars
  PROVE  ClosesSound'
<1> USE DEF table, tokens, queues, kernel, control, results
<1>1. /\ \A k \in 1 .. Len(stack) : stack[k].fd # NoFd => sock[stack[k].fd] = "closing"
      /\ \A j, k \in 1 .. Len(stack) : stack[j].fd = stack[k].fd /\ stack[j].fd # NoFd => j = k
      /\ \A fd \in Fds, d \in Dirs : slot[fd][d] # NoOp => sock[fd] = "open"
  BY Zenon DEF ClosesSound
<1>2. \A k \in 1 .. Len(stack') : FrameKept(k) \/ FrameNew(k)
  BY FramesStep, Zenon
<1>3. sock \in [Fds -> {"open", "closing", "closed"}] /\ slot \in SlotType /\ Len(stack) \in Nat
  BY DEF TypeOK
<1>4. \A k \in 1 .. Len(stack) : stack[k].fd # NoFd => stack[k].fd \in Fds
  <2> SUFFICES ASSUME NEW k \in 1 .. Len(stack) PROVE stack[k].fd # NoFd => stack[k].fd \in Fds
    BY Zenon
  <2>1. stack[k] \in FrameType
    BY DEF TypeOK
  <2> QED  BY <2>1 DEF FrameType
<1>5. \A k \in 1 .. Len(stack') : FrameNew(k) /\ stack'[k].fd # NoFd =>
        k = Len(stack) + 1 /\ stack'[k].fd \in Fds /\ Detach(stack'[k].fd, TRUE)
  <2> SUFFICES ASSUME NEW k \in 1 .. Len(stack'), FrameBroken(k), stack'[k].fd # NoFd
               PROVE  k = Len(stack) + 1 /\ stack'[k].fd \in Fds /\ Detach(stack'[k].fd, TRUE)
    BY Zenon DEF FrameNew, FrameCollected, FrameOrphans, FrameOf
  <2>1. PICK fd \in Fds, isClose \in BOOLEAN : Detach(fd, isClose) /\ stack'[k].fd = IF isClose THEN fd ELSE NoFd
    BY Zenon DEF FrameBroken, FrameOf
  <2>2. isClose = TRUE
    BY <2>1, Zenon
  <2> QED  BY <2>1, <2>2, Zenon DEF FrameBroken
<1>6. \A fd : Detach(fd, TRUE) => sock[fd] = "open" /\ sock' = [sock EXCEPT ![fd] = "closing"]
  BY Zenon DEF Detach
<1>7. ASSUME NEW k \in 1 .. Len(stack'), stack'[k].fd # NoFd
      PROVE  sock'[stack'[k].fd] = "closing"
  <2>1. CASE FrameNew(k)
    <3>1. PICK fd \in Fds : fd = stack'[k].fd
      BY <1>5, <1>7, <2>1, Zenon
    <3>2. sock' = [sock EXCEPT ![fd] = "closing"]
      BY <1>5, <1>6, <1>7, <2>1, <3>1, Zenon
    <3> QED  BY <1>3, <3>1, <3>2
  <2>2. CASE FrameKept(k)
    <3>1. PICK g \in Fds : g = stack'[k].fd /\ g = stack[k].fd
      BY <1>4, <1>7, <2>2, Zenon DEF FrameKept
    <3>2. k \in 1 .. Len(stack) /\ sock[g] = "closing"
      BY <1>1, <1>7, <2>2, <3>1, Zenon DEF FrameKept
    <3>3. CASE SocketsKept
      BY <3>1, <3>2, <3>3, Zenon DEF SocketsKept
    <3>4. ASSUME NEW fd \in Fds, SocketLeaves(fd) \/ SocketReturns(fd) PROVE sock'[g] = "closing"
      <4>1. fd # g /\ (sock' = [sock EXCEPT ![fd] = "closing"] \/ sock' = [sock EXCEPT ![fd] = "open"])
        BY <3>2, <3>4, Zenon DEF SocketLeaves, SocketReturns
      <4> QED  BY <1>3, <3>2, <4>1
    <3>5. CASE SocketCloses
      <4>1. stack' = Pop /\ stack # <<>> /\ Top = stack[Len(stack)] /\ stack \in Seq(FrameType)
        BY <3>5, Zenon DEF SocketCloses, Return, Top, TypeOK
      <4>2. Len(stack') = Len(stack) - 1
        BY <4>1, StackFacts
      <4>3. k # Len(stack) /\ Len(stack) \in 1 .. Len(stack)
        BY <1>3, <3>2, <4>2
      <4>4. Top.fd # g
        BY <1>1, <1>7, <3>1, <3>2, <4>1, <4>3, Zenon
      <4>5. Top.fd \in Fds /\ sock' = [sock EXCEPT ![Top.fd] = "closed"]
        BY <3>5, Zenon DEF SocketCloses
      <4>6. PICK h \in Fds : h = Top.fd
        BY <4>5, Zenon
      <4>7. h # g /\ sock' = [sock EXCEPT ![h] = "closed"]
        BY <4>4, <4>5, <4>6, Zenon
      <4>8. sock \in [Fds -> {"open", "closing", "closed"}]
        BY <1>3, Zenon
      <4> QED  BY <3>1, <3>2, <4>7, <4>8
    <3> QED  BY <3>1, <3>3, <3>4, <3>5, SocketsStep, Zenon
  <2> QED  BY <1>2, <2>1, <2>2, Zenon
<1>8. ASSUME NEW j \in 1 .. Len(stack'), NEW k \in 1 .. Len(stack'),
             stack'[j].fd = stack'[k].fd, stack'[j].fd # NoFd
      PROVE  j = k
  <2>1. ASSUME NEW m \in 1 .. Len(stack'), NEW n \in 1 .. Len(stack'), FrameKept(m), FrameNew(n),
               stack'[m].fd # NoFd
        PROVE  stack'[m].fd # stack'[n].fd
    <3>1. sock[stack'[m].fd] = "closing"
      BY <1>1, <2>1, Zenon DEF FrameKept
    <3>2. stack'[n].fd # NoFd => sock[stack'[n].fd] = "open"
      BY <1>5, <1>6, <2>1, Zenon
    <3> QED  BY <2>1, <3>1, <3>2
  <2>2. CASE FrameKept(j) /\ FrameKept(k)
    BY <1>1, <1>8, <2>2, Zenon DEF FrameKept
  <2>3. CASE FrameNew(j) /\ FrameNew(k)
    BY <1>5, <1>8, <2>3, Zenon
  <2> QED  BY <1>2, <1>8, <2>1, <2>2, <2>3, Zenon
<1>9. ASSUME NEW fd \in Fds, NEW d \in Dirs, slot'[fd][d] # NoOp
      PROVE  sock'[fd] = "open"
  <2>1. CASE SocketsKept
    <3>1. CASE Submission
      <4>1. PICK r \in WaitRequests : AddWaiter(r)
        BY <3>1, Zenon DEF Submission
      <4>2. r.fd \in Fds /\ r.dir \in Dirs
        BY RequestTypes DEF Waits
      <4>3. sock[r.fd] = "open" /\ slot' = [slot EXCEPT ![r.fd][r.dir] = nextId + 1]
        BY <4>1, Zenon DEF AddWaiter
      <4>4. fd = r.fd \/ slot'[fd][d] = slot[fd][d]
        BY <1>3, <4>2, <4>3 DEF SlotType
      <4> QED  BY <1>1, <1>9, <2>1, <4>3, <4>4, Zenon DEF SocketsKept
    <3>2. CASE ~Submission
      <4>1. slot'[fd][d] = slot[fd][d]
        BY <1>9, <3>2, TableStep, Zenon DEF TableMoves
      <4> QED  BY <1>1, <1>9, <2>1, <4>1, Zenon DEF SocketsKept
    <3> QED  BY <3>1, <3>2
  <2>2. ASSUME NEW g \in Fds, SocketLeaves(g) PROVE sock'[fd] = "open"
    <3>1. slot' = [slot EXCEPT ![g] = [c \in Dirs |-> NoOp]] /\ sock' = [sock EXCEPT ![g] = "closing"]
      BY <2>2, Zenon DEF SocketLeaves, Detach, FailWaiters
    <3>2. fd # g /\ slot'[fd][d] = slot[fd][d]
      BY <1>3, <1>9, <3>1 DEF SlotType
    <3> QED  BY <1>1, <1>3, <1>9, <3>1, <3>2
  <2>3. ASSUME NEW g \in Fds, SocketReturns(g) PROVE sock'[fd] = "open"
    <3>1. slot' = slot /\ sock' = [sock EXCEPT ![g] = "open"]
      BY <2>3, Zenon DEF SocketReturns, Reopen
    <3> QED  BY <1>1, <1>3, <1>9, <3>1
  <2>4. CASE SocketCloses
    <3>1. slot' = slot /\ sock' = [sock EXCEPT ![Top.fd] = "closed"] /\ Top.fd \in Fds /\ stack # <<>>
      BY <2>4, Zenon DEF SocketCloses, Return
    <3>2. Len(stack) \in 1 .. Len(stack) /\ Top = stack[Len(stack)]
      BY <1>3, <3>1, StackFacts DEF Top, TypeOK
    <3>3. sock[Top.fd] = "closing"
      BY <1>1, <3>1, <3>2, NamesAssumption, Zenon
    <3>4. sock[fd] = "open" /\ fd # Top.fd
      BY <1>1, <1>9, <3>1, <3>3
    <3> QED  BY <1>3, <3>1, <3>4
  <2> QED  BY <2>1, <2>2, <2>3, <2>4, SocketsStep, Zenon
<1> QED  BY <1>7, <1>8, <1>9, Zenon DEF ClosesSound

\* release_registration and a token's next owner leave the other tokens alone.
LEMMA TokenReleased ==
  ASSUME TypeOK, NEW i \in live, ReleaseToken(i)
  PROVE  \A fd \in Fds, d \in Dirs : token[fd][d] # i => token'[fd][d] = token[fd][d]
<1>1. token \in SlotType
  BY Zenon DEF TypeOK
<1>2. \/ token' = token
      \/ token[op[i].fd][op[i].dir] = i /\ token' = [token EXCEPT ![op[i].fd][op[i].dir] = NoOp]
  BY Zenon DEF ReleaseToken
<1> QED  BY <1>1, <1>2 DEF SlotType

\* close revokes the token of every datagram wait on its socket before anybody
\* is resumed.
LEMMA TokensStep ==
  ASSUME TableInv, TypeOK', ClosesSound, TokensSound, [Next]_vars
  PROVE  TokensSound'
<1> USE DEF table, tokens, queues, kernel, control, results
<1> DEFINE Mine(i) == op[i].kind = "readiness" /\ op[i].datagram /\ i \notin revoked
           Holds(i) == /\ token[op[i].fd][op[i].dir] = i
                       /\ sock[op[i].fd] = "open" /\ inc[i] = reopens[op[i].fd]
<1>1. /\ TypeOK /\ token \in SlotType /\ sock \in [Fds -> {"open", "closing", "closed"}]
      /\ reopens \in [Fds -> 0 .. MaxReopens] /\ nextId \in Nat
      /\ live \subseteq Ids
  <2>1. /\ TypeOK /\ token \in SlotType /\ sock \in [Fds -> {"open", "closing", "closed"}]
        /\ reopens \in [Fds -> 0 .. MaxReopens] /\ nextId \in 0 .. MaxOps /\ live \subseteq Ids
    BY Zenon DEF TableInv, TypeOK
  <2> QED  BY <2>1
<1>2. \A i \in live : op[i].kind = "readiness" => op[i].fd \in Fds /\ op[i].dir \in Dirs
  BY <1>1, Zenon DEF TableInv, Fresh, TypeOK
<1>3. \A i \in live : i # NoOp /\ i # nextId + 1
  BY <1>1 DEF TableInv, Fresh, Ids, NoOp
<1>4. \A i \in live : Mine(i) => Holds(i)
  BY Zenon DEF TokensSound
<1>5. ASSUME live' \subseteq live, UNCHANGED <<op, inc, sock, reopens>>, revoked \subseteq revoked',
             \A i \in live' : Mine(i) => token'[op[i].fd][op[i].dir] = i
      PROVE  TokensSound'
  BY <1>4, <1>5, Zenon DEF TokensSound
<1>6. ASSUME NEW i \in live, Unlink(i), ReleaseToken(i), UNCHANGED <<op, inc, sock, reopens, revoked>>
      PROVE  TokensSound'
  <2>1. live' \subseteq live /\ i \notin live'
    BY <1>6, Zenon DEF Unlink
  <2>2. \A fd \in Fds, d \in Dirs : token[fd][d] # i => token'[fd][d] = token[fd][d]
    BY <1>1, <1>6, TokenReleased
  <2>3. ASSUME NEW j \in live', Mine(j) PROVE token'[op[j].fd][op[j].dir] = j
    <3>1. j \in live /\ j # i
      BY <2>1, Zenon
    <3>2. Holds(j) /\ op[j].fd \in Fds /\ op[j].dir \in Dirs
      BY <1>2, <1>4, <2>3, <3>1, Zenon
    <3> QED  BY <2>2, <3>1, <3>2, Zenon
  <2> QED  BY <1>5, <1>6, <2>1, <2>3, Zenon
<1>7. ASSUME UNCHANGED <<live, op, inc, sock, reopens, revoked, token>>
      PROVE  TokensSound'
  BY <1>7, Zenon DEF TokensSound
<1>8. ASSUME NEW r \in WaitRequests, AddWaiter(r)
      PROVE  TokensSound'
  <2>1. r \in OpType /\ r.fd \in Fds /\ r.dir \in Dirs
    BY RequestTypes DEF Waits
  <2>2. nextId < MaxOps /\ Record(r)
    BY <1>8, Zenon DEF AddWaiter, Admitted
  <2>3. PICK n \in Ids : n = nextId + 1
    BY <1>1, <2>1, <2>2, RecordTypes
  <2>4. /\ op' = [op EXCEPT ![n] = r] /\ live' = live \cup {n}
        /\ inc' = [inc EXCEPT ![n] = reopens[r.fd]] /\ sock[r.fd] = "open"
        /\ r.datagram => token[r.fd][r.dir] = NoOp
        /\ token' = IF r.datagram THEN [token EXCEPT ![r.fd][r.dir] = n] ELSE token
        /\ UNCHANGED <<revoked, sock, reopens>>
    BY <1>8, <2>3, Zenon DEF AddWaiter, Record
  <2>5. op'[n] = r /\ \A j \in Ids : j # n => op'[j] = op[j]
    <3>1. op \in [Ids -> OpType]
      BY <1>1, Zenon DEF TypeOK, OpType
    <3> QED  BY <2>4, <3>1, Zenon
  <2>6. inc'[n] = reopens[r.fd] /\ \A j \in Ids : j # n => inc'[j] = inc[j]
    <3>1. inc \in [Ids -> 0 .. MaxReopens]
      BY <1>1, Zenon DEF TypeOK
    <3> QED  BY <2>4, <3>1, Zenon
  <2>7. /\ r.datagram => token'[r.fd][r.dir] = n
        /\ \A fd \in Fds, d \in Dirs : token[fd][d] # NoOp => token'[fd][d] = token[fd][d]
    BY <1>1, <2>1, <2>4 DEF SlotType
  <2>8. ASSUME NEW j \in live'
        PROVE  op'[j].kind = "readiness" /\ op'[j].datagram /\ j \notin revoked' =>
                 /\ token'[op'[j].fd][op'[j].dir] = j
                 /\ sock'[op'[j].fd] = "open" /\ inc'[j] = reopens'[op'[j].fd]
    <3>1. CASE j = n
      <4>1. op'[j] = r /\ inc'[j] = reopens[r.fd] /\ (r.datagram => token'[r.fd][r.dir] = j)
        BY <2>5, <2>6, <2>7, <3>1
      <4>2. sock'[r.fd] = "open" /\ reopens' = reopens
        BY <2>4
      <4> QED  BY <4>1, <4>2
    <3>2. CASE j # n
      <4>1. j \in live /\ j \in Ids
        BY <1>1, <2>4, <3>2, Zenon
      <4>2. op'[j] = op[j] /\ inc'[j] = inc[j]
        BY <2>5, <2>6, <3>2, <4>1, Zenon
      <4>3. SUFFICES ASSUME Mine(j)
                     PROVE  /\ token'[op[j].fd][op[j].dir] = j
                            /\ sock[op[j].fd] = "open" /\ inc[j] = reopens[op[j].fd]
        BY <2>4, <4>2, Zenon
      <4>4. Holds(j) /\ op[j].fd \in Fds /\ op[j].dir \in Dirs /\ j # NoOp
        BY <1>2, <1>3, <1>4, <4>1, <4>3, Zenon
      <4> QED  BY <2>7, <4>4, Zenon
    <3> QED  BY <3>1, <3>2, Zenon
  <2> QED  BY <2>8, Zenon DEF TokensSound
<1>9. ASSUME NEW r \in SleepRequests, AddTimer(r)
      PROVE  TokensSound'
  <2>1. r \in OpType /\ r.kind = "timer"
    BY RequestTypes, Zenon DEF Sleeps
  <2>2. nextId < MaxOps /\ Record(r)
    BY <1>9, Zenon DEF AddTimer, Admitted
  <2>3. PICK n \in Ids : n = nextId + 1
    BY <1>1, <2>1, <2>2, RecordTypes
  <2>4. /\ op' = [op EXCEPT ![n] = r] /\ live' = live \cup {n}
        /\ UNCHANGED <<revoked, sock, reopens, token, inc>>
    BY <1>9, <2>3, Zenon DEF AddTimer, Record
  <2>5. op'[n] = r /\ \A j \in Ids : j # n => op'[j] = op[j]
    BY <1>1, <2>4, Zenon DEF TypeOK
  <2>6. \A j \in live' : op'[j].kind = "readiness" => j \in live /\ op'[j] = op[j]
    BY <1>1, <2>1, <2>4, <2>5, Zenon
  <2>7. ASSUME NEW j \in live'
        PROVE  op'[j].kind = "readiness" /\ op'[j].datagram /\ j \notin revoked' =>
                 /\ token'[op'[j].fd][op'[j].dir] = j
                 /\ sock'[op'[j].fd] = "open" /\ inc'[j] = reopens'[op'[j].fd]
    <3>1. revoked' = revoked /\ sock' = sock /\ reopens' = reopens /\ token' = token /\ inc' = inc
      BY <2>4, Zenon
    <3> SUFFICES ASSUME op'[j].kind = "readiness", op'[j].datagram, j \notin revoked
                 PROVE  token[op'[j].fd][op'[j].dir] = j /\ sock[op'[j].fd] = "open" /\ inc[j] = reopens[op'[j].fd]
      BY <3>1, Zenon
    <3>2. j \in live /\ op'[j] = op[j]
      BY <2>6, Zenon
    <3>3. Mine(j)
      BY <3>2, Zenon
    <3>4. Holds(j)
      BY <1>4, <3>2, <3>3, Zenon
    <3> QED  BY <3>2, <3>4, Zenon
  <2> QED  BY <2>7, Zenon DEF TokensSound
<1>10. ASSUME NEW fd \in Fds, NEW isClose \in BOOLEAN, Detach(fd, isClose)
       PROVE  TokensSound'
  <2>1. /\ revoked' = revoked \cup ({token[fd][d] : d \in Dirs} \ {NoOp})
        /\ token' = [token EXCEPT ![fd] = [d \in Dirs |-> NoOp]]
        /\ sock' = [sock EXCEPT ![fd] = "closing"] \/ sock' = sock
        /\ UNCHANGED <<op, inc, live, reopens>>
    BY <1>10, Zenon DEF Detach
  <2>2. \A i \in live : Mine(i) /\ i \notin revoked' => op[i].fd # fd
    BY <1>2, <1>3, <1>4, <2>1
  <2>3. \A g \in Fds, d \in Dirs : g # fd => token'[g][d] = token[g][d] /\ sock'[g] = sock[g]
    BY <1>1, <2>1 DEF SlotType
  <2>4. \A i \in live : op[i].kind = "readiness" /\ op[i].datagram /\ i \notin revoked' =>
          /\ token'[op[i].fd][op[i].dir] = i
          /\ sock'[op[i].fd] = "open" /\ inc[i] = reopens[op[i].fd]
    BY <1>2, <1>4, <2>1, <2>2, <2>3
  <2> QED  BY <2>1, <2>4 DEF TokensSound
<1>11. ASSUME NEW fd \in Fds, SocketReturns(fd)
       PROVE  TokensSound'
  <2>1. /\ sock[fd] = "closed" /\ sock' = [sock EXCEPT ![fd] = "open"]
        /\ reopens' = [reopens EXCEPT ![fd] = @ + 1] /\ UNCHANGED <<op, inc, live, token, revoked>>
    BY <1>11, Zenon DEF SocketReturns, Reopen
  <2>2. \A g \in Fds : sock[g] = "open" => sock'[g] = "open" /\ reopens'[g] = reopens[g]
    BY <1>1, <2>1
  <2>3. ASSUME NEW i \in live, Mine(i)
        PROVE  /\ token'[op[i].fd][op[i].dir] = i
               /\ sock'[op[i].fd] = "open" /\ inc[i] = reopens'[op[i].fd]
    <3>1. Holds(i) /\ op[i].fd \in Fds
      BY <1>2, <1>4, <2>3, Zenon
    <3> QED  BY <2>1, <2>2, <3>1, Zenon
  <2>4. op' = op /\ inc' = inc /\ live' = live /\ token' = token /\ revoked' = revoked
    BY <2>1, Zenon
  <2> QED  BY <2>3, <2>4, Zenon DEF TokensSound
<1>12. CASE SocketCloses
  <2>1. /\ stack # <<>> /\ Top.fd \in Fds /\ sock' = [sock EXCEPT ![Top.fd] = "closed"]
        /\ UNCHANGED <<op, inc, live, token, revoked, reopens>>
    BY <1>12, Zenon DEF SocketCloses, Return
  <2>2. Len(stack) \in 1 .. Len(stack) /\ Top = stack[Len(stack)]
    <3>1. stack \in Seq(FrameType)
      BY <1>1, Zenon DEF TypeOK
    <3> QED  BY <2>1, <3>1, StackFacts DEF Top
  <2>3. sock[Top.fd] = "closing"
    BY <2>1, <2>2, NamesAssumption, Zenon DEF ClosesSound
  <2>4. \A g \in Fds : sock[g] = "open" => sock'[g] = "open"
    BY <1>1, <2>1, <2>3
  <2> QED  BY <1>2, <1>4, <2>1, <2>4, Zenon DEF TokensSound
<1>13. ASSUME ArmAccepted \/ ArmRefused
       PROVE  TokensSound'
  <2>1. CASE ArmAccepted
    BY <1>7, <2>1, Zenon DEF ArmAccepted
  <2>2. CASE ArmRefused
    <3>1. arming.id \in live
      BY <2>2, Zenon DEF ArmRefused, TableInv, ArmingSound
    <3> QED  BY <1>6, <2>2, <3>1, Zenon DEF ArmRefused
  <2> QED  BY <1>13, <2>1, <2>2
<1>14. CASE Collecting \/ Idles
  BY <1>7, <1>14, Zenon DEF Collecting, Collect, Idles
<1>15. CASE Closing
  <2>1. ASSUME NEW fd \in Fds, Reopen(fd) PROVE SocketReturns(fd)
    BY <2>1, Zenon DEF Reopen, SocketReturns
  <2> QED  BY <1>10, <1>11, <1>15, <2>1, Zenon DEF Closing
<1>16. CASE Delivering
  <2>1. ASSUME NEW r, RearmAccepted(r) \/ RearmRefused(r) PROVE TokensSound'
    BY <1>7, <2>1, Zenon DEF RearmAccepted, RearmRefused
  <2>2. ASSUME NEW e, Finalize(e) PROVE TokensSound'
    <3>1. CASE e.id \in live
      BY <1>6, <2>2, <3>1, Zenon DEF Finalize
    <3>2. CASE e.id \notin live
      BY <1>7, <2>2, <3>2, Zenon DEF Finalize
    <3> QED  BY <3>1, <3>2
  <2>3. CASE Return
    <3>1. UNCHANGED <<op, inc, live, token, revoked, reopens>>
      BY <2>3, Zenon DEF Return
    <3>2. CASE SocketCloses
      BY <1>12, <3>2
    <3>3. CASE SocketsKept
      BY <1>7, <3>1, <3>3, Zenon DEF SocketsKept
    <3>4. Top.fd \in Fds \/ Top.fd = NoFd
      <4>1. Top \in FrameType
        BY <1>1, <1>16, StackFacts, Zenon DEF TypeOK, Delivering
      <4> QED  BY <4>1 DEF FrameType
    <3> QED
      BY <1>16, <2>3, <3>2, <3>3, <3>4, Zenon DEF Delivering, Return, SocketCloses, SocketsKept
  <2> QED  BY <1>16, <2>1, <2>2, <2>3, Zenon DEF Delivering
<1> HIDE DEF Mine, Holds
<1> QED
  BY <1>8, <1>9, <1>13, <1>14, <1>15, <1>16, StepCases, Zenon DEF Submission, Arming, Sleeping

\* The retries that strayed so far are all of streams.
StraysSound == \A i \in strayed : i <= nextId /\ ~op[i].datagram

\* A datagram retry finds the descriptor it was submitted for: its token would
\* have been revoked otherwise.
LEMMA StraysStep ==
  ASSUME TableInv, TokensSound, StraysSound, [Next]_vars
  PROVE  StraysSound'
<1> USE DEF table, tokens, queues, kernel, control, results
<1>1. TypeOK /\ nextId \in Nat /\ nextId' \in Nat /\ strayed \subseteq Ids /\ live \subseteq Ids /\ Ids \subseteq Nat
  <2>1. TypeOK /\ nextId \in Nat /\ strayed \subseteq Ids /\ live \subseteq Ids /\ Ids \subseteq Nat
    BY DEF TableInv, TypeOK, Ids
  <2>2. TypeOK'
    BY TypeStep, Zenon DEF TableInv
  <2>3. nextId' \in Nat
    BY <2>2 DEF TypeOK
  <2> QED  BY <2>1, <2>3
<1>2. nextId <= nextId' /\ \A i \in Ids : i <= nextId => op'[i] = op[i]
  BY <1>1, Monotone, Zenon
<1>3. ASSUME \A i \in strayed' : i \in strayed \/ (i \in live /\ ~op[i].datagram)
      PROVE  StraysSound'
  <2>1. \A i \in strayed' : i \in Ids /\ i <= nextId /\ ~op[i].datagram
    BY <1>1, <1>3, Zenon DEF StraysSound, TableInv, Fresh
  <2>2. \A i \in strayed' : i <= nextId' /\ ~op'[i].datagram
    <3> SUFFICES ASSUME NEW i \in strayed' PROVE i <= nextId' /\ ~op'[i].datagram
      OBVIOUS
    <3>1. i \in Ids /\ i <= nextId /\ ~op[i].datagram /\ op'[i] = op[i]
      BY <1>2, <2>1, Zenon
    <3>2. i \in Nat
      BY <1>1, <3>1, Zenon
    <3>3. i <= nextId'
      BY <1>1, <1>2, <3>1, <3>2
    <3> QED  BY <3>1, <3>3, Zenon
  <2> QED  BY <2>2, Zenon DEF StraysSound
<1>4. ASSUME NEW e, Finalize(e) PROVE \A i \in strayed' : i \in strayed \/ (i \in live /\ ~op[i].datagram)
  <2>1. strayed' = strayed \/ (strayed' = strayed \cup {e.id} /\ e.id \in live /\ RetryStrays(e.id, e.out))
    BY <1>4, Zenon DEF Finalize
  <2>2. ASSUME e.id \in live, RetryStrays(e.id, e.out) PROVE ~op[e.id].datagram
    <3> SUFFICES ASSUME op[e.id].datagram PROVE FALSE
      OBVIOUS
    <3>1. op[e.id].kind = "readiness" /\ (sock[op[e.id].fd] = "closed" \/ reopens[op[e.id].fd] # inc[e.id])
      BY <2>2, Zenon DEF RetryStrays
    <3>2. e.id \notin revoked
      BY <2>2, Zenon DEF RetryStrays, StreamRetries, DatagramRetries
    <3>3. sock[op[e.id].fd] = "open" /\ inc[e.id] = reopens[op[e.id].fd]
      BY <2>2, <3>1, <3>2, Zenon DEF TokensSound
    <3> QED  BY <3>1, <3>3
  <2> QED  BY <2>1, <2>2, Zenon
<1>5. ASSUME Idles \/ Submission \/ Arming \/ Sleeping PROVE strayed' = strayed
  BY <1>5, Zenon DEF Idles, Submission, Arming, Sleeping, AddWaiter, ArmAccepted, ArmRefused, AddTimer
<1>6. ASSUME Closing \/ Collecting \/ Return PROVE strayed' = strayed
  BY <1>6, Zenon DEF Closing, Collecting, Return, Reopen, Detach, Collect
<1>7. ASSUME NEW r, RearmAccepted(r) \/ RearmRefused(r) PROVE strayed' = strayed
  BY <1>7, Zenon DEF RearmAccepted, RearmRefused
<1>8. \A i \in strayed' : i \in strayed \/ (i \in live /\ ~op[i].datagram)
  BY <1>4, <1>5, <1>6, <1>7, StepCases, Zenon DEF Delivering
<1> QED  BY <1>3, <1>8

-----------------------------------------------------------------------------
(* Interest, under kqueue.                                                 *)

\* A submission under way arms its own direction.
UnderWay ==
  arming # NotArming =>
    /\ arming.id \in Ids /\ arming.id <= nextId
    /\ op[arming.id].dir \in arming.want

\* unlink drops a filter only from a descriptor nobody waits on any more.
LEMMA UnlinkArms ==
  ASSUME TypeOK, IndicesSound, Backend = "kqueue", NEW i \in live, Unlink(i),
         NEW fd \in Fds, NEW d \in Dirs, slot'[fd][d] # NoOp
  PROVE  slot'[fd][d] = slot[fd][d] /\ slot[fd][d] # i /\ (d \in interest[fd] => d \in interest'[fd])
<1>1. slot'[fd][d] = slot[fd][d]
  BY UnlinkMoves, Zenon
<1>2. interest \in [Fds -> SUBSET Dirs] /\ slot \in SlotType
  BY Zenon DEF TypeOK
<1>9. \A g \in Fds, h \in Dirs : slot[g][h] # NoOp =>
        op[slot[g][h]].kind = "readiness" /\ op[slot[g][h]].fd = g /\ op[slot[g][h]].dir = h
  BY IndexFacts
<1>3. slot[fd][d] # i
  <2> SUFFICES ASSUME slot[fd][d] = i PROVE FALSE
    OBVIOUS
  <2>1. op[i].kind = "readiness" /\ op[i].fd = fd /\ op[i].dir = d
    <3>1. slot[fd][d] # NoOp
      BY <1>1, Zenon
    <3>2. op[slot[fd][d]].kind = "readiness" /\ op[slot[fd][d]].fd = fd /\ op[slot[fd][d]].dir = d
      BY <1>9, <3>1, Zenon
    <3> QED  BY <3>2
  <2>2. slot' = [slot EXCEPT ![fd][d] = NoOp]
    BY <2>1, Zenon DEF Unlink, SlotsWithout
  <2>3. slot'[fd][d] = NoOp
    BY <1>2, <2>2 DEF SlotType
  <2> QED  BY <2>3
<1>4. \/ interest' = interest
      \/ Wanted(slot', op[i].fd) = {} /\ interest' = Disarmed(interest, op[i].fd)
      \/ interest' = Armed(interest, op[i].fd, Wanted(slot', op[i].fd))
  BY Zenon DEF Unlink, InterestWithout
<1>5. CASE Wanted(slot', op[i].fd) = {} /\ interest' = Disarmed(interest, op[i].fd)
  <2>1. op[i].fd # fd
    BY <1>5, Zenon DEF Wanted
  <2> QED  BY <1>1, <1>2, <1>3, <1>5, <2>1 DEF Disarmed
<1>6. CASE interest' = Armed(interest, op[i].fd, Wanted(slot', op[i].fd))
  <2>1. d \in interest[fd] => d \in interest'[fd]
    BY <1>2, <1>6 DEF Armed
  <2> QED  BY <1>1, <1>3, <2>1
<1> QED  BY <1>1, <1>3, <1>4, <1>5, <1>6, Zenon

\* add_waiter puts its own direction among those it asks arm() for.
LEMMA UnderWayStep ==
  ASSUME TypeOK, TypeOK', UnderWay, [Next]_vars
  PROVE  UnderWay'
<1> USE DEF table, tokens, queues, kernel, control, results
<1>1. arming \in [id : Ids \cup {NoOp}, want : SUBSET Dirs] /\ nextId \in Nat /\ nextId' \in Nat
  BY DEF TypeOK
<1>2. nextId <= nextId' /\ \A i \in Ids : i <= nextId => op'[i] = op[i]
  BY Monotone, Zenon
<1>3. ASSUME arming' = arming PROVE UnderWay'
  <2> SUFFICES ASSUME arming # NotArming
               PROVE  arming.id \in Ids /\ arming.id <= nextId' /\ op'[arming.id].dir \in arming.want
    BY <1>3, Zenon DEF UnderWay
  <2>1. arming.id \in Ids /\ arming.id <= nextId /\ op[arming.id].dir \in arming.want
    BY Zenon DEF UnderWay
  <2>2. op'[arming.id] = op[arming.id]
    BY <1>2, <2>1, Zenon
  <2>3. arming.id <= nextId'
    BY <1>1, <1>2, <2>1 DEF Ids
  <2> QED  BY <2>1, <2>2, <2>3
<1>4. ASSUME NEW r \in WaitRequests, AddWaiter(r) PROVE UnderWay'
  <2>1. r \in OpType
    BY RequestTypes, Zenon
  <2>2. nextId < MaxOps /\ Record(r)
    BY <1>4, Zenon DEF AddWaiter, Admitted
  <2>3. PICK n \in Ids : n = nextId + 1
    BY <2>1, <2>2, RecordTypes
  <2>4. PICK w : arming' = [id |-> n, want |-> w] /\ r.dir \in w
    BY <1>4, <2>3, Zenon DEF AddWaiter
  <2>5. op' = [op EXCEPT ![n] = r] /\ nextId' = n
    BY <2>2, <2>3, Zenon DEF Record
  <2>6. op'[n] = r
    BY <2>5 DEF TypeOK
  <2>7. arming'.id = n /\ arming'.want = w /\ n <= n
    BY <2>4 DEF Ids
  <2> QED  BY <2>4, <2>5, <2>6, <2>7, Zenon DEF UnderWay
<1>5. ASSUME ArmAccepted \/ ArmRefused PROVE UnderWay'
  BY <1>5, Zenon DEF ArmAccepted, ArmRefused, UnderWay
<1>6. ASSUME Idles \/ Sleeping \/ Closing PROVE arming' = arming
  BY <1>6, Zenon DEF Idles, Sleeping, Closing, AddTimer, Reopen, Detach
<1>7. ASSUME Collecting \/ Delivering PROVE arming' = arming
  BY <1>7, Zenon DEF Collecting, Delivering, Collect, RearmAccepted, RearmRefused, Finalize, Return
<1> QED  BY <1>3, <1>4, <1>5, <1>6, <1>7, StepCases, Zenon DEF Submission, Arming

\* A direction somebody waits on under kqueue has its filter, or a submission
\* under way will add it.
Filtered(fd, d) == d \in interest[fd] \/ arming.id = slot[fd][d]
FiltersSound == \A fd \in Fds, d \in Dirs : slot[fd][d] # NoOp => Filtered(fd, d)

\* A filter goes only when it has fired or when nobody waits in its direction.
LEMMA FiltersStep ==
  ASSUME TableInv, ClosesSound, UnderWay, FiltersSound, Backend = "kqueue", [Next]_vars
  PROVE  FiltersSound'
<1> USE DEF table, tokens, queues, kernel, control, results
<1>1. /\ TypeOK /\ IndicesSound /\ interest \in [Fds -> SUBSET Dirs] /\ slot \in SlotType
      /\ arming \in [id : Ids \cup {NoOp}, want : SUBSET Dirs]
  BY Zenon DEF TableInv, TypeOK
<1> SUFFICES ASSUME NEW fd \in Fds, NEW d \in Dirs, slot'[fd][d] # NoOp
             PROVE  d \in interest'[fd] \/ arming'.id = slot'[fd][d]
  BY Zenon DEF FiltersSound, Filtered
<1> DEFINE Goal == d \in interest'[fd] \/ arming'.id = slot'[fd][d]
<1>2. slot[fd][d] # NoOp => d \in interest[fd] \/ arming.id = slot[fd][d]
  BY Zenon DEF FiltersSound, Filtered
<1>3. ASSUME arming' = arming, d \in interest[fd] => d \in interest'[fd], slot'[fd][d] = slot[fd][d]
      PROVE  Goal
  BY <1>2, <1>3, Zenon
<1>4. slot'[fd][d] = slot[fd][d] \/ Submission
  BY <1>1, TableStep, Zenon DEF TableMoves, TableInv
<1>5. ASSUME NEW r \in WaitRequests, AddWaiter(r) PROVE Goal
  <2>1. r.fd \in Fds /\ r.dir \in Dirs
    BY RequestTypes DEF Waits
  <2>2. PICK n, w : n = nextId + 1 /\ w = Wanted(slot, r.fd) \cup {r.dir}
    BY Zenon
  <2>3. /\ slot' = [slot EXCEPT ![r.fd][r.dir] = n] /\ arming' = [id |-> n, want |-> w]
        /\ interest' = interest /\ arming = NotArming
    BY <1>5, <2>2, Zenon DEF AddWaiter, UserRuns
  <2>4. arming'.id = n /\ arming.id = NoOp
    BY <2>3 DEF NotArming
  <2>5. slot'[fd][d] = n \/ slot'[fd][d] = slot[fd][d]
    BY <1>1, <2>1, <2>3 DEF SlotType
  <2> QED  BY <1>2, <2>3, <2>4, <2>5, Zenon
<1>6. ASSUME ArmAccepted PROVE Goal
  <2>1. PICK f : f = op[arming.id].fd
    OBVIOUS
  <2>2. /\ slot' = slot
        /\ interest' = Armed(interest, f, arming.want) /\ arming # NotArming
    BY <1>6, <2>1, Zenon DEF ArmAccepted
  <2>4. d \in interest[fd] => d \in interest'[fd]
    BY <1>1, <2>2 DEF Armed
  <2>5. arming.id = slot[fd][d] => d \in interest'[fd]
    <3> SUFFICES ASSUME arming.id = slot[fd][d] PROVE d \in interest'[fd]
      OBVIOUS
    <3>1. f = fd /\ op[arming.id].dir = d
      <4>1. slot[fd][d] # NoOp
        BY <2>2, Zenon
      <4>2. op[slot[fd][d]].fd = fd /\ op[slot[fd][d]].dir = d
        <5>1. IndicesSound
          BY <1>1, Zenon
        <5> QED  BY <4>1, <5>1, IndexFacts, Zenon
      <4> QED  BY <2>1, <2>2, <4>2
    <3>2. d \in arming.want
      BY <2>2, <3>1, Zenon DEF UnderWay
    <3> QED  BY <1>1, <2>2, <3>1, <3>2 DEF Armed
  <2> QED  BY <1>2, <2>2, <2>4, <2>5, Zenon
<1>7. ASSUME ArmRefused PROVE Goal
  <2>1. PICK i \in live : i = arming.id
    BY <1>7, Zenon DEF ArmRefused, TableInv, ArmingSound
  <2>2. Unlink(i)
    BY <1>7, <2>1, Zenon DEF ArmRefused
  <2>3. slot'[fd][d] = slot[fd][d] /\ slot[fd][d] # i /\ (d \in interest[fd] => d \in interest'[fd])
    BY <1>1, <2>2, UnlinkArms
  <2> QED  BY <1>2, <2>1, <2>3, Zenon
<1>8. ASSUME Idles \/ Sleeping \/ \E g \in Fds : Reopen(g) PROVE Goal
  <2>1. arming' = arming /\ interest' = interest /\ slot' = slot
    BY <1>8, Zenon DEF Idles, Sleeping, AddTimer, Reopen
  <2> QED  BY <1>3, <2>1, Zenon
<1>9. ASSUME NEW g \in Fds, NEW isClose \in BOOLEAN, Detach(g, isClose) PROVE Goal
  <2>1. /\ arming' = arming /\ interest' = Disarmed(interest, g)
        /\ slot' = [slot EXCEPT ![g] = [c \in Dirs |-> NoOp]]
    BY <1>9, Zenon DEF Detach, FailWaiters
  <2>2. g # fd /\ slot'[fd][d] = slot[fd][d]
    BY <1>1, <2>1 DEF SlotType
  <2>3. interest'[fd] = interest[fd]
    BY <1>1, <2>1, <2>2 DEF Disarmed
  <2> QED  BY <1>3, <2>1, <2>2, <2>3, Zenon
<1>10. CASE Collecting
  <2>1. PICK report \in Reports : \E failed \in SUBSET MayFail(report) : \E last \in Dirs :
          Collect(report, failed, last)
    BY <1>10, Zenon DEF Collecting
  <2>2. PICK failed, last : Collect(report, failed, last)
    BY <2>1, Zenon
  <2>3. /\ arming' = arming /\ interest' = Fired(interest, report, failed)
        /\ slot'[fd][d] = IF d \in Taken(report, failed, fd) THEN NoOp ELSE slot[fd][d]
    BY <2>2, Zenon DEF Collect
  <2>4. d \notin Taken(report, failed, fd) /\ slot'[fd][d] = slot[fd][d]
    BY <2>3, Zenon
  <2>5. d \notin report[fd]
    BY <2>4, Zenon DEF Taken
  <2>6. d \in interest[fd] => d \in interest'[fd]
    BY <2>3, <2>5 DEF Fired
  <2> QED  BY <1>3, <2>3, <2>4, <2>6, Zenon
<1>11. CASE Delivering
  <2>1. Top \in FrameType /\ stack # <<>>
    BY <1>1, <1>11, StackFacts, Zenon DEF TypeOK, Delivering
  <2>2. ASSUME NEW r \in Top.rearm, RearmAccepted(r) PROVE Goal
    <3>1. arming' = arming /\ slot' = slot /\ interest' = Armed(interest, r.fd, r.want)
      BY <2>2, Zenon DEF RearmAccepted
    <3>2. d \in interest[fd] => d \in interest'[fd]
      BY <1>1, <3>1 DEF Armed
    <3> QED  BY <1>3, <3>1, <3>2, Zenon
  <2>3. ASSUME NEW r \in Top.rearm, RearmRefused(r) PROVE Goal
    <3>1. arming' = arming /\ interest' = interest /\ slot' = [slot EXCEPT ![r.fd] = [c \in Dirs |-> NoOp]]
      BY <2>3, Zenon DEF RearmRefused, FailWaiters
    <3>2. slot'[fd][d] = slot[fd][d]
      BY <1>1, <3>1 DEF SlotType
    <3> QED  BY <1>3, <3>1, <3>2, Zenon
  <2>4. ASSUME NEW e \in Top.todo, Finalize(e) PROVE Goal
    <3>1. arming' = arming
      BY <2>4, Zenon DEF Finalize
    <3>2. slot'[fd][d] = slot[fd][d] /\ (d \in interest[fd] => d \in interest'[fd])
      <4>1. CASE e.id \in live
        <5>1. PICK i \in live : i = e.id /\ Unlink(i)
          BY <2>4, <4>1, Zenon DEF Finalize
        <5> QED  BY <1>1, <5>1, UnlinkArms
      <4>2. CASE e.id \notin live
        BY <2>4, <4>2, Zenon DEF Finalize
      <4> QED  BY <4>1, <4>2
    <3> QED  BY <1>3, <3>1, <3>2, Zenon
  <2>5. CASE Return
    <3>1. /\ arming' = arming /\ slot' = slot
          /\ interest' = interest \/ (Top.fd # NoFd /\ interest' = [interest EXCEPT ![Top.fd] = {}])
      BY <2>5, Zenon DEF Return
    <3>2. CASE Top.fd # NoFd
      <4>1. Len(stack) \in 1 .. Len(stack) /\ Top = stack[Len(stack)]
        <5>1. stack \in Seq(FrameType)
          BY <1>1, Zenon DEF TypeOK
        <5>2. Len(stack) \in Nat \ {0}
          BY <2>1, <5>1, StackFacts, Zenon
        <5> QED  BY <5>2 DEF Top
      <4>2. sock[Top.fd] = "closing"
        BY <3>2, <4>1, Zenon DEF ClosesSound
      <4>3. sock[fd] = "open"
        BY <3>1, Zenon DEF ClosesSound
      <4>4. fd # Top.fd
        BY <4>2, <4>3
      <4>5. interest'[fd] = interest[fd]
        BY <1>1, <3>1, <4>4
      <4> QED  BY <1>3, <3>1, <4>5, Zenon
    <3>3. CASE Top.fd = NoFd
      BY <1>3, <3>1, <3>3, Zenon
    <3> QED  BY <3>2, <3>3
  <2> QED  BY <1>11, <2>2, <2>3, <2>4, <2>5, Zenon DEF Delivering
<1> QED
  BY <1>5, <1>6, <1>7, <1>8, <1>9, <1>10, <1>11, StepCases, Zenon DEF Submission, Arming, Closing

-----------------------------------------------------------------------------
(* The theorems.                                                           *)

WaitInv ==
  /\ TableInv /\ CausesKnown /\ Unanswered
  /\ ClosesSound /\ TokensSound /\ StraysSound
  /\ EntriesSound /\ ClaimsSound /\ TimersKept /\ SleepVerdict
  /\ UnderWay /\ (Backend = "kqueue" => FiltersSound)

\* A new loop has no delivery, no wait and no verdict.
LEMMA WaitInit == Init => WaitInv
<1> SUFFICES ASSUME Init PROVE WaitInv
  OBVIOUS
<1>1. TableInv /\ CausesKnown /\ Unanswered
  BY TypeInit, IndicesInit, ForgottenInit, CausesInit, Zenon DEF TableInv
<1>2. /\ stack = <<>> /\ live = {} /\ strayed = {}
      /\ \A fd \in Fds, d \in Dirs : slot[fd][d] = NoOp
      /\ arming = NotArming
      /\ \A i \in Ids : answer[i] = "none"
  BY Zenon DEF Init
<1>3. \A k \in 1 .. Len(stack) : FALSE
  BY <1>2
<1>4. ClosesSound /\ TokensSound /\ StraysSound
  BY <1>2, <1>3, Zenon DEF ClosesSound, TokensSound, StraysSound
<1>5. EntriesSound /\ ClaimsSound /\ TimersKept
  BY <1>2, <1>3, Zenon DEF EntriesSound, ClaimsSound, TimersKept
<1>6. SleepVerdict
  BY <1>2 DEF SleepVerdict
<1>7. UnderWay /\ FiltersSound
  BY <1>2, Zenon DEF UnderWay, FiltersSound
<1> QED  BY <1>1, <1>4, <1>5, <1>6, <1>7, Zenon DEF WaitInv

\* Every step keeps all of it.
LEMMA WaitStep == WaitInv /\ [Next]_vars => WaitInv'
<1> SUFFICES ASSUME WaitInv, [Next]_vars PROVE WaitInv'
  BY Zenon
<1>1. TableInv /\ CausesKnown /\ Unanswered /\ TypeOK /\ ControlSound /\ ArmingSound
  BY Zenon DEF WaitInv, TableInv
<1>2. TableInv' /\ TypeOK'
  BY <1>1, TypeStep, ArmingStep, IndicesStep, ForgottenStep, Zenon DEF TableInv
<1>3. CausesKnown' /\ Unanswered'
  BY <1>1, <1>2, CausesStep, UnansweredStep, Zenon
<1>4. ClosesSound' /\ TokensSound' /\ StraysSound'
  BY <1>1, <1>2, ClosesStep, TokensStep, StraysStep, Zenon DEF WaitInv
<1>5. EntriesSound' /\ ClaimsSound' /\ TimersKept'
  BY <1>1, <1>2, EntriesStep, ClaimsStep, TimersKeptStep, Zenon DEF WaitInv
<1>6. SleepVerdict'
  BY <1>1, <1>2, VerdictStep, Zenon DEF WaitInv
<1>7. UnderWay' /\ (Backend = "kqueue" => FiltersSound')
  BY <1>1, <1>2, UnderWayStep, FiltersStep, Zenon DEF WaitInv
<1> QED  BY <1>2, <1>3, <1>4, <1>5, <1>6, <1>7, Zenon DEF WaitInv

\* So it holds in every state of the loop.
LEMMA WaitInvariant == Spec => []WaitInv
  BY WaitInit, WaitStep, PTL DEF Spec

\* A datagram receive or send never touches a descriptor number that was closed
\* or reused under it, for any nesting of closes and deliveries.
THEOREM DatagramsStayHome == Spec => []DatagramsNeverStray
<1>1. WaitInv => DatagramsNeverStray
  BY Zenon DEF WaitInv, StraysSound, DatagramsNeverStray
<1> QED  BY <1>1, WaitInvariant, PTL

\* A sleep succeeds exactly when its wake-up is not later than its deadline,
\* however late the loop looks and whatever runs in between.
THEOREM SleepsJudged == Spec => []SleepVerdict
<1>1. WaitInv => SleepVerdict
  BY Zenon DEF WaitInv
<1> QED  BY <1>1, WaitInvariant, PTL

\* An operation that a batch has completed is answered by its completion, not by
\* a close, an expiry or a cancellation that is handed out before.
THEOREM CompletionsWin == Spec => CompletionWins
<1>1. WaitInv /\ [Next]_vars => [ClaimHeld]_vars
  BY ClaimsHold, Zenon DEF WaitInv
<1>2. Spec => [][ClaimHeld]_vars
  BY <1>1, WaitInvariant, PTL DEF Spec
<1> QED  BY <1>2, Zenon DEF CompletionWins, ClaimHeld

\* Under kqueue nobody waits with nothing armed, however batches, refusals, closes and the
\* submissions of resumed coroutines nest: event_loop.hpp leaves them all to the loop's thread.
\* (Under epoll a re-arm can overtake a submission: the run posix_rearm.)
THEOREM KqueueStrandsNobody ==
  ASSUME Backend = "kqueue"
  PROVE  Spec => []NoneStranded
<1>1. WaitInv => NoneStranded
  <2> SUFFICES ASSUME WaitInv, NEW fd \in Fds, NEW d \in Dirs, slot[fd][d] # NoOp, d \notin interest[fd]
               PROVE  arming # NotArming /\ op[arming.id].fd = fd /\ d \in arming.want
    BY Zenon DEF NoneStranded
  <2>1. arming.id = slot[fd][d]
    BY Zenon DEF WaitInv, FiltersSound, Filtered
  <2>2. arming # NotArming
    BY <2>1 DEF NotArming
  <2>3. op[arming.id].fd = fd /\ op[arming.id].dir = d
    <3>1. IndicesSound
      BY Zenon DEF WaitInv, TableInv
    <3>2. op[slot[fd][d]].fd = fd /\ op[slot[fd][d]].dir = d
      BY <3>1, IndexFacts, Zenon
    <3> QED  BY <2>1, <3>2, Zenon
  <2>4. d \in arming.want
    BY <2>2, <2>3, Zenon DEF WaitInv, UnderWay
  <2> QED  BY <2>2, <2>3, <2>4, Zenon
<1> QED  BY <1>1, WaitInvariant, PTL
=============================================================================
