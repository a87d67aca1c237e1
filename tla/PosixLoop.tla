------------------------------ MODULE PosixLoop ------------------------------
(***************************************************************************)
(* The readiness backend of EventLoop (event_loop_posix.cpp) over kqueue   *)
(* or epoll: the operation table with its three indices (descriptor slots, *)
(* timer queue, datagram tokens), the kernel's one-shot interest, the      *)
(* batches run_once delivers, and the coroutines those deliveries resume.  *)
(*                                                                         *)
(* Control on the loop thread is a stack of deliveries in progress: a      *)
(* batch, a shutdown, or a close that fails its waiters, each resuming     *)
(* coroutines that may submit, cancel, post or close in their turn.        *)
(* Other threads post work and request stops at any moment and do nothing  *)
(* else: event_loop.hpp leaves every other call to the loop's thread.  The *)
(* wake-up pipe is the subject of WakeProtocol: here poll may return       *)
(* whenever it likes, and must only when it was given a timeout.           *)
(***************************************************************************)
EXTENDS Naturals, Sequences

CONSTANTS
  Fds,             \* descriptor numbers
  NoFd,            \* "no descriptor"
  Backend,         \* "epoll" or "kqueue": what arm and a fired one-shot do
  WaitRequests,    \* the readiness waits a program may start
  SleepRequests,   \* the sleeps it may start
  MaxOps,          \* bound on operation ids handed out
  MaxTime,         \* bound on the clock
  MaxPosted,       \* bound on the posted-work queue
  MaxReopens,      \* bound on how often a descriptor number is reused
  MaxArmFailures   \* bound on refusals by the kernel to register interest

Ids   == 1 .. MaxOps
NoOp  == 0                    \* kNoOperation
Never == MaxTime + 1          \* "no deadline": beyond the modelled clock
Times == 0 .. Never
Dirs  == {"read", "write"}

Waits  == [kind : {"readiness"}, fd : Fds, dir : Dirs, datagram : BOOLEAN,
           stoppable : BOOLEAN, wake : {Never}, deadline : Times]
Sleeps == [kind : {"timer"}, fd : {NoFd}, dir : {"read"}, datagram : {FALSE},
           stoppable : BOOLEAN, wake : Times \ {Never}, deadline : Times]

ASSUME BoundsAssumption ==
  /\ MaxOps \in Nat /\ MaxTime \in Nat /\ MaxPosted \in Nat
  /\ MaxReopens \in Nat /\ MaxArmFailures \in Nat
ASSUME BackendAssumption == Backend \in {"epoll", "kqueue"}
ASSUME NamesAssumption == NoFd \notin Fds
ASSUME RequestsAssumption == WaitRequests \subseteq Waits /\ SleepRequests \subseteq Sleeps

VARIABLES
  nextId,     \* next_id_: the last id handed out
  op,         \* [Ids -> request]: the Operation records, kept after they resolve
  inc,        \* [Ids -> Nat]: the incarnation of fd the caller held at submission
  live,       \* ids in operations_
  armed,      \* ids whose Operation.armed is set
  slot,       \* [Fds -> [Dirs -> id]]: fd_waiters_
  timers,     \* timers_: [at, id, cut], ordered by (at, id, cut)
  token,      \* [Fds -> [Dirs -> id]]: datagrams_, the receive or send holding each direction
  revoked,    \* ids whose datagram token detach set to true
  cancels,    \* pending_cancels_
  posted,     \* posted_: the number of queued callables
  closing,    \* shutting_down_
  now,        \* steady_clock
  interest,   \* [Fds -> SUBSET Dirs]: what the kernel will report, once
  sock,       \* [Fds -> {"open", "closing", "closed"}]: the socket owning each number
  reopens,    \* [Fds -> Nat]: the incarnation of each descriptor number
  stack,      \* deliveries in progress on the loop thread, innermost last
  pc,         \* loop thread: "user" code runs, run_once is in a "poll" that has a timeout
              \* or "wait"s in one that has none, or it "deliver"s
  arming,     \* [id, want]: the submission between its record and its arm(), if any
  failures,   \* arm() calls the kernel has refused
  answer,     \* [Ids -> answer]: the result slot finalize writes
  asked,      \* ids something asked to cancel: a stop token, a close, shutdown
  strayed     \* ids whose retry after a wake-up hit a descriptor that is not theirs

table   == <<nextId, op, inc, live, armed, slot, timers>>
queues  == <<cancels, posted>>
kernel  == <<interest, sock, reopens, failures>>
tokens  == <<token, revoked>>
control == <<stack, pc, arming>>
results == <<answer, asked, strayed>>
vars == <<nextId, op, inc, live, armed, slot, timers, token, revoked, cancels, posted,
          closing, now, interest, sock, reopens, stack, pc, arming, failures,
          answer, asked, strayed>>

-----------------------------------------------------------------------------
(* Entries of a delivery, in the order run_once builds `resolved`.         *)

Completion == 0
Expiry     == 1
Cancelled  == 2

Entry(i, rank, at, cut, out) ==
  [id |-> i, rank |-> rank, at |-> at, cut |-> cut, out |-> out]

\* Slip: wake-ups partitioned to the front, ahead of deadlines that came due first.
KeyBefore_WakesFirst(s, t) ==
  \/ s.cut < t.cut
  \/ s.cut = t.cut /\ s.at < t.at
  \/ s.cut = t.cut /\ s.at = t.at /\ s.id < t.id

\* The (deadline, serial) order of TimerQueue: serials grow with ids, and a
\* sleep's wake-up is registered before its deadline (cut = 1).
KeyBefore(s, t) ==
  \/ s.at < t.at
  \/ s.at = t.at /\ s.id < t.id
  \/ s.at = t.at /\ s.id = t.id /\ s.cut < t.cut

\* Slip: what cuts an operation short is handed out before what completed it.
DeliveredBefore_CutsFirst(e, f) ==
  \/ e.rank > f.rank
  \/ e.rank = Expiry /\ f.rank = Expiry /\ KeyBefore(e, f)

\* Completions come before expired timers, and those before cancellations.
DeliveredBefore(e, f) ==
  \/ e.rank < f.rank
  \/ e.rank = Expiry /\ f.rank = Expiry /\ KeyBefore(e, f)

\* The timers add_waiter and add_timer register for an operation.
TimersOf(i, r) ==
  {t \in {[at |-> r.wake, id |-> i, cut |-> 0], [at |-> r.deadline, id |-> i, cut |-> 1]} :
     t.at # Never}

\* A delivery in progress: results still to hand out, descriptors still to
\* re-arm, posted work still to run, the descriptor to close at the end (or
\* NoFd), and where control returns.
Frame(todo, rearm, work, fd, back) ==
  [todo |-> todo, rearm |-> rearm, work |-> work, fd |-> fd, back |-> back]

Top == stack[Len(stack)]
SetTop(f) == [stack EXCEPT ![Len(stack)] = f]
Pop == SubSeq(stack, 1, Len(stack) - 1)

NotArming == [id |-> NoOp, want |-> {}]

-----------------------------------------------------------------------------
(* The kernel's side of Poller::arm and Poller::disarm.                    *)

\* epoll's MOD replaces a descriptor's interest; kqueue's EV_ADD adds a filter.
Armed(k, fd, want) ==
  [k EXCEPT ![fd] = IF Backend = "epoll" THEN want ELSE @ \cup want]

\* epoll drops the descriptor.  kevent applies [delete read, delete write] in
\* order and stops at the first failure: with no read filter the write filter stays.
Disarmed(k, fd) ==
  [k EXCEPT ![fd] = IF Backend = "kqueue" /\ "read" \notin @ THEN @ ELSE {}]

\* FdWaiters::interest()
Wanted(sl, fd) == {d \in Dirs : sl[fd][d] # NoOp}

\* A one-shot that fired: epoll disables the whole descriptor, kqueue the
\* filters that fired.
Fired(k, report, failed) ==
  [fd \in Fds |-> IF Backend = "epoll"
                  THEN IF report[fd] # {} \/ fd \in failed THEN {} ELSE k[fd]
                  ELSE k[fd] \ report[fd]]

-----------------------------------------------------------------------------
(* unlink and release_registration, the two halves of discard and finalize. *)

\* Slip: the slot is cleared without looking whom it names by now.
SlotsWithout_Unchecked(i) ==
  IF op[i].kind = "readiness" THEN [slot EXCEPT ![op[i].fd][op[i].dir] = NoOp] ELSE slot

SlotsWithout(i) ==
  IF op[i].kind = "readiness" /\ slot[op[i].fd][op[i].dir] = i
  THEN [slot EXCEPT ![op[i].fd][op[i].dir] = NoOp]
  ELSE slot

\* Slip: the whole descriptor is disarmed though its other direction still waits.
InterestWithout_DisarmAll(i) ==
  IF op[i].kind = "readiness" /\ i \in armed /\ ~closing
  THEN Disarmed(interest, op[i].fd) ELSE interest

InterestWithout(i) ==
  LET fd == op[i].fd
      remaining == Wanted(SlotsWithout(i), fd)
      registered == op[i].kind = "readiness" /\ i \in armed /\ Wanted(slot, fd) # {}
  IN  IF ~registered \/ closing THEN interest
      ELSE IF remaining = {} THEN Disarmed(interest, fd) ELSE Armed(interest, fd, remaining)

\* Slip: a resolved operation stays in the table.
Unlink_KeepsRecord(i) ==
  /\ live' = live
  /\ armed' = armed \ {i}
  /\ slot' = SlotsWithout(i)
  /\ timers' = {t \in timers : t.id # i}
  /\ interest' = InterestWithout(i)

Unlink(i) ==
  /\ live' = live \ {i}
  /\ armed' = armed \ {i}
  /\ slot' = SlotsWithout(i)
  /\ timers' = {t \in timers : t.id # i}
  /\ interest' = InterestWithout(i)

\* The coroutine leaves its retry loop, or parks again under a new id.
ReleaseToken(i) ==
  token' = IF op[i].kind = "readiness" /\ token[op[i].fd][op[i].dir] = i
           THEN [token EXCEPT ![op[i].fd][op[i].dir] = NoOp]
           ELSE token

\* The retry loops of read, write, writev and accept: woken successfully, they call the
\* descriptor number again, whatever it names by now.
StreamRetries(i) == ~op[i].datagram

\* Slip: a datagram retry that does not look at its token.
DatagramRetries_NoToken(i) == op[i].datagram

\* Those of receive_from and send_to look at their token before each call.
DatagramRetries(i) == op[i].datagram /\ i \notin revoked

\* The retry that a successful wake-up enables strays when the number is closed or names
\* another socket by now.
RetryStrays(i, out) ==
  /\ out = "ok" /\ op[i].kind = "readiness"
  /\ StreamRetries(i) \/ DatagramRetries(i)
  /\ sock[op[i].fd] = "closed" \/ reopens[op[i].fd] # inc[i]

-----------------------------------------------------------------------------
Init ==
  /\ nextId = NoOp
  /\ op = [i \in Ids |-> [kind |-> "timer", fd |-> NoFd, dir |-> "read", datagram |-> FALSE,
                          stoppable |-> FALSE, wake |-> Never, deadline |-> Never]]
  /\ inc = [i \in Ids |-> 0]
  /\ live = {} /\ armed = {} /\ timers = {}
  /\ slot = [fd \in Fds |-> [d \in Dirs |-> NoOp]]
  /\ token = [fd \in Fds |-> [d \in Dirs |-> NoOp]]
  /\ revoked = {}
  /\ cancels = {} /\ posted = 0
  /\ closing = FALSE /\ now = 0
  /\ interest = [fd \in Fds |-> {}]
  /\ sock = [fd \in Fds |-> "open"]
  /\ reopens = [fd \in Fds |-> 0]
  /\ stack = <<>> /\ pc = "user"
  /\ arming = NotArming
  /\ failures = 0
  /\ answer = [i \in Ids |-> "none"]
  /\ asked = {} /\ strayed = {}
-----------------------------------------------------------------------------
(* Submission: add_waiter in two steps, its locked record and its arm().   *)

UserRuns == pc = "user" /\ arming = NotArming     \* and the loop thread is not inside add_waiter

\* The conditions under which a submission goes through; otherwise the caller
\* has its error at once and the loop's state is untouched.
Admitted(r) == ~closing /\ nextId < MaxOps /\ now < r.deadline

Record(r) ==
  LET i == nextId + 1
  IN  /\ nextId' = i
      /\ op' = [op EXCEPT ![i] = r]
      /\ live' = live \cup {i}
      /\ timers' = timers \cup TimersOf(i, r)

AddWaiter(r) ==
  LET i == nextId + 1
  IN  /\ UserRuns /\ Admitted(r)
      /\ sock[r.fd] = "open"
      /\ slot[r.fd][r.dir] = NoOp
      /\ r.datagram => token[r.fd][r.dir] = NoOp
      /\ Record(r)
      /\ inc' = [inc EXCEPT ![i] = reopens[r.fd]]
      /\ armed' = armed \cup {i}
      /\ slot' = [slot EXCEPT ![r.fd][r.dir] = i]
      /\ token' = IF r.datagram THEN [token EXCEPT ![r.fd][r.dir] = i] ELSE token
      /\ arming' = [id |-> i, want |-> Wanted(slot, r.fd) \cup {r.dir}]
      /\ UNCHANGED <<revoked, queues, closing, now, kernel, stack, pc, results>>

ArmAccepted ==
  /\ arming # NotArming
  /\ interest' = Armed(interest, op[arming.id].fd, arming.want)
  /\ arming' = NotArming
  /\ UNCHANGED <<table, tokens, queues, closing, now, sock, reopens, failures, stack, pc, results>>

\* arm() fails: discard undoes the record and the caller sees the error.
ArmRefused ==
  /\ arming # NotArming
  /\ failures < MaxArmFailures /\ failures' = failures + 1
  /\ arming' = NotArming
  /\ Unlink(arming.id) /\ ReleaseToken(arming.id)
  /\ answer' = [answer EXCEPT ![arming.id] = "error"]
  /\ UNCHANGED <<nextId, op, inc, revoked, queues, closing, now, sock, reopens, stack, pc,
                 asked, strayed>>

AddTimer(r) ==
  /\ UserRuns /\ Admitted(r)
  /\ Record(r)
  /\ UNCHANGED <<inc, armed, slot, tokens, queues, closing, now, kernel, control, results>>

-----------------------------------------------------------------------------
(* Requests from any thread.                                               *)

\* A stop callback, registered while its operation is suspended.
RequestCancel(i) ==
  /\ i \in live /\ op[i].stoppable /\ i \notin cancels
  /\ arming.id # i
  /\ cancels' = cancels \cup {i}
  /\ asked' = asked \cup {i}
  /\ UNCHANGED <<table, tokens, posted, closing, now, kernel, control, answer, strayed>>

Post ==
  /\ ~closing /\ posted < MaxPosted
  /\ posted' = posted + 1
  /\ UNCHANGED <<table, tokens, cancels, closing, now, kernel, control, results>>

Tick ==
  /\ now < MaxTime
  /\ now' = now + 1
  /\ UNCHANGED <<table, tokens, queues, closing, kernel, control, results>>

-----------------------------------------------------------------------------
(* Closing a socket: its handle is given up, detach fails the waiters, and *)
(* the descriptor is closed once the coroutines they resume have returned. *)

\* fail_waiters: the slots are emptied before anyone is resumed.
FailWaiters(fd, out) ==
  LET broken == {slot[fd][d] : d \in Dirs} \ {NoOp}
  IN  /\ slot' = [slot EXCEPT ![fd] = [d \in Dirs |-> NoOp]]
      /\ armed' = armed \ broken
      /\ asked' = IF out = "cancelled" THEN asked \cup broken ELSE asked

Broken(fd, out) ==
  {Entry(i, Cancelled, 0, 0, out) : i \in {slot[fd][d] : d \in Dirs} \ {NoOp}}

\* detach, called by a socket's close (which gives up the handle first and
\* closes the descriptor after) or by itself.
Detach(fd, isClose) ==
  /\ UserRuns /\ sock[fd] = "open"
  /\ sock' = IF isClose THEN [sock EXCEPT ![fd] = "closing"] ELSE sock
  /\ revoked' = revoked \cup ({token[fd][d] : d \in Dirs} \ {NoOp})
  /\ token' = [token EXCEPT ![fd] = [d \in Dirs |-> NoOp]]
  /\ interest' = Disarmed(interest, fd)
  /\ FailWaiters(fd, "cancelled")
  /\ stack' = Append(stack, Frame(Broken(fd, "cancelled"), {}, 0, IF isClose THEN fd ELSE NoFd, "user"))
  /\ pc' = "deliver"
  /\ UNCHANGED <<nextId, op, inc, live, timers, queues, closing, now, reopens, failures,
                 arming, answer, strayed>>

\* The operating system hands the number out again.
Reopen(fd) ==
  /\ UserRuns /\ ~closing
  /\ sock[fd] = "closed" /\ reopens[fd] < MaxReopens
  /\ sock' = [sock EXCEPT ![fd] = "open"]
  /\ reopens' = [reopens EXCEPT ![fd] = @ + 1]
  /\ UNCHANGED <<table, tokens, queues, closing, now, interest, failures, control, results>>
-----------------------------------------------------------------------------
(* run_once.                                                               *)

\* Slip: the timeout is worked out from the timers and the posted work alone.
RunOnce_NoCancels ==
  /\ UserRuns /\ stack = <<>> /\ ~closing
  /\ pc' = IF posted > 0 \/ timers # {} THEN "poll" ELSE "wait"
  /\ UNCHANGED <<table, tokens, queues, closing, now, kernel, stack, arming, results>>

\* The timeout is none only when nothing is queued and no timer is set.
RunOnce ==
  /\ UserRuns /\ stack = <<>> /\ ~closing
  /\ pc' = IF posted > 0 \/ cancels # {} \/ timers # {} THEN "poll" ELSE "wait"
  /\ UNCHANGED <<table, tokens, queues, closing, now, kernel, stack, arming, results>>

Polling == pc \in {"poll", "wait"}

\* What the kernel may report: directions it holds interest in, and failed
\* descriptors.  epoll reports a failure on any registered descriptor, kqueue
\* only along with a filter that fires.
Reports ==
  {rep \in [Fds -> SUBSET Dirs] : \A fd \in Fds : rep[fd] \subseteq interest[fd]}
MayFail(report) ==
  {fd \in Fds : IF Backend = "epoll" THEN interest[fd] # {} ELSE report[fd] # {}}

\* A failed descriptor wakes both directions.
Taken(report, failed, fd) == IF fd \in failed THEN Dirs ELSE report[fd]

Claimed(report, failed) ==
  {i \in Ids : \E fd \in Fds : \E d \in Taken(report, failed, fd) : slot[fd][d] = i}

\* to_rearm.  kqueue delivers the two filters of one descriptor as two events:
\* the waiter of the later one is noted for re-arming before it is claimed.
ToRearm(report, failed, last) ==
  LET want(fd) ==
        IF Backend = "kqueue" /\ report[fd] = Dirs
        THEN IF fd \in failed THEN {} ELSE {last} \cap Wanted(slot, fd)
        ELSE Wanted(slot, fd) \ Taken(report, failed, fd)
  IN  {[fd |-> fd, want |-> want(fd)] :
         fd \in {g \in Fds : (report[g] # {} \/ g \in failed) /\ want(g) # {}}}

Expired == {t \in timers : t.at <= now}

Batch(claimed) ==
  {Entry(i, Completion, 0, 0, "ok") : i \in claimed}
    \cup {Entry(t.id, Expiry, t.at, t.cut, IF t.cut = 1 THEN "timed_out" ELSE "ok") : t \in Expired}
    \cup {Entry(i, Cancelled, 0, 0, "cancelled") : i \in cancels}

\* poll() returns and the locked block collects the batch.
Collect(report, failed, last) ==
  LET claimed == Claimed(report, failed)
  IN  /\ Polling
      /\ interest' = Fired(interest, report, failed)
      /\ slot' = [fd \in Fds |-> [d \in Dirs |->
                    IF d \in Taken(report, failed, fd) THEN NoOp ELSE slot[fd][d]]]
      /\ armed' = armed \ claimed
      /\ timers' = timers \ Expired
      /\ cancels' = {} /\ posted' = 0
      /\ stack' = <<Frame(Batch(claimed), ToRearm(report, failed, last), posted, NoFd, "user")>>
      /\ pc' = "deliver"
      /\ UNCHANGED <<nextId, op, inc, live, tokens, closing, now, sock, reopens, failures,
                     arming, results>>

Poll ==
  \E report \in Reports : \E failed \in SUBSET MayFail(report) : \E last \in Dirs :
    Collect(report, failed, last)

\* poll() reports an error: run_once hands it to its caller, nothing collected.
PollFails ==
  /\ Polling
  /\ pc' = "user"
  /\ UNCHANGED <<table, tokens, queues, closing, now, kernel, stack, arming, results>>

-----------------------------------------------------------------------------
(* Delivering: re-arm, then results, then posted work.                     *)

RearmAccepted(r) ==
  /\ pc = "deliver" /\ r \in Top.rearm
  /\ interest' = Armed(interest, r.fd, r.want)
  /\ stack' = SetTop([Top EXCEPT !.rearm = @ \ {r}])
  /\ UNCHANGED <<table, tokens, queues, closing, now, sock, reopens, failures, pc, arming, results>>

\* arm() fails: the waiters of that descriptor are failed then and there.
RearmRefused(r) ==
  /\ pc = "deliver" /\ r \in Top.rearm
  /\ failures < MaxArmFailures /\ failures' = failures + 1
  /\ FailWaiters(r.fd, "error")
  /\ stack' = Append(SetTop([Top EXCEPT !.rearm = @ \ {r}]),
                     Frame(Broken(r.fd, "error"), {}, 0, NoFd, "deliver"))
  /\ UNCHANGED <<nextId, op, inc, live, timers, tokens, queues, closing, now, interest, sock,
                 reopens, pc, arming, answer, strayed>>

\* finalize: the first to name a live operation resolves it and resumes its
\* coroutine; a later mention finds nothing.
Finalize(e) ==
  /\ pc = "deliver" /\ Top.rearm = {} /\ e \in Top.todo
  /\ \A f \in Top.todo : ~DeliveredBefore(f, e)
  /\ stack' = SetTop([Top EXCEPT !.todo = @ \ {e}])
  /\ IF e.id \in live
     THEN /\ Unlink(e.id) /\ ReleaseToken(e.id)
          /\ answer' = [answer EXCEPT ![e.id] = e.out]
          /\ strayed' = IF RetryStrays(e.id, e.out) THEN strayed \cup {e.id} ELSE strayed
          /\ pc' = "user"
     ELSE UNCHANGED <<live, armed, slot, timers, interest, token, answer, strayed, pc>>
  /\ UNCHANGED <<nextId, op, inc, revoked, queues, closing, now, sock, reopens, failures,
                 arming, asked>>

RunPosted ==
  /\ pc = "deliver" /\ Top.rearm = {} /\ Top.todo = {} /\ Top.work > 0
  /\ stack' = SetTop([Top EXCEPT !.work = @ - 1])
  /\ pc' = "user"
  /\ UNCHANGED <<table, tokens, queues, closing, now, kernel, arming, results>>

\* The resumed coroutine suspends again or ends: control is back in the loop.
Suspend ==
  /\ UserRuns /\ stack # <<>>
  /\ pc' = "deliver"
  /\ UNCHANGED <<table, tokens, queues, closing, now, kernel, stack, arming, results>>

\* A delivery is over; a close now closes its descriptor, which also takes it
\* out of the kernel's interest.
Return ==
  /\ pc = "deliver" /\ Top.rearm = {} /\ Top.todo = {} /\ Top.work = 0
  /\ pc' = Top.back
  /\ stack' = Pop
  /\ IF Top.fd = NoFd
     THEN UNCHANGED <<sock, interest>>
     ELSE /\ sock' = [sock EXCEPT ![Top.fd] = "closed"]
          /\ interest' = [interest EXCEPT ![Top.fd] = {}]
  /\ UNCHANGED <<table, tokens, queues, closing, now, reopens, failures, arming, results>>

\* shutdown, from the destructor or move assignment.
Shutdown ==
  /\ UserRuns /\ stack = <<>> /\ ~closing
  /\ closing' = TRUE
  /\ posted' = 0
  /\ asked' = asked \cup live
  /\ stack' = <<Frame({Entry(i, Cancelled, 0, 0, "cancelled") : i \in live}, {}, 0, NoFd, "user")>>
  /\ pc' = "deliver"
  /\ UNCHANGED <<table, tokens, cancels, now, kernel, arming, answer, strayed>>

-----------------------------------------------------------------------------
Deliver ==
  \/ \E r \in Top.rearm : RearmAccepted(r) \/ RearmRefused(r)
  \/ \E e \in Top.todo : Finalize(e)
  \/ RunPosted
  \/ Return

Next ==
  \/ \E r \in WaitRequests : AddWaiter(r)
  \/ ArmAccepted \/ ArmRefused
  \/ \E r \in SleepRequests : AddTimer(r)
  \/ \E i \in Ids : RequestCancel(i)
  \/ Post
  \/ Tick
  \/ \E fd \in Fds : (\E isClose \in BOOLEAN : Detach(fd, isClose)) \/ Reopen(fd)
  \/ RunOnce
  \/ Poll \/ PollFails
  \/ stack # <<>> /\ Deliver
  \/ Suspend
  \/ Shutdown

Spec == Init /\ [][Next]_vars

\* run_once is called again as long as it returns, a poll that has a timeout returns and does
\* not fail for ever, a delivery goes on, a submission finishes, and a resumed coroutine gives
\* control back after finitely many calls.  Time passes.  Nothing is assumed of a poll that
\* has no timeout: it may block for good.
Fairness ==
  /\ SF_vars(RunOnce) /\ SF_vars(Suspend)
  /\ SF_vars(pc = "poll" /\ Poll) /\ WF_vars(stack # <<>> /\ Deliver)
  /\ WF_vars(ArmAccepted) /\ WF_vars(Tick)

FairSpec == Spec /\ Fairness
-----------------------------------------------------------------------------
(* Properties.                                                             *)

AnswerType == {"none", "ok", "timed_out", "cancelled", "error"}
SlotType == [Fds -> [Dirs -> Ids \cup {NoOp}]]
TimerType == [at : Times, id : Ids, cut : {0, 1}]
EntryType == [id : Ids, rank : {Completion, Expiry, Cancelled}, at : Times, cut : {0, 1},
              out : {"ok", "timed_out", "cancelled", "error"}]
FrameType == [todo : SUBSET EntryType, rearm : SUBSET [fd : Fds, want : SUBSET Dirs],
              work : 0 .. MaxPosted, fd : Fds \cup {NoFd}, back : {"user", "deliver"}]

\* Every field of Impl holds a value of its type; the queue and the clock
\* stay within the bounds of the model.
TypeOK ==
  /\ nextId \in 0 .. MaxOps
  /\ op \in [Ids -> [kind : {"readiness", "timer"}, fd : Fds \cup {NoFd}, dir : Dirs,
                      datagram : BOOLEAN, stoppable : BOOLEAN, wake : Times, deadline : Times]]
  /\ inc \in [Ids -> 0 .. MaxReopens]
  /\ live \subseteq Ids /\ armed \subseteq Ids
  /\ slot \in SlotType /\ token \in SlotType
  /\ timers \subseteq TimerType
  /\ revoked \subseteq Ids /\ cancels \subseteq Ids
  /\ posted \in 0 .. MaxPosted
  /\ closing \in BOOLEAN /\ now \in 0 .. MaxTime
  /\ interest \in [Fds -> SUBSET Dirs]
  /\ sock \in [Fds -> {"open", "closing", "closed"}]
  /\ reopens \in [Fds -> 0 .. MaxReopens]
  /\ stack \in Seq(FrameType)
  /\ pc \in {"user", "poll", "wait", "deliver"}
  /\ arming \in [id : Ids \cup {NoOp}, want : SUBSET Dirs]
  /\ failures \in 0 .. MaxArmFailures
  /\ answer \in [Ids -> AnswerType]
  /\ asked \subseteq Ids /\ strayed \subseteq Ids

\* Some delivery in progress still has operation i to hand out.
InDelivery(i) == \E k \in 1 .. Len(stack) : \E e \in stack[k].todo : e.id = i

\* The indices of the operation table agree with it: a slot names a live
\* operation on that descriptor and direction, a timer names a live operation
\* and one of its two times, and `armed` marks exactly the operations a slot names.
IndicesSound ==
  /\ \A fd \in Fds, d \in Dirs : slot[fd][d] # NoOp =>
       /\ slot[fd][d] \in live /\ op[slot[fd][d]].kind = "readiness"
       /\ op[slot[fd][d]].fd = fd /\ op[slot[fd][d]].dir = d
  /\ \A i \in Ids : i \in armed <=> \E fd \in Fds, d \in Dirs : slot[fd][d] = i
  /\ \A t \in timers : t.id \in live /\ t \in TimersOf(t.id, op[t.id])

\* No suspended coroutine is forgotten: whatever is in operations_ is still
\* named by its descriptor slot or its wake-up timer, or is in a delivery that
\* has been collected and not yet handed out.
NoneForgotten ==
  \A i \in live :
    \/ InDelivery(i)
    \/ op[i].kind = "readiness" /\ slot[op[i].fd][op[i].dir] = i
    \/ op[i].kind = "timer" /\ [at |-> op[i].wake, id |-> i, cut |-> 0] \in timers

\* Nobody waits with nothing armed: a waiting direction is known to the kernel,
\* or an arm() that will tell it is still to come (in run_once's re-arm list or
\* in a submission under way).
NoneStranded ==
  ~closing => \A fd \in Fds, d \in Dirs : slot[fd][d] # NoOp =>
    \/ d \in interest[fd]
    \/ stack # <<>> /\ \E r \in stack[1].rearm : r.fd = fd /\ d \in r.want
    \/ arming # NotArming /\ op[arming.id].fd = fd /\ d \in arming.want

\* Within one batch a genuine completion wins over a deadline or a cancellation, whatever
\* coroutines resumed earlier in the batch do.
CompletionWins ==
  [][\A i \in live :
       (/\ \E k \in 1 .. Len(stack) : \E e \in stack[k].todo : e.id = i /\ e.rank = Completion
        /\ i \notin live') => answer'[i] = "ok"]_vars

\* A sleep succeeds exactly when its wake-up is not later than its deadline,
\* even if both are long past when the loop gets to look.
SleepVerdict ==
  \A i \in Ids : op[i].kind = "timer" =>
    /\ answer[i] = "ok" => op[i].wake <= op[i].deadline /\ op[i].wake <= now
    /\ answer[i] = "timed_out" => op[i].deadline < op[i].wake /\ op[i].deadline <= now

\* When shutdown has returned no coroutine is suspended on the loop, no timer
\* is left and no posted work is queued, and nothing is queued afterwards.
ShutdownDrains ==
  closing /\ stack = <<>> => live = {} /\ timers = {} /\ posted = 0

\* A datagram receive or send woken after its socket was closed reports
\* cancelled: it never touches a number that is closed or reused.
DatagramsNeverStray == \A i \in strayed : ~op[i].datagram

\* A close or a shutdown that found an operation suspended, a deadline set for it, and a stop
\* request made before run_once went to sleep on nothing, always lead to its coroutine being
\* resumed, whatever its descriptor does: run_once never blocks without a timeout while one of
\* them stands.  (A request made while poll blocks without a timeout needs the wake-up pipe,
\* which WakeProtocol is about.)
AnsweredInTheEnd ==
  \A i \in Ids :
    (i \in asked /\ pc # "wait") \/ (i \in live /\ op[i].deadline # Never) ~> i \notin live

\* The operation table is sound at every step: typed, in agreement with its indices, with no
\* suspended coroutine out of reach, and empty for good once shutdown has returned, whatever
\* coroutines submit, cancel, close or post in the middle of a batch.
TableSound == TypeOK /\ IndicesSound /\ NoneForgotten /\ ShutdownDrains

-----------------------------------------------------------------------------
(* What a caller sees of this backend.                                      *)

Contract == INSTANCE OperationContract WITH
  phase <- [i \in Ids |-> IF answer[i] # "none" THEN answer[i]
                          ELSE IF i <= nextId THEN "pending" ELSE "unused"],
  late  <- {i \in Ids : i <= nextId /\ op[i].deadline <= now}

\* The backend keeps the contract of event_loop.hpp: each operation is
\* answered once, and cancelled or timed out only with cause.
KeepsContract == Contract!ContractSpec
=============================================================================
