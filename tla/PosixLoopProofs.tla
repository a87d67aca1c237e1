--------------------------- MODULE PosixLoopProofs ---------------------------
(***************************************************************************)
(* Proofs about PosixLoop, for any set of descriptors, either poller, any  *)
(* requests and any bounds.                                                *)
(***************************************************************************)
EXTENDS PosixLoop, TLAPS
USE DEF NoOp, Never, Polling

OpType == [kind : {"readiness", "timer"}, fd : Fds \cup {NoFd}, dir : Dirs,
           datagram : BOOLEAN, stoppable : BOOLEAN, wake : Times, deadline : Times]

\* Where control can be: poll runs with no delivery in progress, a delivery has
\* a frame, and only a frame above another one returns into a delivery.
ControlSound ==
  /\ Polling => stack = <<>> /\ ~closing
  /\ pc = "deliver" => stack # <<>>
  /\ stack # <<>> => stack[1].back = "user"

\* While add_waiter is between its record and its arm() nothing else runs on the
\* loop's thread, so the record and its slot are still there.
ArmingSound ==
  arming # NotArming => pc = "user" /\ arming.id \in live /\ arming.id \in armed

-----------------------------------------------------------------------------
(* Stacks of deliveries.                                                   *)

\* The innermost delivery is the last of the stack, and replacing or dropping
\* it leaves the others alone.
LEMMA StackFacts ==
  ASSUME stack \in Seq(FrameType), stack # <<>>
  PROVE  /\ Len(stack) \in Nat \ {0}
         /\ Top \in FrameType
         /\ \A f \in FrameType :
              /\ SetTop(f) \in Seq(FrameType)
              /\ Len(SetTop(f)) = Len(stack)
              /\ \A k \in 1 .. Len(stack) : SetTop(f)[k] = IF k = Len(stack) THEN f ELSE stack[k]
         /\ Pop \in Seq(FrameType)
         /\ Len(Pop) = Len(stack) - 1
         /\ \A k \in 1 .. Len(stack) - 1 : Pop[k] = stack[k]
<1>1. Len(stack) \in Nat \ {0}
  OBVIOUS
<1>2. Top \in FrameType
  BY <1>1 DEF Top
<1>3. ASSUME NEW f \in FrameType
      PROVE  /\ SetTop(f) \in Seq(FrameType)
             /\ Len(SetTop(f)) = Len(stack)
             /\ \A k \in 1 .. Len(stack) : SetTop(f)[k] = IF k = Len(stack) THEN f ELSE stack[k]
  <2>1. Len(stack) \in 1 .. Len(stack)
    BY <1>1
  <2> QED  BY <2>1 DEF SetTop
<1>4. /\ Pop \in Seq(FrameType)
      /\ Len(Pop) = Len(stack) - 1
      /\ \A k \in 1 .. Len(stack) - 1 : Pop[k] = stack[k]
  <2>1. PICK n \in Nat : n = Len(stack) - 1
    BY <1>1
  <2>2. \A k \in 1 .. n : stack[k] \in FrameType
    BY <1>1, <2>1
  <2>3. SubSeq(stack, 1, n) \in Seq(FrameType) /\ Len(SubSeq(stack, 1, n)) = n
    BY <2>2
  <2>4. \A k \in 1 .. n : SubSeq(stack, 1, n)[k] = stack[k]
    BY <2>1
  <2> QED  BY <2>1, <2>3, <2>4 DEF Pop
<1> QED  BY <1>1, <1>2, <1>3, <1>4

\* A submission is a well-formed record.
LEMMA RequestTypes ==
  /\ \A r \in WaitRequests : r \in Waits /\ r \in OpType
  /\ \A r \in SleepRequests : r \in Sleeps /\ r \in OpType
<1>1. Never \in Times
  BY BoundsAssumption DEF Times
<1>2. Waits \subseteq OpType
  BY <1>1 DEF Waits, OpType
<1>3. Sleeps \subseteq OpType
  BY ZenonT(40) DEF Sleeps, OpType, Dirs
<1> QED  BY <1>2, <1>3, RequestsAssumption

\* A batch, the failed waiters of a descriptor and shutdown's orphans are
\* deliveries.
LEMMA FrameTypes ==
  ASSUME TypeOK
  PROVE  /\ \A report \in Reports : \A failed \in SUBSET Fds : \A last \in Dirs :
              Frame(Batch(Claimed(report, failed)), ToRearm(report, failed, last), posted, NoFd, "user")
                \in FrameType
         /\ \A fd \in Fds : \A out \in {"cancelled", "error"} : \A close \in Fds \cup {NoFd} :
              \A back \in {"user", "deliver"} : Frame(Broken(fd, out), {}, 0, close, back) \in FrameType
         /\ Frame({Entry(i, Cancelled, 0, 0, "cancelled") : i \in live}, {}, 0, NoFd, "user") \in FrameType
<1> USE BoundsAssumption DEF Entry, Completion, Expiry, Cancelled, EntryType, Times
<1>1. ASSUME NEW report \in Reports, NEW failed \in SUBSET Fds, NEW last \in Dirs
      PROVE  Frame(Batch(Claimed(report, failed)), ToRearm(report, failed, last), posted, NoFd, "user")
               \in FrameType
  <2>1. Claimed(report, failed) \subseteq Ids
    BY DEF Claimed
  <2>2. Batch(Claimed(report, failed)) \subseteq EntryType
    BY <2>1, SMTT(40) DEF Batch, Expired, TypeOK, TimerType
  <2>3. ToRearm(report, failed, last) \subseteq [fd : Fds, want : SUBSET Dirs]
    BY DEF ToRearm, Wanted, Dirs
  <2> QED  BY <2>2, <2>3 DEF Frame, FrameType, TypeOK
<1>2. ASSUME NEW fd \in Fds, NEW out \in {"cancelled", "error"}, NEW close \in Fds \cup {NoFd},
             NEW back \in {"user", "deliver"}
      PROVE  Frame(Broken(fd, out), {}, 0, close, back) \in FrameType
  <2>1. Broken(fd, out) \subseteq EntryType
    BY SMTT(40) DEF Broken, TypeOK, SlotType
  <2> QED  BY <2>1 DEF Frame, FrameType
<1>3. Frame({Entry(i, Cancelled, 0, 0, "cancelled") : i \in live}, {}, 0, NoFd, "user") \in FrameType
  <2>1. {Entry(i, Cancelled, 0, 0, "cancelled") : i \in live} \subseteq EntryType
    BY DEF TypeOK
  <2> QED  BY <2>1 DEF Frame, FrameType
<1> QED  BY <1>1, <1>2, <1>3

\* Resolving an operation keeps the table well-formed.
LEMMA UnlinkTypes ==
  ASSUME TypeOK, NEW i \in live, Unlink(i), ReleaseToken(i)
  PROVE  /\ live' \subseteq Ids /\ armed' \subseteq Ids /\ slot' \in SlotType /\ token' \in SlotType
         /\ timers' \subseteq TimerType /\ interest' \in [Fds -> SUBSET Dirs]
<1>1. i \in Ids /\ op[i] \in OpType
  BY DEF TypeOK, OpType
<1>2. SlotsWithout(i) \in SlotType
  BY <1>1, ZenonT(40) DEF SlotsWithout, TypeOK, SlotType, OpType
<1>3. InterestWithout(i) \in [Fds -> SUBSET Dirs]
  BY ZenonT(40) DEF InterestWithout, TypeOK, Disarmed, Armed, Wanted
<1>4. token' \in SlotType
  BY <1>1, ZenonT(40) DEF ReleaseToken, TypeOK, SlotType, OpType
<1> QED  BY <1>2, <1>3, <1>4 DEF Unlink, TypeOK

\* add_waiter and add_timer number a submission and put a well-formed record,
\* with well-formed timers, in operations_.
LEMMA RecordTypes ==
  ASSUME TypeOK, NEW r \in OpType, nextId < MaxOps, Record(r)
  PROVE  /\ nextId' \in 0 .. MaxOps /\ nextId + 1 \in Ids
         /\ op' \in [Ids -> OpType]
         /\ live' \subseteq Ids /\ timers' \subseteq TimerType
<1>1. nextId + 1 \in Ids /\ nextId' \in 0 .. MaxOps
  BY BoundsAssumption DEF TypeOK, Ids, Record
<1>2. TimersOf(nextId + 1, r) \subseteq TimerType
  BY <1>1 DEF TimersOf, TimerType, OpType
<1> QED  BY <1>1, <1>2 DEF TypeOK, Record, OpType

-----------------------------------------------------------------------------
(* Type correctness.                                                       *)

\* The freshly constructed Impl is well typed and idle.
LEMMA TypeInit == Init => TypeOK /\ ControlSound /\ ArmingSound
<1> SUFFICES ASSUME Init PROVE TypeOK /\ ControlSound /\ ArmingSound
  OBVIOUS
<1>1. op \in [Ids -> OpType]
  BY BoundsAssumption DEF Init, OpType, Times, Dirs
<1>2. stack \in Seq(FrameType)
  BY DEF Init
<1>3. /\ slot \in SlotType /\ token \in SlotType
      /\ arming \in [id : Ids \cup {NoOp}, want : SUBSET Dirs]
  BY DEF Init, SlotType, NotArming
<1>4. /\ inc \in [Ids -> 0 .. MaxReopens] /\ reopens \in [Fds -> 0 .. MaxReopens]
      /\ posted \in 0 .. MaxPosted /\ failures \in 0 .. MaxArmFailures
      /\ nextId \in 0 .. MaxOps /\ now \in 0 .. MaxTime
  BY BoundsAssumption DEF Init
<1>5. TypeOK
  BY <1>1, <1>2, <1>3, <1>4, ZenonT(40) DEF Init, TypeOK, OpType, AnswerType
<1> QED  BY <1>5 DEF Init, ControlSound, ArmingSound

\* Every entry point, poll and delivery step keeps the types and the control state.
LEMMA TypeStep == TypeOK /\ ControlSound /\ ArmingSound /\ [Next]_vars => TypeOK' /\ ControlSound'
<1> SUFFICES ASSUME TypeOK, ControlSound, ArmingSound, [Next]_vars PROVE TypeOK' /\ ControlSound'
  OBVIOUS
<1> USE DEF table, tokens, queues, kernel, control, results
<1>1. ASSUME NEW r \in WaitRequests, AddWaiter(r)
      PROVE  TypeOK' /\ ControlSound'
  <2>1. r \in OpType /\ r.fd \in Fds /\ r.dir \in Dirs
    BY RequestTypes DEF Waits
  <2>2. Record(r) /\ nextId < MaxOps
    BY <1>1 DEF AddWaiter, Admitted
  <2>3. nextId + 1 \in Ids
    BY <2>1, <2>2, RecordTypes, Zenon
  <2>4. slot' \in SlotType /\ token' \in SlotType
    BY <1>1, <2>1, <2>3, Zenon DEF AddWaiter, TypeOK, SlotType
  <2>5. arming' \in [id : Ids \cup {NoOp}, want : SUBSET Dirs]
    BY <1>1, <2>1, <2>3, Zenon DEF AddWaiter, TypeOK, Wanted
  <2>6. inc' \in [Ids -> 0 .. MaxReopens] /\ armed' \subseteq Ids
    BY <1>1, <2>1, <2>3, Zenon DEF AddWaiter, TypeOK
  <2>7. TypeOK'
    BY <1>1, <2>1, <2>2, <2>4, <2>5, <2>6, RecordTypes, Zenon DEF AddWaiter, TypeOK, OpType
  <2> QED  BY <1>1, <2>7 DEF AddWaiter, ControlSound
<1>2. ASSUME ArmAccepted
      PROVE  TypeOK' /\ ControlSound'
  BY <1>2, ZenonT(40) DEF ArmAccepted, TypeOK, ControlSound, Armed, NotArming
<1>3. ASSUME ArmRefused
      PROVE  TypeOK' /\ ControlSound'
  <2>1. /\ live' \subseteq Ids /\ armed' \subseteq Ids /\ slot' \in SlotType /\ token' \in SlotType
        /\ timers' \subseteq TimerType /\ interest' \in [Fds -> SUBSET Dirs]
    <3>1. arming.id \in live /\ Unlink(arming.id) /\ ReleaseToken(arming.id)
      BY <1>3, Zenon DEF ArmRefused, ArmingSound
    <3> QED  BY <3>1, UnlinkTypes
  <2>2. answer' \in [Ids -> AnswerType]
    BY <1>3, ZenonT(40) DEF ArmRefused, TypeOK, AnswerType
  <2>3. failures' \in 0 .. MaxArmFailures
    BY <1>3, BoundsAssumption, SMTT(40) DEF ArmRefused, TypeOK
  <2>4. arming' \in [id : Ids \cup {NoOp}, want : SUBSET Dirs]
    BY <1>3, Zenon DEF ArmRefused, TypeOK, NotArming
  <2> QED  BY <1>3, <2>1, <2>2, <2>3, <2>4 DEF ArmRefused, TypeOK, ControlSound
<1>4. ASSUME NEW r \in SleepRequests, AddTimer(r)
      PROVE  TypeOK' /\ ControlSound'
  <2>1. r \in OpType /\ Record(r) /\ nextId < MaxOps
    BY <1>4, RequestTypes DEF AddTimer, Admitted
  <2> QED  BY <1>4, <2>1, RecordTypes, Zenon DEF AddTimer, TypeOK, OpType, ControlSound
<1>5. ASSUME NEW i \in Ids, RequestCancel(i)
      PROVE  TypeOK' /\ ControlSound'
  BY <1>5, Zenon DEF RequestCancel, TypeOK, ControlSound
<1>6. CASE Post
  BY <1>6, BoundsAssumption, SMTT(40) DEF Post, TypeOK, ControlSound
<1>7. CASE Tick
  BY <1>7, BoundsAssumption, SMTT(40) DEF Tick, TypeOK, ControlSound
<1>8. ASSUME NEW fd \in Fds, NEW isClose \in BOOLEAN, Detach(fd, isClose)
      PROVE  TypeOK' /\ ControlSound'
  <2> DEFINE f == Frame(Broken(fd, "cancelled"), {}, 0, IF isClose THEN fd ELSE NoFd, "user")
  <2>1. f \in FrameType /\ f.back = "user"
    BY FrameTypes, ZenonT(40) DEF Frame
  <2>2. stack' = Append(stack, f)
    BY <1>8 DEF Detach
  <2> HIDE DEF f
  <2>3. stack' \in Seq(FrameType) /\ stack' # <<>> /\ stack'[1].back = "user"
    <3>1. CASE stack = <<>>
      <4>1. stack' = <<f>>
        BY <2>1, <2>2, <3>1
      <4> QED  BY <2>1, <4>1
    <3>2. CASE stack # <<>>
      <4>1. Len(stack) \in Nat \ {0}
        BY <3>2 DEF TypeOK
      <4>2. stack' \in Seq(FrameType) /\ stack' # <<>> /\ stack'[1] = stack[1]
        <5>1. stack \in Seq(FrameType)
          BY DEF TypeOK
        <5> QED  BY <2>1, <2>2, <4>1, <5>1
      <4> QED  BY <3>2, <4>2 DEF ControlSound
    <3> QED  BY <3>1, <3>2
  <2>4. slot' \in SlotType /\ token' \in SlotType
    BY <1>8, SMTT(40) DEF Detach, FailWaiters, TypeOK, SlotType
  <2>5. revoked' \subseteq Ids /\ armed' \subseteq Ids /\ asked' \subseteq Ids
    BY <1>8, SMTT(40) DEF Detach, FailWaiters, TypeOK, SlotType
  <2>6. interest' \in [Fds -> SUBSET Dirs] /\ sock' \in [Fds -> {"open", "closing", "closed"}]
    BY <1>8, Zenon DEF Detach, TypeOK, Disarmed
  <2>7. TypeOK'
    BY <1>8, <2>3, <2>4, <2>5, <2>6, Zenon DEF Detach, TypeOK
  <2> QED  BY <1>8, <2>3, <2>7 DEF Detach, ControlSound
<1>9. ASSUME NEW fd \in Fds, Reopen(fd)
      PROVE  TypeOK' /\ ControlSound'
  BY <1>9, BoundsAssumption, SMTT(40) DEF Reopen, TypeOK, ControlSound
<1>10. CASE RunOnce
  BY <1>10 DEF RunOnce, TypeOK, ControlSound
<1>11. CASE Poll
  <2>1. PICK report \in Reports : \E failed \in SUBSET MayFail(report) : \E last \in Dirs :
          Collect(report, failed, last)
    BY <1>11 DEF Poll
  <2>2. PICK failed \in SUBSET Fds, last \in Dirs : Collect(report, failed, last)
    BY <2>1 DEF MayFail
  <2> DEFINE f == Frame(Batch(Claimed(report, failed)), ToRearm(report, failed, last), posted, NoFd, "user")
  <2>3. f \in FrameType /\ f.back = "user"
    BY FrameTypes, ZenonT(40) DEF Frame
  <2>4. stack' = <<f>>
    BY <2>2, ZenonT(40) DEF Collect
  <2> HIDE DEF f
  <2>5. stack' \in Seq(FrameType) /\ stack' # <<>> /\ stack'[1].back = "user"
    BY <2>3, <2>4
  <2>6. interest' \in [Fds -> SUBSET Dirs]
    BY <2>2, ZenonT(40) DEF Collect, Fired, TypeOK
  <2>7. slot' \in SlotType
    BY <2>2 DEF Collect, TypeOK, SlotType
  <2>8. posted' \in 0 .. MaxPosted
    <3>1. posted' = 0
      BY <2>2, ZenonT(40) DEF Collect
    <3> QED  BY <3>1, BoundsAssumption
  <2>9. TypeOK'
    BY <2>2, <2>5, <2>6, <2>7, <2>8, Zenon DEF Collect, TypeOK
  <2> QED  BY <2>2, <2>5, <2>9, ZenonT(40) DEF Collect, ControlSound
<1>12. CASE PollFails
  BY <1>12 DEF PollFails, TypeOK, ControlSound
<1>13. CASE stack # <<>> /\ Deliver
  <2> USE <1>13
  <2>1. stack \in Seq(FrameType) /\ Top \in FrameType
    BY StackFacts DEF TypeOK
  <2>2. ASSUME NEW f \in FrameType, f.back = Top.back
        PROVE  SetTop(f) \in Seq(FrameType) /\ SetTop(f) # <<>> /\ SetTop(f)[1].back = "user"
    <3>1. Len(stack) \in Nat \ {0} /\ 1 \in 1 .. Len(stack)
      BY <2>1, StackFacts
    <3>2. SetTop(f) \in Seq(FrameType) /\ Len(SetTop(f)) = Len(stack)
      BY <2>1, StackFacts
    <3>3. SetTop(f)[1] = IF 1 = Len(stack) THEN f ELSE stack[1]
      BY <2>1, <3>1, StackFacts, Zenon
    <3>4. SetTop(f) # <<>>
      BY <3>1, <3>2
    <3> QED  BY <2>2, <3>2, <3>3, <3>4 DEF ControlSound, Top
  <2>3. ASSUME NEW r \in Top.rearm, RearmAccepted(r)
        PROVE  TypeOK' /\ ControlSound'
    <3>1. [Top EXCEPT !.rearm = @ \ {r}] \in FrameType /\ [Top EXCEPT !.rearm = @ \ {r}].back = Top.back
      BY <2>1, Zenon DEF FrameType
    <3>2. stack' \in Seq(FrameType) /\ stack' # <<>> /\ stack'[1].back = "user"
      BY <2>2, <2>3, <3>1, ZenonT(40) DEF RearmAccepted
    <3>3. r \in [fd : Fds, want : SUBSET Dirs]
      BY <2>1 DEF FrameType
    <3>4. interest' \in [Fds -> SUBSET Dirs]
      BY <2>3, <3>3 DEF RearmAccepted, Armed, TypeOK
    <3> QED  BY <2>3, <3>2, <3>4 DEF RearmAccepted, TypeOK, ControlSound
  <2>4. ASSUME NEW r \in Top.rearm, RearmRefused(r)
        PROVE  TypeOK' /\ ControlSound'
    <3> DEFINE g == [Top EXCEPT !.rearm = @ \ {r}]
               h == Frame(Broken(r.fd, "error"), {}, 0, NoFd, "deliver")
    <3>1. g \in FrameType /\ g.back = Top.back
      BY <2>1, Zenon DEF FrameType
    <3>2. r.fd \in Fds
      BY <2>1 DEF FrameType
    <3>3. h \in FrameType
      BY <3>2, FrameTypes
    <3>4. stack' = Append(SetTop(g), h)
      BY <2>4, ZenonT(40) DEF RearmRefused
    <3> HIDE DEF g, h
    <3>5. SetTop(g) \in Seq(FrameType) /\ SetTop(g) # <<>> /\ SetTop(g)[1].back = "user"
      BY <2>2, <3>1
    <3>6. Len(SetTop(g)) \in Nat \ {0}
      BY <3>5
    <3>7. stack' \in Seq(FrameType) /\ stack' # <<>> /\ stack'[1].back = "user"
      BY <3>3, <3>4, <3>5, <3>6, SMTT(40)
    <3>8. slot' \in SlotType /\ armed' \subseteq Ids /\ asked' \subseteq Ids
      BY <2>4, <3>2, Zenon DEF RearmRefused, FailWaiters, TypeOK, SlotType
    <3>9. failures' \in 0 .. MaxArmFailures
      BY <2>4, BoundsAssumption DEF RearmRefused, TypeOK
    <3> QED  BY <2>4, <3>7, <3>8, <3>9, ZenonT(40) DEF RearmRefused, TypeOK, ControlSound
  <2>5. ASSUME NEW e \in Top.todo, Finalize(e)
        PROVE  TypeOK' /\ ControlSound'
    <3>1. [Top EXCEPT !.todo = @ \ {e}] \in FrameType /\ [Top EXCEPT !.todo = @ \ {e}].back = Top.back
      BY <2>1 DEF FrameType
    <3>2. stack' \in Seq(FrameType) /\ stack' # <<>> /\ stack'[1].back = "user"
      BY <2>2, <2>5, <3>1, ZenonT(40) DEF Finalize
    <3>3. e.id \in Ids /\ e.out \in AnswerType
      BY <2>1 DEF FrameType, EntryType, AnswerType
    <3>4. /\ live' \subseteq Ids /\ armed' \subseteq Ids /\ slot' \in SlotType /\ token' \in SlotType
          /\ timers' \subseteq TimerType /\ interest' \in [Fds -> SUBSET Dirs]
      <4>1. CASE e.id \in live
        BY <2>5, <4>1, UnlinkTypes DEF Finalize
      <4>2. CASE e.id \notin live
        BY <2>5, <4>2 DEF Finalize, TypeOK
      <4> QED  BY <4>1, <4>2
    <3>5. answer' \in [Ids -> AnswerType] /\ strayed' \subseteq Ids /\ pc' \in {"user", "deliver"}
      <4>1. answer' = answer \/ answer' = [answer EXCEPT ![e.id] = e.out]
        BY <2>5 DEF Finalize
      <4>2. strayed' = strayed \/ strayed' = strayed \cup {e.id}
        BY <2>5 DEF Finalize
      <4>3. pc' \in {"user", "deliver"}
        BY <2>5 DEF Finalize
      <4> QED  BY <3>3, <4>1, <4>2, <4>3, ZenonT(40) DEF TypeOK
    <3> QED  BY <2>5, <3>2, <3>4, <3>5, Zenon DEF Finalize, TypeOK, ControlSound
  <2>6. CASE RunPosted
    <3>1. Top.work \in 0 .. MaxPosted /\ Top.work > 0
      BY <2>1, <2>6 DEF FrameType, RunPosted
    <3>2. Top.work - 1 \in 0 .. MaxPosted
      BY <3>1, BoundsAssumption
    <3>3. [Top EXCEPT !.work = @ - 1] \in FrameType /\ [Top EXCEPT !.work = @ - 1].back = Top.back
      BY <2>1, <3>2, ZenonT(40) DEF FrameType
    <3>4. stack' \in Seq(FrameType) /\ stack' # <<>> /\ stack'[1].back = "user"
      BY <2>2, <2>6, <3>3, ZenonT(40) DEF RunPosted
    <3> QED  BY <2>6, <3>4 DEF RunPosted, TypeOK, ControlSound
  <2>7. CASE Return
    <3>1. Len(stack) \in Nat \ {0} /\ Pop \in Seq(FrameType) /\ Len(Pop) = Len(stack) - 1
      BY <2>1, StackFacts
    <3>2. Pop # <<>> => Len(stack) - 1 >= 1 /\ Pop[1] = stack[1]
      BY <2>1, <3>1, StackFacts
    <3>3. stack' = Pop /\ pc' = Top.back
      BY <2>7 DEF Return
    <3>4. Pop = <<>> => Top.back = "user"
      <4>1. ASSUME Pop = <<>> PROVE Len(stack) = 1
        BY <3>1, <4>1
      <4> QED  BY <4>1, ZenonT(40) DEF ControlSound, Top
    <3>5. interest' \in [Fds -> SUBSET Dirs] /\ sock' \in [Fds -> {"open", "closing", "closed"}]
      BY <2>7, ZenonT(40) DEF Return, TypeOK
    <3>6. Top.back \in {"user", "deliver"}
      BY <2>1, SMTT(40) DEF FrameType
    <3>7. TypeOK'
      BY <2>7, <3>1, <3>3, <3>5, <3>6, Zenon DEF Return, TypeOK
    <3> QED  BY <2>7, <3>2, <3>3, <3>4, <3>6, <3>7 DEF Return, ControlSound
  <2> QED  BY <2>3, <2>4, <2>5, <2>6, <2>7, SMTT(40) DEF Deliver
<1>14. CASE Suspend
  BY <1>14, Zenon DEF Suspend, TypeOK, ControlSound
<1>15. CASE Shutdown
  <2> DEFINE f == Frame({Entry(i, Cancelled, 0, 0, "cancelled") : i \in live}, {}, 0, NoFd, "user")
  <2>1. f \in FrameType /\ f.back = "user"
    BY FrameTypes, ZenonT(40) DEF Frame
  <2>2. stack' = <<f>>
    BY <1>15 DEF Shutdown
  <2> HIDE DEF f
  <2>3. stack' \in Seq(FrameType) /\ stack' # <<>> /\ stack'[1].back = "user"
    BY <2>1, <2>2
  <2>4. posted' \in 0 .. MaxPosted
    BY <1>15, BoundsAssumption, SMTT(40) DEF Shutdown
  <2> QED  BY <1>15, <2>3, <2>4 DEF Shutdown, TypeOK, ControlSound
<1>16. CASE UNCHANGED vars
  BY <1>16, Zenon DEF vars, TypeOK, ControlSound
<1> QED
  BY <1>1, <1>2, <1>3, <1>4, <1>5, <1>6, <1>7, <1>8, <1>9, <1>10, <1>11, <1>12, <1>13, <1>14, <1>15, <1>16, SMTT(40)
  DEF Next

\* The submission under way is left alone by stop callbacks, posts and the clock, and
\* ended by its own arm().
LEMMA ArmingStep == ArmingSound /\ [Next]_vars => ArmingSound'
<1> SUFFICES ASSUME ArmingSound, [Next]_vars PROVE ArmingSound'
  OBVIOUS
<1> USE DEF table, tokens, queues, kernel, control, results
<1>1. ASSUME NEW r \in WaitRequests, AddWaiter(r) PROVE ArmingSound'
  <2>1. PICK n, w : /\ arming' = [id |-> n, want |-> w] /\ live' = live \cup {n}
                    /\ armed' = armed \cup {n} /\ pc' = "user"
    BY <1>1, Zenon DEF AddWaiter, Record, UserRuns
  <2>2. arming'.id = n
    BY <2>1
  <2> QED  BY <2>1, <2>2, Zenon DEF ArmingSound
<1>2. ASSUME arming' = NotArming PROVE ArmingSound'
  BY <1>2, Zenon DEF ArmingSound
<1>3. ASSUME ArmAccepted \/ ArmRefused PROVE arming' = NotArming
  BY <1>3, Zenon DEF ArmAccepted, ArmRefused
<1>4. ASSUME UNCHANGED <<arming, live, armed, pc>> PROVE ArmingSound'
  BY <1>4, Zenon DEF ArmingSound
<1>5. ASSUME (\E i \in Ids : RequestCancel(i)) \/ Post \/ Tick \/ UNCHANGED vars
      PROVE  UNCHANGED <<arming, live, armed, pc>>
  BY <1>5, Zenon DEF RequestCancel, Post, Tick, vars
<1>6. ASSUME UserRuns \/ pc # "user", arming' = arming PROVE arming' = NotArming
  BY <1>6, Zenon DEF UserRuns, ArmingSound
<1>7. ASSUME \/ \E r \in SleepRequests : AddTimer(r)
             \/ \E fd \in Fds : (\E isClose \in BOOLEAN : Detach(fd, isClose)) \/ Reopen(fd)
             \/ RunOnce \/ Suspend \/ Shutdown
      PROVE  UserRuns /\ arming' = arming
  BY <1>7, Zenon DEF AddTimer, Detach, Reopen, RunOnce, Suspend, Shutdown
<1>8. "poll" # "user" /\ "wait" # "user" /\ "deliver" # "user"
  OBVIOUS
<1>9. ASSUME Poll \/ PollFails \/ Deliver PROVE pc # "user" /\ arming' = arming
  <2>1. CASE Poll \/ PollFails
    BY <1>8, <2>1, Zenon DEF Poll, Collect, PollFails
  <2>2. CASE Deliver
    BY <1>8, <2>2, Zenon DEF Deliver, RearmAccepted, RearmRefused, Finalize, RunPosted, Return
  <2> QED  BY <1>9, <2>1, <2>2
<1> QED  BY <1>1, <1>2, <1>3, <1>4, <1>5, <1>6, <1>7, <1>9, Zenon DEF Next

\* Every field of the loop's Impl keeps its type: ids are never kNoOperation,
\* the batch being delivered names operations, the result slots hold answers.
THEOREM TypeCorrect == Spec => []TypeOK
<1>1. Spec => [](TypeOK /\ ControlSound)
  BY TypeInit, TypeStep, ArmingStep, PTL DEF Spec
<1> QED  BY <1>1, PTL

-----------------------------------------------------------------------------
(* The indices of the operation table.                                     *)

\* Ids are handed out in order and never twice, and a wait names a descriptor.
Fresh == \A i \in live : i <= nextId /\ (op[i].kind = "readiness" => op[i].fd \in Fds)

\* IndicesSound, one conjunct at a time.
LEMMA IndexFacts ==
  ASSUME IndicesSound
  PROVE  /\ \A fd \in Fds, d \in Dirs : slot[fd][d] # NoOp =>
              /\ slot[fd][d] \in live /\ op[slot[fd][d]].kind = "readiness"
              /\ op[slot[fd][d]].fd = fd /\ op[slot[fd][d]].dir = d
         /\ \A j \in Ids : j \in armed <=> \E fd \in Fds, d \in Dirs : slot[fd][d] = j
         /\ \A t \in timers : t.id \in live /\ t \in TimersOf(t.id, op[t.id])
BY Zenon DEF IndicesSound

\* unlink takes an operation out of every index that names it.
LEMMA UnlinkIndices ==
  ASSUME TypeOK, IndicesSound, NEW i \in live, Unlink(i), UNCHANGED op
  PROVE  IndicesSound'
<1>1. i \in Ids /\ op[i] \in OpType
  BY Zenon DEF TypeOK, OpType
<1>2. \A fd \in Fds, d \in Dirs : slot'[fd][d] = IF slot[fd][d] = i THEN NoOp ELSE slot[fd][d]
  <2> SUFFICES ASSUME NEW fd \in Fds, NEW d \in Dirs
               PROVE  slot'[fd][d] = IF slot[fd][d] = i THEN NoOp ELSE slot[fd][d]
    BY SMTT(40)
  <2>1. slot[fd][d] = i => op[i].kind = "readiness" /\ op[i].fd = fd /\ op[i].dir = d
    <3>1. i # NoOp
      BY <1>1, SMTT(40) DEF Ids, NoOp
    <3>2. slot[fd][d] # NoOp => /\ op[slot[fd][d]].kind = "readiness"
                                /\ op[slot[fd][d]].fd = fd /\ op[slot[fd][d]].dir = d
      BY IndexFacts
    <3> QED  BY <3>1, <3>2, Zenon
  <2> QED  BY <2>1 DEF Unlink, SlotsWithout, TypeOK, SlotType
<1>3. live' = live \ {i} /\ armed' = armed \ {i} /\ timers' = {t \in timers : t.id # i}
  BY DEF Unlink
<1>4. i # NoOp
  BY <1>1, SMTT(40) DEF Ids
<1>5. (\A fd \in Fds, d \in Dirs : slot[fd][d] # NoOp =>
       /\ slot[fd][d] \in live /\ op[slot[fd][d]].kind = "readiness"
       /\ op[slot[fd][d]].fd = fd /\ op[slot[fd][d]].dir = d)'
  <2> SUFFICES ASSUME NEW fd \in Fds, NEW d \in Dirs, slot'[fd][d] # NoOp
               PROVE  LET j == slot[fd][d]
                      IN  /\ slot'[fd][d] = j /\ j \in live'
                          /\ op[j].kind = "readiness" /\ op[j].fd = fd /\ op[j].dir = d
    OBVIOUS
  <2>1. slot'[fd][d] = slot[fd][d] /\ slot[fd][d] # NoOp /\ slot[fd][d] # i
    BY <1>2, Zenon
  <2>2. /\ slot[fd][d] \in live /\ op[slot[fd][d]].kind = "readiness"
        /\ op[slot[fd][d]].fd = fd /\ op[slot[fd][d]].dir = d
    BY <2>1, IndexFacts, ZenonT(40)
  <2> QED  BY <1>3, <2>1, <2>2, ZenonT(40)
<1>6. (\A j \in Ids : j \in armed <=> \E fd \in Fds, d \in Dirs : slot[fd][d] = j)'
  <2> SUFFICES ASSUME NEW j \in Ids
               PROVE  j \in armed' <=> \E fd \in Fds, d \in Dirs : slot'[fd][d] = j
    OBVIOUS
  <2>1. j # NoOp
    BY SMTT(40) DEF Ids
  <2>2. j \in armed <=> \E fd \in Fds, d \in Dirs : slot[fd][d] = j
    BY IndexFacts, Zenon
  <2> QED  BY <1>2, <1>3, <1>4, <2>1, <2>2
<1>7. (\A t \in timers : t.id \in live /\ t \in TimersOf(t.id, op[t.id]))'
  BY <1>3, SMTT(40) DEF IndicesSound, TimersOf
<1> QED  BY <1>5, <1>6, <1>7, Zenon DEF IndicesSound

\* Emptying the slots of some directions and clearing `armed` of whom they named.
LEMMA ClearedIndices ==
  ASSUME TypeOK, IndicesSound, UNCHANGED <<op, live>>, NEW cleared,
         timers' \subseteq timers,
         \A fd \in Fds, d \in Dirs : slot'[fd][d] = IF <<fd, d>> \in cleared THEN NoOp ELSE slot[fd][d],
         armed' = armed \ {i \in Ids : \E fd \in Fds, d \in Dirs : <<fd, d>> \in cleared /\ slot[fd][d] = i}
  PROVE  IndicesSound'
<1>1. (\A fd \in Fds, d \in Dirs : slot[fd][d] # NoOp =>
       /\ slot[fd][d] \in live /\ op[slot[fd][d]].kind = "readiness"
       /\ op[slot[fd][d]].fd = fd /\ op[slot[fd][d]].dir = d)'
  <2> SUFFICES ASSUME NEW fd \in Fds, NEW d \in Dirs, slot'[fd][d] # NoOp
               PROVE  LET j == slot[fd][d]
                      IN  /\ slot'[fd][d] = j /\ j # NoOp
                          /\ j \in live /\ op[j].kind = "readiness" /\ op[j].fd = fd /\ op[j].dir = d
    OBVIOUS
  <2>1. slot'[fd][d] = slot[fd][d]
    BY ZenonT(40)
  <2>2. slot[fd][d] # NoOp =>
          /\ slot[fd][d] \in live /\ op[slot[fd][d]].kind = "readiness"
          /\ op[slot[fd][d]].fd = fd /\ op[slot[fd][d]].dir = d
    BY IndexFacts, ZenonT(40)
  <2> QED  BY <2>1, <2>2, Zenon
<1>2. (\A j \in Ids : j \in armed <=> \E fd \in Fds, d \in Dirs : slot[fd][d] = j)'
  <2> SUFFICES ASSUME NEW j \in Ids
               PROVE  j \in armed' <=> \E fd \in Fds, d \in Dirs : slot'[fd][d] = j
    BY ZenonT(40)
  <2>1. j # NoOp
    BY SMTT(40) DEF Ids
  <2>2. j \in armed <=> \E fd \in Fds, d \in Dirs : slot[fd][d] = j
    BY IndexFacts, SMTT(40)
  <2>3. \A fd \in Fds, d \in Dirs : slot[fd][d] = j => op[j].fd = fd /\ op[j].dir = d
    BY <2>1 DEF IndicesSound
  <2>4. ASSUME j \in armed'
        PROVE  \E fd \in Fds, d \in Dirs : slot'[fd][d] = j
    BY <2>2, <2>4
  <2>5. ASSUME NEW fd \in Fds, NEW d \in Dirs, slot'[fd][d] = j
        PROVE  j \in armed'
    <3>1. <<fd, d>> \notin cleared /\ slot[fd][d] = j
      BY <2>1, <2>5, SMTT(40)
    <3>2. \A g \in Fds, e \in Dirs : <<g, e>> \in cleared => slot[g][e] # j
      BY <2>3, <3>1, ZenonT(40)
    <3> QED  BY <2>2, <3>1, <3>2, ZenonT(40)
  <2> QED  BY <2>4, <2>5, SMTT(40)
<1>3. (\A t \in timers : t.id \in live /\ t \in TimersOf(t.id, op[t.id]))'
  BY DEF IndicesSound, TimersOf
<1> QED  BY <1>1, <1>2, <1>3, Zenon DEF IndicesSound

\* The waiters fail_waiters takes off a descriptor.
LEMMA FailIndices ==
  ASSUME TypeOK, IndicesSound, NEW fd \in Fds, NEW out, FailWaiters(fd, out),
         UNCHANGED <<op, live, timers>>
  PROVE  IndicesSound'
<1> DEFINE cleared == {fd} \X Dirs
<1>1. \A g \in Fds, d \in Dirs : slot'[g][d] = IF <<g, d>> \in cleared THEN NoOp ELSE slot[g][d]
  BY DEF FailWaiters, TypeOK, SlotType
<1>2. armed' = armed \ {i \in Ids : \E g \in Fds, d \in Dirs : <<g, d>> \in cleared /\ slot[g][d] = i}
  <2>1. \A i \in Ids : i \in {slot[fd][d] : d \in Dirs} \ {NoOp}
                       <=> \E g \in Fds, d \in Dirs : <<g, d>> \in cleared /\ slot[g][d] = i
    <3>1. \A g \in Fds, d \in Dirs : <<g, d>> \in cleared <=> g = fd
      OBVIOUS
    <3>2. \A i \in Ids : i # NoOp
      BY SMTT(40) DEF Ids
    <3> HIDE DEF cleared
    <3> QED  BY <3>1, <3>2, ZenonT(40)
  <2>2. armed' = armed \ ({slot[fd][d] : d \in Dirs} \ {NoOp}) /\ armed \subseteq Ids
    BY SMTT(40) DEF FailWaiters, TypeOK
  <2> QED  BY <2>1, <2>2, ZenonT(40)
<1> HIDE DEF cleared
<1> QED  BY <1>1, <1>2, ClearedIndices, ZenonT(40)

\* A step that leaves the table alone leaves its indices sound.
LEMMA IndicesFrame ==
  ASSUME Fresh, IndicesSound, UNCHANGED <<nextId, op, live, armed, slot, timers>>
  PROVE  Fresh' /\ IndicesSound'
<1>1. Fresh'
  BY Zenon DEF Fresh
<1>2. IndicesSound'
  BY DEF IndicesSound, TimersOf
<1> QED  BY <1>1, <1>2

\* A new loop has empty indices.
LEMMA IndicesInit == Init => IndicesSound /\ Fresh
  BY DEF Init, IndicesSound, Fresh, Ids

\* No entry point, poll or delivery step makes an index disagree with operations_.
LEMMA IndicesStep ==
  TypeOK /\ ControlSound /\ ArmingSound /\ Fresh /\ IndicesSound /\ [Next]_vars
    => Fresh' /\ IndicesSound'
<1> SUFFICES ASSUME TypeOK, ControlSound, ArmingSound, Fresh, IndicesSound, [Next]_vars
             PROVE  Fresh' /\ IndicesSound'
  BY SMTT(40)
<1> USE DEF table, tokens, queues, kernel, control, results
<1>1. ASSUME NEW r \in OpType, r.kind = "readiness" => r.fd \in Fds, nextId < MaxOps, Record(r)
      PROVE  /\ Fresh'
             /\ nextId + 1 \in Ids /\ nextId + 1 \notin live /\ live' = live \cup {nextId + 1}
             /\ \A j \in Ids : j # nextId + 1 => op'[j] = op[j]
             /\ op'[nextId + 1] = r
             /\ \A t \in timers' : t.id \in live' /\ t \in TimersOf(t.id, op'[t.id])
  <2>1. nextId + 1 \in Ids /\ nextId + 1 \notin live /\ live' = live \cup {nextId + 1} /\ nextId' = nextId + 1
    <3>1. nextId + 1 \in Ids /\ nextId' = nextId + 1 /\ live' = live \cup {nextId + 1}
      BY <1>1, RecordTypes, ZenonT(40) DEF Record
    <3>2. nextId \in Nat /\ ~(nextId + 1 <= nextId)
      BY SMTT(40) DEF TypeOK
    <3> QED  BY <3>1, <3>2 DEF Fresh
  <2>2. \A j \in Ids : op'[j] = IF j = nextId + 1 THEN r ELSE op[j]
    BY <1>1, <2>1, SMTT(40) DEF Record, TypeOK
  <2>3. Fresh'
    <3>1. \A j \in live : j \in Ids /\ j # nextId + 1 /\ j <= nextId + 1
      BY <2>1, SMTT(40) DEF Fresh, TypeOK, Ids
    <3>2. ASSUME NEW j \in live'
          PROVE  j <= nextId + 1 /\ (op'[j].kind = "readiness" => op'[j].fd \in Fds)
      <4>1. CASE j = nextId + 1
        <5>1. nextId \in Nat
          BY DEF TypeOK
        <5>2. op'[j] = r
          BY <2>1, <2>2, <4>1
        <5> QED  BY <1>1, <4>1, <5>1, <5>2
      <4>2. CASE j \in live
        BY <2>2, <3>1, <4>2 DEF Fresh
      <4> QED  BY <2>1, <3>2, <4>1, <4>2
    <3> QED  BY <2>1, <3>2, Zenon DEF Fresh
  <2>4. \A t \in timers : t.id \in live /\ t.id # nextId + 1 /\ t \in TimersOf(t.id, op[t.id]) /\ op'[t.id] = op[t.id]
    <3>1. \A t \in timers : t.id \in live /\ t \in TimersOf(t.id, op[t.id])
      BY IndexFacts, Zenon
    <3>2. live \subseteq Ids
      BY DEF TypeOK
    <3> QED  BY <2>1, <2>2, <3>1, <3>2
  <2>5. \A t \in TimersOf(nextId + 1, r) : t.id = nextId + 1
    BY DEF TimersOf
  <2>6. timers' = timers \cup TimersOf(nextId + 1, r)
    BY <1>1, SMTT(40) DEF Record
  <2>7. \A t \in timers' : t.id \in live' /\ t \in TimersOf(t.id, op'[t.id])
    BY <2>1, <2>2, <2>4, <2>5, <2>6, SMTT(40)
  <2> QED  BY <2>1, <2>2, <2>3, <2>7
<1>2. ASSUME NEW r \in WaitRequests, AddWaiter(r)
      PROVE  Fresh' /\ IndicesSound'
  <2> DEFINE i == nextId + 1
  <2>1. r \in OpType /\ r.kind = "readiness" /\ r.fd \in Fds /\ r.dir \in Dirs
    BY RequestTypes, Zenon DEF Waits
  <2>2. Record(r) /\ nextId < MaxOps /\ slot[r.fd][r.dir] = NoOp
    BY <1>2, SMTT(40) DEF AddWaiter, Admitted
  <2>3. \A fd \in Fds, d \in Dirs :
          slot'[fd][d] = IF fd = r.fd /\ d = r.dir THEN i ELSE slot[fd][d]
    BY <1>2, <2>1, Zenon DEF AddWaiter, TypeOK, SlotType
  <2>4. armed' = armed \cup {i}
    BY <1>2, SMTT(40) DEF AddWaiter
  <2>5. /\ Fresh' /\ i \in Ids /\ i \notin live /\ live' = live \cup {i}
        /\ \A j \in Ids : j # i => op'[j] = op[j]
        /\ op'[i] = r
        /\ \A u \in timers' : u.id \in live' /\ u \in TimersOf(u.id, op'[u.id])
    BY <1>1, <2>1, <2>2, Zenon
  <2> HIDE DEF i
  <2>6. \A fd \in Fds, d \in Dirs : slot[fd][d] # NoOp =>
          slot[fd][d] \in Ids /\ slot[fd][d] # i
    <3>1. live \subseteq Ids
      BY Zenon DEF TypeOK
    <3>2. \A fd \in Fds, d \in Dirs : slot[fd][d] # NoOp => slot[fd][d] \in live
      BY IndexFacts, SMTT(40)
    <3> QED  BY <2>5, <3>1, <3>2, Zenon
  <2>7. (\A fd \in Fds, d \in Dirs : slot[fd][d] # NoOp =>
          /\ slot[fd][d] \in live /\ op[slot[fd][d]].kind = "readiness"
          /\ op[slot[fd][d]].fd = fd /\ op[slot[fd][d]].dir = d)'
    <3>1. \A fd \in Fds, d \in Dirs : slot[fd][d] # NoOp =>
            /\ slot[fd][d] \in live /\ op[slot[fd][d]].kind = "readiness"
            /\ op[slot[fd][d]].fd = fd /\ op[slot[fd][d]].dir = d
      BY IndexFacts, Zenon
    <3> SUFFICES ASSUME NEW fd \in Fds, NEW d \in Dirs, slot'[fd][d] # NoOp
                 PROVE  /\ slot'[fd][d] \in live' /\ op'[slot'[fd][d]].kind = "readiness"
                        /\ op'[slot'[fd][d]].fd = fd /\ op'[slot'[fd][d]].dir = d
      BY ZenonT(40)
    <3>2. CASE fd = r.fd /\ d = r.dir
      BY <2>1, <2>3, <2>5, <3>2, ZenonT(40)
    <3>3. CASE ~(fd = r.fd /\ d = r.dir)
      <4>1. slot'[fd][d] = slot[fd][d]
        BY <2>3, <3>3, Zenon
      <4>2. slot[fd][d] \in Ids /\ slot[fd][d] # i /\ slot[fd][d] # NoOp
        BY <2>6, <4>1
      <4>3. op'[slot[fd][d]] = op[slot[fd][d]] /\ slot[fd][d] \in live'
        BY <2>5, <3>1, <4>2, Zenon
      <4> QED  BY <3>1, <4>1, <4>2, <4>3
    <3> QED  BY <3>2, <3>3, Zenon
  <2>8. (\A j \in Ids : j \in armed <=> \E fd \in Fds, d \in Dirs : slot[fd][d] = j)'
    <3> SUFFICES ASSUME NEW j \in Ids
                 PROVE  j \in armed' <=> \E fd \in Fds, d \in Dirs : slot'[fd][d] = j
      OBVIOUS
    <3>1. j # NoOp
      BY DEF Ids
    <3>2. j \in armed <=> \E fd \in Fds, d \in Dirs : slot[fd][d] = j
      BY IndexFacts, Zenon
    <3>3. slot'[r.fd][r.dir] = i
      BY <2>1, <2>3, Zenon
    <3>4. j # i => \A fd \in Fds, d \in Dirs : slot'[fd][d] = j <=> slot[fd][d] = j
      BY <2>2, <2>3, <3>1
    <3> QED  BY <2>1, <2>4, <3>2, <3>3, <3>4
  <2> QED  BY <2>5, <2>7, <2>8, Zenon DEF IndicesSound
<1>3. ASSUME ArmRefused
      PROVE  Fresh' /\ IndicesSound'
  <2>1. arming.id \in live /\ Unlink(arming.id) /\ UNCHANGED <<op, nextId>>
    BY <1>3, Zenon DEF ArmRefused, ArmingSound
  <2>2. IndicesSound'
    BY <2>1, UnlinkIndices, SMTT(40)
  <2> QED  BY <2>1, <2>2, SMTT(40) DEF Fresh, Unlink
<1>4. ASSUME NEW r \in SleepRequests, AddTimer(r)
      PROVE  Fresh' /\ IndicesSound'
  <2> DEFINE i == nextId + 1
  <2>1. r \in OpType /\ r.kind = "timer" /\ Record(r) /\ nextId < MaxOps /\ UNCHANGED <<armed, slot>>
    BY <1>4, RequestTypes, ZenonT(40) DEF AddTimer, Admitted, Sleeps
  <2>2. /\ Fresh' /\ i \in Ids /\ i \notin live /\ live' = live \cup {i}
        /\ \A j \in Ids : j # i => op'[j] = op[j]
        /\ \A u \in timers' : u.id \in live' /\ u \in TimersOf(u.id, op'[u.id])
    BY <1>1, <2>1, ZenonT(40)
  <2> HIDE DEF i
  <2>3. \A fd \in Fds, d \in Dirs : slot[fd][d] # NoOp =>
          slot[fd][d] \in Ids /\ slot[fd][d] # i
    <3>1. live \subseteq Ids
      BY Zenon DEF TypeOK
    <3>2. \A fd \in Fds, d \in Dirs : slot[fd][d] # NoOp => slot[fd][d] \in live
      BY IndexFacts, Zenon
    <3> QED  BY <2>2, <3>1, <3>2, ZenonT(40)
  <2>4. (\A fd \in Fds, d \in Dirs : slot[fd][d] # NoOp =>
          /\ slot[fd][d] \in live /\ op[slot[fd][d]].kind = "readiness"
          /\ op[slot[fd][d]].fd = fd /\ op[slot[fd][d]].dir = d)'
    <3>1. \A fd \in Fds, d \in Dirs : slot[fd][d] # NoOp =>
            /\ slot[fd][d] \in live /\ op[slot[fd][d]].kind = "readiness"
            /\ op[slot[fd][d]].fd = fd /\ op[slot[fd][d]].dir = d
      BY IndexFacts, ZenonT(40)
    <3>2. ASSUME NEW fd \in Fds, NEW d \in Dirs, slot[fd][d] # NoOp
          PROVE  /\ slot[fd][d] \in live' /\ op'[slot[fd][d]].kind = "readiness"
                 /\ op'[slot[fd][d]].fd = fd /\ op'[slot[fd][d]].dir = d
      <4>1. op'[slot[fd][d]] = op[slot[fd][d]]
        BY <2>2, <2>3, <3>2, Zenon
      <4>2. slot[fd][d] \in live'
        BY <2>2, <3>1, <3>2, Zenon
      <4> QED  BY <3>1, <3>2, <4>1, <4>2
    <3>3. slot' = slot
      BY <2>1
    <3> QED  BY <3>2, <3>3
  <2>5. (\A j \in Ids : j \in armed <=> \E fd \in Fds, d \in Dirs : slot[fd][d] = j)'
    <3>1. \A j \in Ids : j \in armed <=> \E fd \in Fds, d \in Dirs : slot[fd][d] = j
      BY IndexFacts, Zenon
    <3> QED  BY <2>1, <3>1, ZenonT(40)
  <2> QED  BY <2>2, <2>4, <2>5, Zenon DEF IndicesSound
<1>5. ASSUME UNCHANGED table
      PROVE  Fresh' /\ IndicesSound'
  BY <1>5, IndicesFrame
<1>6. ASSUME NEW fd \in Fds, NEW isClose \in BOOLEAN, Detach(fd, isClose)
      PROVE  Fresh' /\ IndicesSound'
  <2>1. FailWaiters(fd, "cancelled") /\ UNCHANGED <<op, live, timers, nextId>>
    BY <1>6, ZenonT(40) DEF Detach
  <2>2. IndicesSound'
    BY <2>1, FailIndices, Zenon
  <2> QED  BY <2>1, <2>2, Zenon DEF Fresh
<1>7. CASE Poll
  <2>1. PICK report \in Reports : \E failed \in SUBSET MayFail(report) : \E last \in Dirs :
          Collect(report, failed, last)
    BY <1>7, SMTT(40) DEF Poll
  <2>2. PICK failed \in SUBSET Fds, last \in Dirs : Collect(report, failed, last)
    BY <2>1, Zenon DEF MayFail
  <2> DEFINE cleared == {x \in Fds \X Dirs : x[2] \in Taken(report, failed, x[1])}
  <2>3. \A g \in Fds, d \in Dirs : slot'[g][d] = IF <<g, d>> \in cleared THEN NoOp ELSE slot[g][d]
    BY <2>2, ZenonT(40) DEF Collect
  <2>4. \A g \in Fds : Taken(report, failed, g) \subseteq Dirs
    BY DEF Taken, Reports
  <2>5. Claimed(report, failed) = {i \in Ids : \E g \in Fds, d \in Dirs : <<g, d>> \in cleared /\ slot[g][d] = i}
    BY <2>4, ZenonT(40) DEF Claimed
  <2>6. armed' = armed \ {i \in Ids : \E g \in Fds, d \in Dirs : <<g, d>> \in cleared /\ slot[g][d] = i}
    BY <2>2, <2>5, ZenonT(40) DEF Collect
  <2>7. UNCHANGED <<op, live, nextId>> /\ timers' \subseteq timers
    BY <2>2, ZenonT(40) DEF Collect
  <2> HIDE DEF cleared
  <2>8. IndicesSound'
    BY <2>3, <2>6, <2>7, ClearedIndices, ZenonT(40)
  <2> QED  BY <2>7, <2>8 DEF Fresh
<1>8. CASE stack # <<>> /\ Deliver
  <2>1. ASSUME NEW r \in Top.rearm, RearmRefused(r)
        PROVE  Fresh' /\ IndicesSound'
    <3>1. r.fd \in Fds
      BY <1>8, StackFacts, ZenonT(40) DEF TypeOK, FrameType
    <3>2. FailWaiters(r.fd, "error") /\ UNCHANGED <<op, live, timers, nextId>>
      BY <2>1, ZenonT(40) DEF RearmRefused
    <3>3. IndicesSound'
      BY <3>1, <3>2, FailIndices
    <3> QED  BY <3>2, <3>3, SMTT(40) DEF Fresh
  <2>2. ASSUME NEW e \in Top.todo, Finalize(e)
        PROVE  Fresh' /\ IndicesSound'
    <3>1. CASE e.id \in live
      <4>1. Unlink(e.id) /\ UNCHANGED <<op, nextId>>
        BY <2>2, <3>1 DEF Finalize
      <4>2. IndicesSound'
        BY <3>1, <4>1, UnlinkIndices
      <4> QED  BY <4>1, <4>2, ZenonT(40) DEF Fresh, Unlink
    <3>2. CASE e.id \notin live
      BY <1>5, <2>2, <3>2 DEF Finalize
    <3> QED  BY <3>1, <3>2
  <2>3. ASSUME NEW r \in Top.rearm, RearmAccepted(r)
        PROVE  Fresh' /\ IndicesSound'
    BY <1>5, <2>3 DEF RearmAccepted
  <2>4. CASE RunPosted
    BY <1>5, <2>4, SMTT(40) DEF RunPosted
  <2>5. CASE Return
    BY <1>5, <2>5, Zenon DEF Return
  <2> QED  BY <1>8, <2>1, <2>2, <2>3, <2>4, <2>5, ZenonT(40) DEF Deliver
<1>9. ASSUME ArmAccepted
      PROVE  Fresh' /\ IndicesSound'
  BY <1>5, <1>9, Zenon DEF ArmAccepted
<1>10. ASSUME NEW i \in Ids, RequestCancel(i)
       PROVE  Fresh' /\ IndicesSound'
  BY <1>5, <1>10, Zenon DEF RequestCancel
<1>11. ASSUME NEW fd \in Fds, Reopen(fd)
       PROVE  Fresh' /\ IndicesSound'
  BY <1>5, <1>11 DEF Reopen
<1>12. CASE Post \/ Tick \/ RunOnce \/ PollFails \/ Suspend \/ Shutdown \/ UNCHANGED vars
  <2>1. UNCHANGED table
    BY <1>12, ZenonT(40) DEF Post, Tick, RunOnce, PollFails, Suspend, Shutdown, vars
  <2> QED  BY <1>5, <2>1
<1> QED
  BY <1>2, <1>3, <1>4, <1>6, <1>7, <1>8, <1>9, <1>10, <1>11, <1>12, SMTT(40) DEF Next

-----------------------------------------------------------------------------
(* No suspended coroutine is forgotten.                                    *)

\* A delivery of the stack s still has operation i to hand out.
Names(s, i) == \E k \in 1 .. Len(s) : \E e \in s[k].todo : e.id = i
NamedBy(f, i) == \E e \in f.todo : e.id = i

\* An index other than a delivery leads to operation i.
Indexed(i) ==
  \/ op[i].kind = "readiness" /\ slot[op[i].fd][op[i].dir] = i
  \/ op[i].kind = "timer" /\ [at |-> op[i].wake, id |-> i, cut |-> 0] \in timers

\* Once shutdown has begun, its own delivery holds whatever is still suspended.
DrainSound == closing => posted = 0 /\ \A i \in live : InDelivery(i)

\* Pushing a delivery adds exactly the operations that delivery names.
LEMMA NamesAppend ==
  ASSUME NEW s \in Seq(FrameType), NEW f \in FrameType, NEW i
  PROVE  Names(Append(s, f), i) <=> Names(s, i) \/ NamedBy(f, i)
<1>1. Len(s) \in Nat /\ Len(Append(s, f)) = Len(s) + 1 /\ Append(s, f)[Len(s) + 1] = f
  OBVIOUS
<1>2. \A k \in 1 .. Len(s) : Append(s, f)[k] = s[k]
  OBVIOUS
<1>3. 1 .. Len(s) + 1 = (1 .. Len(s)) \cup {Len(s) + 1}
  BY <1>1
<1> QED  BY <1>1, <1>2, <1>3 DEF Names, NamedBy

\* The operations a stack names are those of its innermost delivery and the rest.
LEMMA NamesTop ==
  ASSUME stack \in Seq(FrameType), stack # <<>>, NEW i
  PROVE  /\ Names(stack, i) <=> Names(Pop, i) \/ NamedBy(Top, i)
         /\ \A f \in FrameType : Names(SetTop(f), i) <=> Names(Pop, i) \/ NamedBy(f, i)
<1> DEFINE n == Len(stack)
<1>1. n \in Nat \ {0} /\ Len(Pop) = n - 1 /\ \A k \in 1 .. n - 1 : Pop[k] = stack[k]
  BY StackFacts
<1>2. \A f \in FrameType : Len(SetTop(f)) = n /\ \A k \in 1 .. n : SetTop(f)[k] = IF k = n THEN f ELSE stack[k]
  BY StackFacts
<1>3. 1 .. n = (1 .. n - 1) \cup {n} /\ n \notin 1 .. n - 1
  BY <1>1
<1>4. Top = stack[n]
  BY DEF Top
<1> HIDE DEF n
<1>5. Names(stack, i) <=> Names(Pop, i) \/ NamedBy(Top, i)
  BY <1>1, <1>3, <1>4, Zenon DEF Names, NamedBy, n
<1>6. ASSUME NEW f \in FrameType
      PROVE  Names(SetTop(f), i) <=> Names(Pop, i) \/ NamedBy(f, i)
  <2>1. Len(SetTop(f)) = n /\ SetTop(f)[n] = f /\ \A k \in 1 .. n - 1 : SetTop(f)[k] = Pop[k]
    BY <1>1, <1>2, <1>3, Zenon
  <2> QED  BY <1>1, <1>3, <2>1, ZenonT(40) DEF Names, NamedBy
<1> QED  BY <1>5, <1>6

\* A new loop has nobody to forget.
LEMMA ForgottenInit == Init => NoneForgotten /\ DrainSound
  BY SMTT(40) DEF Init, NoneForgotten, DrainSound

\* unlink disturbs no index of another operation.
LEMMA UnlinkKeeps ==
  ASSUME TypeOK, NEW i \in live, Unlink(i), UNCHANGED op
  PROVE  \A j \in live' : j \in live /\ j # i /\ (Indexed(j) => Indexed(j)')
<1> SUFFICES ASSUME NEW j \in live' PROVE j \in live /\ j # i /\ (Indexed(j) => Indexed(j)')
  OBVIOUS
<1>1. j \in live /\ j # i
  BY Zenon DEF Unlink
<1>2. \A fd, d : slot[fd][d] = j => slot'[fd][d] = j
  <2>1. slot \in SlotType
    BY Zenon DEF TypeOK
  <2>2. slot' = slot \/ (slot[op[i].fd][op[i].dir] = i /\ slot' = [slot EXCEPT ![op[i].fd][op[i].dir] = NoOp])
    BY DEF Unlink, SlotsWithout
  <2>3. CASE slot' = slot
    BY <2>3, Zenon
  <2>4. CASE slot[op[i].fd][op[i].dir] = i /\ slot' = [slot EXCEPT ![op[i].fd][op[i].dir] = NoOp]
    BY <1>1, <2>1, <2>4 DEF SlotType
  <2> QED  BY <2>2, <2>3, <2>4, Zenon
<1>3. \A t \in timers : t.id = j => t \in timers'
  BY <1>1, Zenon DEF Unlink
<1> QED  BY <1>1, <1>2, <1>3, Zenon DEF Indexed

\* Whatever leaves an index is resolved in the same step or collected into a
\* delivery, and a destructor that has started leaves everything in one.
LEMMA ForgottenStep ==
  TypeOK /\ ControlSound /\ ArmingSound /\ Fresh /\ IndicesSound /\ NoneForgotten /\ DrainSound
    /\ [Next]_vars => NoneForgotten' /\ DrainSound'
<1> SUFFICES ASSUME TypeOK, ControlSound, ArmingSound, Fresh, IndicesSound, NoneForgotten, DrainSound,
                    [Next]_vars
             PROVE  NoneForgotten' /\ DrainSound'
  BY SMTT(40)
<1> USE DEF table, tokens, queues, kernel, control, results
<1>1. \A i \in live : Names(stack, i) \/ Indexed(i)
  BY Zenon DEF NoneForgotten, InDelivery, Names, Indexed
<1>2. ASSUME \A i \in live' : Names(stack', i) \/ Indexed(i)',
             closing' => posted' = 0 /\ \A i \in live' : Names(stack', i)
      PROVE  NoneForgotten' /\ DrainSound'
  BY <1>2, Zenon DEF NoneForgotten, DrainSound, InDelivery, Names, Indexed
<1>3. ASSUME live' \subseteq live, UNCHANGED <<closing, posted>>,
             \A i \in live' : Names(stack, i) => Names(stack', i),
             \A i \in live' : Indexed(i) => Indexed(i)' \/ Names(stack', i)
      PROVE  NoneForgotten' /\ DrainSound'
  <2>1. closing => \A i \in live : Names(stack, i)
    BY SMTT(40) DEF DrainSound, InDelivery, Names
  <2> QED  BY <1>1, <1>2, <1>3, <2>1, Zenon DEF DrainSound
<1>4. ASSUME UNCHANGED <<op, live, slot, timers, stack, closing>>, closing' => posted' = posted
      PROVE  NoneForgotten' /\ DrainSound'
  BY <1>4, Zenon DEF NoneForgotten, DrainSound, InDelivery
<1>5. ASSUME NEW r \in WaitRequests, AddWaiter(r)
      PROVE  NoneForgotten' /\ DrainSound'
  <2>1. r \in OpType /\ r.kind = "readiness" /\ r.fd \in Fds /\ r.dir \in Dirs
    BY RequestTypes, Zenon DEF Waits
  <2>2. Record(r) /\ nextId < MaxOps /\ slot[r.fd][r.dir] = NoOp /\ ~closing
    BY <1>5, SMTT(40) DEF AddWaiter, Admitted
  <2>3. PICK i \in Ids : i = nextId + 1
    BY <2>1, <2>2, RecordTypes, Zenon
  <2> slot \in [Fds -> [Dirs -> Ids \cup {NoOp}]] /\ op \in [Ids -> OpType]
    BY DEF TypeOK, SlotType, OpType
  <2>8. slot' = [slot EXCEPT ![r.fd][r.dir] = i]
    BY <1>5, <2>3, Zenon DEF AddWaiter
  <2>9. op' = [op EXCEPT ![i] = r] /\ live' = live \cup {i} /\ timers \subseteq timers'
    BY <2>2, <2>3 DEF Record
  <2>4. slot'[r.fd][r.dir] = i /\ op'[i] = r /\ live' = live \cup {i} /\ timers \subseteq timers'
    BY <2>1, <2>8, <2>9, ZenonT(40)
  <2>5. UNCHANGED <<stack, closing>>
    BY <1>5 DEF AddWaiter
  <2>6. ASSUME NEW j \in live, j # i PROVE Indexed(j) => Indexed(j)'
    <3>1. j \in Ids /\ j # NoOp
      BY DEF TypeOK, Ids
    <3>2. op'[j] = op[j] /\ op[j].dir \in Dirs
      BY <2>6, <2>9, <3>1, Zenon DEF OpType
    <3>3. \A fd \in Fds, d \in Dirs : slot[fd][d] = j => slot'[fd][d] = j
      BY <2>1, <2>2, <2>8, <3>1
    <3>4. op[j].kind = "readiness" => op[j].fd \in Fds
      BY DEF Fresh
    <3> QED  BY <2>4, <3>2, <3>3, <3>4, ZenonT(40) DEF Indexed
  <2>7. Indexed(i)'
    BY <2>1, <2>4, ZenonT(40) DEF Indexed
  <2> QED  BY <1>1, <1>2, <2>2, <2>4, <2>5, <2>6, <2>7, ZenonT(40)
<1>6. ASSUME NEW r \in SleepRequests, AddTimer(r)
      PROVE  NoneForgotten' /\ DrainSound'
  <2>1. r \in OpType /\ r.kind = "timer" /\ r.wake # Never
    BY RequestTypes, ZenonT(40) DEF Sleeps
  <2>2. Record(r) /\ nextId < MaxOps /\ ~closing /\ UNCHANGED <<slot, stack, closing>>
    BY <1>6 DEF AddTimer, Admitted
  <2>3. PICK i \in Ids : i = nextId + 1
    BY <2>1, <2>2, RecordTypes, Zenon
  <2>4. op'[i] = r /\ live' = live \cup {i} /\ timers' = timers \cup TimersOf(i, r)
    BY <2>2, <2>3, SMTT(40) DEF Record, TypeOK
  <2>5. ASSUME NEW j \in live, j # i PROVE Indexed(j) => Indexed(j)'
    <3>1. op'[j] = op[j]
      BY <2>2, <2>3, <2>5, SMTT(40) DEF Record, TypeOK
    <3> QED  BY <2>2, <2>4, <3>1, Zenon DEF Indexed
  <2>6. Indexed(i)'
    BY <2>1, <2>4, Zenon DEF Indexed, TimersOf
  <2> QED  BY <1>1, <1>2, <2>2, <2>4, <2>5, <2>6
<1>7. ASSUME ArmRefused
      PROVE  NoneForgotten' /\ DrainSound'
  <2>1. arming.id \in live /\ Unlink(arming.id) /\ UNCHANGED <<op, stack, closing, posted>>
    BY <1>7, Zenon DEF ArmRefused, ArmingSound
  <2>2. \A j \in live' : j \in live /\ (Indexed(j) => Indexed(j)')
    BY <2>1, UnlinkKeeps, SMTT(40)
  <2> QED  BY <1>3, <2>1, <2>2, Zenon
<1>8. ASSUME NEW fd \in Fds, NEW out \in {"cancelled", "error"}, NEW s \in Seq(FrameType),
             NEW f \in FrameType, f.todo = Broken(fd, out),
             \A i \in live : Names(s, i) <=> Names(stack, i),
             stack' = Append(s, f), FailWaiters(fd, out), UNCHANGED <<op, live, timers, closing, posted>>
      PROVE  NoneForgotten' /\ DrainSound'
  <2>1. \A i \in live : Names(stack', i) <=> Names(stack, i) \/ NamedBy(f, i)
    BY <1>8, NamesAppend, ZenonT(40)
  <2>2. ASSUME NEW i \in live, Indexed(i) PROVE Indexed(i)' \/ NamedBy(f, i)
    <3>1. i # NoOp /\ i \in Ids /\ op[i] \in OpType
      <4>1. i \in Ids
        BY Zenon DEF TypeOK
      <4>2. op \in [Ids -> OpType]
        BY DEF TypeOK, OpType
      <4> QED  BY <4>1, <4>2, SMTT(40) DEF Ids
    <3>2. CASE op[i].kind = "timer"
      BY <1>8, <2>2, <3>2, ZenonT(40) DEF Indexed
    <3>3. CASE op[i].kind = "readiness" /\ op[i].fd = fd
      <4>1. op[i].dir \in Dirs /\ slot[fd][op[i].dir] = i
        BY <2>2, <3>1, <3>3, ZenonT(40) DEF OpType, Indexed
      <4>2. Entry(i, Cancelled, 0, 0, out) \in Broken(fd, out) /\ Entry(i, Cancelled, 0, 0, out).id = i
        BY <3>1, <4>1, ZenonT(40) DEF Broken, Entry
      <4> QED  BY <1>8, <4>2, ZenonT(40) DEF NamedBy
    <3>4. CASE op[i].kind = "readiness" /\ op[i].fd # fd
      <4>1. slot \in SlotType
        BY DEF TypeOK
      <4>2. slot' = [slot EXCEPT ![fd] = [d \in Dirs |-> NoOp]] /\ op' = op
        BY <1>8, Zenon DEF FailWaiters
      <4>3. slot'[op[i].fd] = slot[op[i].fd]
        BY <3>4, <4>1, <4>2 DEF SlotType
      <4> QED  BY <2>2, <3>4, <4>2, <4>3, Zenon DEF Indexed
    <3>5. op[i].kind = "timer" \/ op[i].kind = "readiness"
      BY <3>1 DEF OpType
    <3> QED  BY <3>2, <3>3, <3>4, <3>5, Zenon
  <2> QED  BY <1>3, <1>8, <2>1, <2>2, Zenon
<1>9. ASSUME NEW fd \in Fds, NEW isClose \in BOOLEAN, Detach(fd, isClose)
      PROVE  NoneForgotten' /\ DrainSound'
  <2> DEFINE f == Frame(Broken(fd, "cancelled"), {}, 0, IF isClose THEN fd ELSE NoFd, "user")
  <2>1. f \in FrameType /\ f.todo = Broken(fd, "cancelled")
    BY FrameTypes, ZenonT(40) DEF Frame
  <2>2. stack' = Append(stack, f) /\ FailWaiters(fd, "cancelled") /\ UNCHANGED <<op, live, timers, closing, posted>>
    BY <1>9, ZenonT(40) DEF Detach
  <2> HIDE DEF f
  <2> QED  BY <1>8, <2>1, <2>2, ZenonT(40) DEF TypeOK
<1>10. CASE Poll
  <2>1. PICK report \in Reports : \E failed \in SUBSET MayFail(report) : \E last \in Dirs :
          Collect(report, failed, last)
    BY <1>10, Zenon DEF Poll
  <2>2. PICK failed \in SUBSET Fds, last \in Dirs : Collect(report, failed, last)
    BY <2>1, Zenon DEF MayFail
  <2> DEFINE f == Frame(Batch(Claimed(report, failed)), ToRearm(report, failed, last), posted, NoFd, "user")
  <2>3. f.todo = Batch(Claimed(report, failed))
    BY DEF Frame
  <2>4. stack' = <<f>> /\ stack = <<>> /\ ~closing /\ UNCHANGED <<op, live, closing>>
    BY <2>2, ZenonT(40) DEF Collect, ControlSound
  <2> HIDE DEF f
  <2>5. \A i : ~Names(stack, i) /\ (NamedBy(f, i) => Names(stack', i))
    BY <2>4, SMTT(40) DEF Names, NamedBy
  <2>6. ASSUME NEW i \in live, Indexed(i) PROVE Indexed(i)' \/ NamedBy(f, i)
    <3>1. i # NoOp /\ i \in Ids /\ op[i] \in OpType
      <4>1. i \in Ids /\ op \in [Ids -> OpType]
        BY Zenon DEF TypeOK, OpType
      <4> QED  BY <4>1 DEF Ids, NoOp
    <3>2. CASE op[i].kind = "timer"
      <4> DEFINE t == [at |-> op[i].wake, id |-> i, cut |-> 0]
      <4>1. t \in timers
        BY <2>6, <3>2, SMTT(40) DEF Indexed
      <4>2. CASE t \in Expired
        <5>1. Entry(t.id, Expiry, t.at, t.cut, IF t.cut = 1 THEN "timed_out" ELSE "ok") \in f.todo
          BY <2>3, <4>2, ZenonT(40) DEF Batch
        <5> QED  BY <5>1, Zenon DEF NamedBy, Entry
      <4>3. CASE t \notin Expired
        <5>1. t \in timers'
          BY <2>2, <4>1, <4>3, ZenonT(40) DEF Collect
        <5> QED  BY <2>4, <3>2, <5>1, ZenonT(40) DEF Indexed
      <4> QED  BY <4>2, <4>3, Zenon
    <3>3. CASE op[i].kind = "readiness"
      <4>1. slot[op[i].fd][op[i].dir] = i
        BY <2>6, <3>3, ZenonT(40) DEF Indexed
      <4>2. op[i].fd \in Fds /\ op[i].dir \in Dirs
        BY <3>1, <3>3, Zenon DEF OpType, Fresh
      <4>3. CASE op[i].dir \in Taken(report, failed, op[i].fd)
        <5>1. i \in Claimed(report, failed)
          BY <3>1, <4>1, <4>2, <4>3, Zenon DEF Claimed
        <5>2. Entry(i, Completion, 0, 0, "ok") \in f.todo
          BY <2>3, <5>1, ZenonT(40) DEF Batch
        <5> QED  BY <5>2, Zenon DEF NamedBy, Entry
      <4>4. CASE op[i].dir \notin Taken(report, failed, op[i].fd)
        <5>1. slot'[op[i].fd][op[i].dir] = i
          BY <2>2, <4>1, <4>2, <4>4, ZenonT(40) DEF Collect
        <5> QED  BY <2>4, <3>3, <5>1, ZenonT(40) DEF Indexed
      <4> QED  BY <4>3, <4>4, SMTT(40)
    <3> QED  BY <3>1, <3>2, <3>3, Zenon DEF OpType
  <2> QED  BY <1>1, <1>2, <2>4, <2>5, <2>6
<1>11. CASE stack # <<>> /\ Deliver
  <2> USE <1>11
  <2>1. stack \in Seq(FrameType) /\ Top \in FrameType
    BY StackFacts, SMTT(40) DEF TypeOK
  <2>2. ASSUME NEW f \in FrameType, f.todo = Top.todo, NEW i
        PROVE  Names(SetTop(f), i) <=> Names(stack, i)
    BY <2>1, <2>2, NamesTop, Zenon DEF NamedBy
  <2>3. ASSUME NEW r \in Top.rearm, RearmAccepted(r)
        PROVE  NoneForgotten' /\ DrainSound'
    <3>1. [Top EXCEPT !.rearm = @ \ {r}] \in FrameType /\ [Top EXCEPT !.rearm = @ \ {r}].todo = Top.todo
      BY <2>1, Zenon DEF FrameType
    <3>2. \A i : Names(stack', i) <=> Names(stack, i)
      BY <2>2, <2>3, <3>1, ZenonT(40) DEF RearmAccepted
    <3>3. UNCHANGED <<op, live, slot, timers, closing, posted>>
      BY <2>3 DEF RearmAccepted
    <3> QED  BY <1>3, <3>2, <3>3, ZenonT(40) DEF Indexed
  <2>4. ASSUME NEW r \in Top.rearm, RearmRefused(r)
        PROVE  NoneForgotten' /\ DrainSound'
    <3> DEFINE g == [Top EXCEPT !.rearm = @ \ {r}]
               h == Frame(Broken(r.fd, "error"), {}, 0, NoFd, "deliver")
    <3>1. r.fd \in Fds /\ g \in FrameType /\ g.todo = Top.todo
      BY <2>1, ZenonT(40) DEF FrameType
    <3>2. h \in FrameType /\ h.todo = Broken(r.fd, "error")
      BY <3>1, FrameTypes, ZenonT(40) DEF Frame
    <3>3. /\ stack' = Append(SetTop(g), h) /\ FailWaiters(r.fd, "error")
          /\ UNCHANGED <<op, live, timers, closing, posted>>
      BY <2>4, Zenon DEF RearmRefused
    <3> HIDE DEF g, h
    <3>4. SetTop(g) \in Seq(FrameType) /\ \A i \in live : Names(SetTop(g), i) <=> Names(stack, i)
      BY <2>1, <2>2, <3>1, StackFacts, Zenon
    <3> QED  BY <1>8, <3>1, <3>2, <3>3, <3>4, ZenonT(40)
  <2>5. ASSUME NEW e \in Top.todo, Finalize(e)
        PROVE  NoneForgotten' /\ DrainSound'
    <3> DEFINE g == [Top EXCEPT !.todo = @ \ {e}]
    <3>1. g \in FrameType /\ g.todo = Top.todo \ {e}
      BY <2>1 DEF FrameType
    <3>2. stack' = SetTop(g) /\ UNCHANGED <<op, closing, posted>>
      BY <2>5, ZenonT(40) DEF Finalize
    <3> HIDE DEF g
    <3>3. \A i : i # e.id /\ Names(stack, i) => Names(stack', i)
      BY <2>1, <3>1, <3>2, NamesTop, SMTT(40) DEF NamedBy
    <3>4. CASE e.id \in live
      <4>1. \A j \in live' : j \in live /\ j # e.id /\ (Indexed(j) => Indexed(j)')
        BY <2>5, <3>4, UnlinkKeeps DEF Finalize
      <4> QED  BY <1>3, <3>2, <3>3, <4>1, Zenon
    <3>5. CASE e.id \notin live
      <4>1. UNCHANGED <<live, slot, timers>>
        BY <2>5, <3>5 DEF Finalize
      <4> QED  BY <1>3, <3>2, <3>3, <3>5, <4>1, ZenonT(40) DEF Indexed
    <3> QED  BY <3>4, <3>5
  <2>6. CASE RunPosted
    <3>1. Top.work \in 0 .. MaxPosted /\ Top.work > 0
      BY <2>1, <2>6 DEF FrameType, RunPosted
    <3>2. Top.work - 1 \in 0 .. MaxPosted
      BY <3>1, BoundsAssumption
    <3>3. [Top EXCEPT !.work = @ - 1] \in FrameType /\ [Top EXCEPT !.work = @ - 1].todo = Top.todo
      BY <2>1, <3>2, Zenon DEF FrameType
    <3>4. \A i : Names(stack', i) <=> Names(stack, i)
      BY <2>2, <2>6, <3>3, ZenonT(40) DEF RunPosted
    <3>5. UNCHANGED <<op, live, slot, timers, closing, posted>>
      BY <2>6 DEF RunPosted
    <3> QED  BY <1>3, <3>4, <3>5, ZenonT(40) DEF Indexed
  <2>7. CASE Return
    <3>1. Top.todo = {} /\ stack' = Pop /\ UNCHANGED <<op, live, slot, timers, closing, posted>>
      BY <2>7, ZenonT(40) DEF Return
    <3>2. \A i : Names(stack, i) => Names(stack', i)
      BY <2>1, <3>1, NamesTop, SMTT(40) DEF NamedBy
    <3> QED  BY <1>3, <3>1, <3>2, Zenon DEF Indexed
  <2> QED  BY <2>3, <2>4, <2>5, <2>6, <2>7, Zenon DEF Deliver
<1>12. CASE Shutdown
  <2> DEFINE f == Frame({Entry(i, Cancelled, 0, 0, "cancelled") : i \in live}, {}, 0, NoFd, "user")
  <2>1. stack' = <<f>> /\ posted' = 0 /\ live' = live
    BY <1>12 DEF Shutdown
  <2>2. ASSUME NEW i \in live PROVE NamedBy(f, i)
    <3>1. Entry(i, Cancelled, 0, 0, "cancelled") \in f.todo
      BY Zenon DEF Frame
    <3>2. Entry(i, Cancelled, 0, 0, "cancelled").id = i
      BY DEF Entry
    <3> QED  BY <3>1, <3>2, ZenonT(40) DEF NamedBy
  <2> HIDE DEF f
  <2>3. \A i \in live' : Names(stack', i)
    BY <2>1, <2>2 DEF Names, NamedBy
  <2> QED  BY <1>2, <2>1, <2>3, Zenon
<1>13. ASSUME ArmAccepted
       PROVE  NoneForgotten' /\ DrainSound'
  BY <1>4, <1>13, ZenonT(40) DEF ArmAccepted
<1>14. ASSUME NEW i \in Ids, RequestCancel(i)
       PROVE  NoneForgotten' /\ DrainSound'
  BY <1>4, <1>14, Zenon DEF RequestCancel
<1>15. ASSUME NEW fd \in Fds, Reopen(fd)
       PROVE  NoneForgotten' /\ DrainSound'
  BY <1>4, <1>15 DEF Reopen
<1>16. CASE Post \/ Tick \/ RunOnce \/ PollFails \/ Suspend \/ UNCHANGED vars
  <2>1. CASE Post
    <3>1. UNCHANGED <<op, live, slot, timers, stack, closing>> /\ ~closing
      BY <2>1 DEF Post
    <3> QED  BY <1>4, <3>1, Zenon
  <2>2. CASE Tick \/ RunOnce \/ PollFails \/ Suspend \/ UNCHANGED vars
    <3>1. UNCHANGED <<op, live, slot, timers, stack, closing, posted>>
      BY <2>2, ZenonT(40) DEF Tick, RunOnce, PollFails, Suspend, vars
    <3> QED  BY <1>4, <3>1
  <2> QED  BY <1>16, <2>1, <2>2
<1> QED
  BY <1>5, <1>6, <1>7, <1>9, <1>10, <1>11, <1>12, <1>13, <1>14, <1>15, <1>16, SMTT(40) DEF Next

\* The invariant the safety theorems rest on.
TableInv == TypeOK /\ ControlSound /\ ArmingSound /\ Fresh /\ IndicesSound /\ NoneForgotten /\ DrainSound

\* The inductive invariant of the operation table.
LEMMA TableInvariant == Spec => []TableInv
<1>1. Init => TableInv
  BY TypeInit, IndicesInit, ForgottenInit DEF TableInv
<1>2. TableInv /\ [Next]_vars => TableInv'
  BY TypeStep, ArmingStep, IndicesStep, ForgottenStep DEF TableInv
<1> QED  BY <1>1, <1>2, PTL DEF Spec

\* The descriptor slots, the timer queue and the `armed` flags always agree with
\* operations_, whatever is closed, cancelled or resubmitted inside a batch.
THEOREM IndicesAlwaysSound == Spec => []IndicesSound
  BY TableInvariant, PTL DEF TableInv

\* Every suspended coroutine can still be reached: no interleaving of closing,
\* cancelling, expiring and re-arming leaves a record nobody will resolve.
THEOREM NothingForgotten == Spec => []NoneForgotten
  BY TableInvariant, PTL DEF TableInv

\* When the destructor is done no coroutine is suspended on the loop, and no
\* timer or posted callable is left.
THEOREM ShutdownLeavesNothing == Spec => []ShutdownDrains
<1>1. TableInv => ShutdownDrains
  <2> SUFFICES ASSUME TableInv, closing, stack = <<>> PROVE live = {} /\ timers = {} /\ posted = 0
    BY DEF ShutdownDrains
  <2>1. \A i : ~InDelivery(i)
    BY DEF InDelivery
  <2>2. live = {} /\ posted = 0
    BY <2>1 DEF TableInv, DrainSound
  <2>3. timers = {}
    BY <2>2, ZenonT(40) DEF TableInv, IndicesSound
  <2> QED  BY <2>2, <2>3
<1> QED  BY <1>1, TableInvariant, PTL

\* The operation table of the POSIX loop is sound at every step, for any number of
\* descriptors, operations, threads and refused arms, and for either poller.
THEOREM TableAlwaysSound == Spec => []TableSound
  BY TypeCorrect, IndicesAlwaysSound, NothingForgotten, ShutdownLeavesNothing, PTL DEF TableSound

-----------------------------------------------------------------------------
(* The contract: every operation is answered at most once, and a          *)
(* cancellation or a timeout has its cause.                                *)

\* The refinement mapping of PosixLoop!Contract.
PhaseBar == [i \in Ids |-> IF answer[i] # "none" THEN answer[i]
                           ELSE IF i <= nextId THEN "pending" ELSE "unused"]
LateBar == {i \in Ids : i <= nextId /\ op[i].deadline <= now}

\* A result that is still to be handed out already has its cause.
Caused(e) ==
  /\ e.out = "cancelled" => e.id \in asked
  /\ e.out = "timed_out" => e.id <= nextId /\ op[e.id].deadline <= now

\* An operation in the table, or not yet submitted, has no answer.
Unanswered == \A i \in Ids : i \in live \/ nextId < i => answer[i] = "none"

CausesKnown ==
  /\ cancels \subseteq asked
  /\ \A k \in 1 .. Len(stack) : \A e \in stack[k].todo : Caused(e)

-----------------------------------------------------------------------------
(* Causes.                                                                 *)

\* Nothing takes a cause back.
LEMMA CausedStays ==
  ASSUME TypeOK, TypeOK', NEW e \in EntryType, Caused(e), asked \subseteq asked',
         now <= now', nextId <= nextId', \A i \in Ids : i <= nextId => op'[i] = op[i]
  PROVE  Caused(e)'
<1>1. e.id \in Ids
  BY ZenonT(40) DEF EntryType
<1>2. e.id <= nextId => op'[e.id].deadline = op[e.id].deadline /\ e.id <= nextId'
  <2>1. nextId \in 0 .. MaxOps /\ nextId' \in 0 .. MaxOps
    BY Zenon DEF TypeOK
  <2>2. e.id <= nextId => e.id <= nextId'
    BY <1>1, <2>1, BoundsAssumption DEF Ids
  <2>3. e.id <= nextId => op'[e.id] = op[e.id]
    BY <1>1, Zenon
  <2> QED  BY <2>2, <2>3, Zenon
<1>3. op[e.id].deadline \in Nat /\ now \in Nat /\ now' \in Nat
  BY <1>1, BoundsAssumption DEF TypeOK, Times
<1> QED  BY <1>2, <1>3 DEF Caused

\* Every batch, closed descriptor and shutdown has its causes.
LEMMA BatchCaused ==
  ASSUME TableInv, cancels \subseteq asked, NEW claimed
  PROVE  \A e \in Batch(claimed) : Caused(e)
<1> SUFFICES ASSUME NEW e \in Batch(claimed) PROVE Caused(e)
  BY Zenon
<1> USE DEF Entry
<1>1. CASE \E i \in claimed : e = Entry(i, Completion, 0, 0, "ok")
  BY <1>1 DEF Caused
<1>2. CASE \E t \in Expired : e = Entry(t.id, Expiry, t.at, t.cut, IF t.cut = 1 THEN "timed_out" ELSE "ok")
  <2>1. PICK t \in Expired : e = Entry(t.id, Expiry, t.at, t.cut, IF t.cut = 1 THEN "timed_out" ELSE "ok")
    BY <1>2
  <2>2. t \in timers /\ t.at <= now
    BY Zenon DEF Expired
  <2>3. t.id \in live /\ t \in TimersOf(t.id, op[t.id]) /\ t.id <= nextId
    BY <2>2, Zenon DEF TableInv, IndicesSound, Fresh
  <2>4. t.cut = 1 => t.at = op[t.id].deadline
    BY <2>3 DEF TimersOf
  <2> QED  BY <2>1, <2>2, <2>3, <2>4, Zenon DEF Caused
<1>3. CASE \E i \in cancels : e = Entry(i, Cancelled, 0, 0, "cancelled")
  <2>1. e.id \in cancels /\ e.out = "cancelled"
    BY <1>3
  <2>2. "cancelled" # "timed_out"
    BY Zenon
  <2> QED  BY <2>1, <2>2, Zenon DEF Caused
<1> QED  BY <1>1, <1>2, <1>3, Zenon DEF Batch

\* A new loop has answered nobody and collected nothing.
LEMMA CausesInit == Init => Unanswered /\ CausesKnown
  BY DEF Init, Unanswered, CausesKnown

\* Requests and time only accumulate, and a record is written once.
LEMMA Monotone ==
  TypeOK /\ [Next]_vars =>
    /\ asked \subseteq asked' /\ now <= now' /\ nextId <= nextId'
    /\ \A i \in Ids : i <= nextId => op'[i] = op[i]
<1> SUFFICES ASSUME TypeOK, [Next]_vars
             PROVE  /\ asked \subseteq asked' /\ now <= now' /\ nextId <= nextId'
                    /\ \A i \in Ids : i <= nextId => op'[i] = op[i]
  BY Zenon
<1> USE DEF table, tokens, queues, kernel, control, results
<1>1. nextId \in Nat /\ now \in Nat
  BY DEF TypeOK
<1>2. ASSUME UNCHANGED <<op, nextId, now>>, asked \subseteq asked'
      PROVE  /\ asked \subseteq asked' /\ now <= now' /\ nextId <= nextId'
             /\ \A i \in Ids : i <= nextId => op'[i] = op[i]
  BY <1>1, <1>2
<1>3. ASSUME NEW r, Record(r), UNCHANGED <<asked, now>>
      PROVE  /\ asked \subseteq asked' /\ now <= now' /\ nextId <= nextId'
             /\ \A i \in Ids : i <= nextId => op'[i] = op[i]
  BY <1>1, <1>3 DEF Record, TypeOK, Ids
<1>4. ASSUME NEW r \in WaitRequests, AddWaiter(r)
      PROVE  Record(r) /\ UNCHANGED <<asked, now>>
  BY <1>4 DEF AddWaiter
<1>5. ASSUME NEW r \in SleepRequests, AddTimer(r)
      PROVE  Record(r) /\ UNCHANGED <<asked, now>>
  BY <1>5, Zenon DEF AddTimer
<1>6. ASSUME ArmAccepted \/ ArmRefused
      PROVE  UNCHANGED <<op, nextId, now, asked>>
  BY <1>6, Zenon DEF ArmAccepted, ArmRefused
<1>7. ASSUME NEW i \in Ids, RequestCancel(i)
      PROVE  UNCHANGED <<op, nextId, now>> /\ asked \subseteq asked'
  BY <1>7, Zenon DEF RequestCancel
<1>8. ASSUME NEW fd \in Fds, NEW isClose \in BOOLEAN, Detach(fd, isClose)
      PROVE  UNCHANGED <<op, nextId, now>> /\ asked \subseteq asked'
  BY <1>8, Zenon DEF Detach, FailWaiters
<1>9. ASSUME NEW fd \in Fds, Reopen(fd)
      PROVE  UNCHANGED <<op, nextId, now, asked>>
  BY <1>9 DEF Reopen
<1>10. CASE Tick
  BY <1>1, <1>10 DEF Tick
<1>11. CASE Poll
  <2>1. \E report, failed, last : Collect(report, failed, last)
    BY <1>11, Zenon DEF Poll
  <2>2. UNCHANGED <<op, nextId, now, asked>>
    BY <2>1, Zenon DEF Collect
  <2> QED  BY <1>2, <2>2
<1>12. CASE Deliver
  <2>1. ASSUME NEW r \in Top.rearm, RearmAccepted(r) \/ RearmRefused(r)
        PROVE  UNCHANGED <<op, nextId, now>> /\ asked \subseteq asked'
    BY <2>1 DEF RearmAccepted, RearmRefused, FailWaiters
  <2>2. ASSUME NEW e \in Top.todo, Finalize(e)
        PROVE  UNCHANGED <<op, nextId, now, asked>>
    BY <2>2 DEF Finalize
  <2>3. ASSUME RunPosted \/ Return
        PROVE  UNCHANGED <<op, nextId, now, asked>>
    BY <2>3 DEF RunPosted, Return
  <2> QED  BY <1>2, <1>12, <2>1, <2>2, <2>3, Zenon DEF Deliver
<1>13. CASE Post \/ RunOnce \/ PollFails \/ Suspend \/ Shutdown \/ UNCHANGED vars
  <2>1. UNCHANGED <<op, nextId, now>> /\ asked \subseteq asked'
    BY <1>13, Zenon DEF Post, RunOnce, PollFails, Suspend, Shutdown, vars
  <2> QED  BY <1>2, <2>1, Zenon
<1> QED
  BY <1>2, <1>3, <1>4, <1>5, <1>6, <1>7, <1>8, <1>9, <1>10, <1>11, <1>12, <1>13, Zenon DEF Next

\* poll, close and the destructor collect only verdicts that have a cause, and
\* delivering the rest of a batch keeps it so.
LEMMA CausesStep ==
  TableInv /\ TableInv' /\ CausesKnown /\ [Next]_vars => CausesKnown'
<1> SUFFICES ASSUME TableInv, TableInv', CausesKnown, [Next]_vars PROVE CausesKnown'
  OBVIOUS
<1> USE DEF table, tokens, queues, kernel, control, results
<1> DEFINE Fine(f) == \A e \in f.todo : Caused(e)'
<1>1. TypeOK /\ TypeOK' /\ stack \in Seq(FrameType) /\ asked \subseteq asked'
  BY Monotone, ZenonT(40) DEF TableInv, TypeOK
<1>2. \A e \in EntryType : Caused(e) => Caused(e)'
  BY <1>1, CausedStays, Monotone, Zenon
<1>3. \A k \in 1 .. Len(stack) : Fine(stack[k])
  <2>1. \A k \in 1 .. Len(stack) : \A e \in stack[k].todo : e \in EntryType
    <3> SUFFICES ASSUME NEW k \in 1 .. Len(stack) PROVE \A e \in stack[k].todo : e \in EntryType
      OBVIOUS
    <3>1. stack[k] \in FrameType
      BY <1>1
    <3> QED  BY <3>1, Zenon DEF FrameType
  <2> QED  BY <1>2, <2>1, Zenon DEF CausesKnown
<1> HIDE DEF Fine
<1>4. ASSUME cancels' \subseteq asked', \A k \in 1 .. Len(stack') : Fine(stack'[k])
      PROVE  CausesKnown'
  BY <1>4, Zenon DEF CausesKnown, Fine
<1>5. ASSUME UNCHANGED <<cancels, stack>> PROVE CausesKnown'
  BY <1>1, <1>3, <1>4, <1>5, Zenon DEF CausesKnown
<1>6. ASSUME NEW s \in Seq(FrameType), NEW f \in FrameType, stack' = Append(s, f), cancels' = cancels,
             \A k \in 1 .. Len(s) : Fine(s[k]), Fine(f)
      PROVE  CausesKnown'
  <2>1. /\ Len(s) \in Nat /\ Len(stack') = Len(s) + 1 /\ stack'[Len(s) + 1] = f
        /\ \A k \in 1 .. Len(s) : stack'[k] = s[k]
    BY <1>6
  <2>2. \A k \in 1 .. Len(stack') : k \in 1 .. Len(s) \/ k = Len(s) + 1
    BY <2>1
  <2>3. \A k \in 1 .. Len(stack') : Fine(stack'[k])
    BY <1>6, <2>1, <2>2, ZenonT(40)
  <2> QED  BY <1>1, <1>4, <1>6, <2>3, Zenon DEF CausesKnown
<1>7. ASSUME NEW fd \in Fds, NEW isClose \in BOOLEAN, Detach(fd, isClose)
      PROVE  CausesKnown'
  <2> DEFINE f == Frame(Broken(fd, "cancelled"), {}, 0, IF isClose THEN fd ELSE NoFd, "user")
  <2>1. f \in FrameType /\ f.todo = Broken(fd, "cancelled")
    BY <1>1, FrameTypes, ZenonT(40) DEF Frame
  <2>2. stack' = Append(stack, f) /\ cancels' = cancels
    BY <1>7, ZenonT(40) DEF Detach
  <2> HIDE DEF f
  <2>3. \A e \in Broken(fd, "cancelled") : e.id \in asked' /\ e.out = "cancelled"
    BY <1>7 DEF Detach, FailWaiters, Broken, Entry
  <2>4. Fine(f)
    BY <2>1, <2>3 DEF Fine, Caused
  <2> QED  BY <1>1, <1>3, <1>6, <2>1, <2>2, <2>4, SMTT(40)
<1>8. CASE Poll
  <2>1. PICK report, failed, last : Collect(report, failed, last)
    BY <1>8, Zenon DEF Poll
  <2> DEFINE f == Frame(Batch(Claimed(report, failed)), ToRearm(report, failed, last), posted, NoFd, "user")
  <2>2. f.todo = Batch(Claimed(report, failed)) /\ stack' = <<f>> /\ cancels' = {}
    BY <2>1, Zenon DEF Frame, Collect
  <2>3. \A e \in f.todo : Caused(e)
    BY <2>2, BatchCaused, Zenon DEF CausesKnown
  <2>4. UNCHANGED <<asked, now, nextId, op>>
    BY <2>1, Zenon DEF Collect
  <2>5. Fine(f)
    BY <2>3, <2>4, Zenon DEF Fine, Caused
  <2> HIDE DEF f
  <2>6. \A k \in 1 .. Len(stack') : Fine(stack'[k])
    BY <2>2, <2>5
  <2> QED  BY <1>4, <2>2, <2>6
<1>9. CASE stack # <<>> /\ Deliver
  <2> USE <1>9
  <2>1. /\ Top \in FrameType /\ Len(stack) \in Nat \ {0} /\ Fine(Top)
        /\ \A f \in FrameType : SetTop(f) \in Seq(FrameType)
    BY <1>1, <1>3, StackFacts DEF Top
  <2>2. ASSUME NEW f \in FrameType, f.todo \subseteq Top.todo
        PROVE  \A k \in 1 .. Len(SetTop(f)) : Fine(SetTop(f)[k])
    <3>1. Fine(f)
      BY <2>1, <2>2 DEF Fine
    <3> QED  BY <1>1, <1>3, <3>1, StackFacts, ZenonT(40)
  <2>3. ASSUME NEW r \in Top.rearm, RearmAccepted(r)
        PROVE  CausesKnown'
    <3>1. [Top EXCEPT !.rearm = @ \ {r}] \in FrameType /\ [Top EXCEPT !.rearm = @ \ {r}].todo \subseteq Top.todo
      BY <2>1, Zenon DEF FrameType
    <3>2. \A k \in 1 .. Len(stack') : Fine(stack'[k])
      BY <2>2, <2>3, <3>1, ZenonT(40) DEF RearmAccepted
    <3> QED  BY <1>4, <2>3, <3>2, ZenonT(40) DEF RearmAccepted, CausesKnown
  <2>4. ASSUME NEW r \in Top.rearm, RearmRefused(r)
        PROVE  CausesKnown'
    <3> DEFINE g == [Top EXCEPT !.rearm = @ \ {r}]
               h == Frame(Broken(r.fd, "error"), {}, 0, NoFd, "deliver")
    <3>1. r.fd \in Fds /\ g \in FrameType /\ g.todo \subseteq Top.todo
      BY <2>1, Zenon DEF FrameType
    <3>2. h \in FrameType /\ h.todo = Broken(r.fd, "error")
      BY <1>1, <3>1, FrameTypes, ZenonT(40) DEF Frame
    <3>3. stack' = Append(SetTop(g), h) /\ cancels' = cancels
      BY <2>4, ZenonT(40) DEF RearmRefused
    <3> HIDE DEF g, h
    <3>4. Fine(h)
      BY <3>2 DEF Fine, Caused, Broken, Entry
    <3> QED  BY <1>6, <2>1, <2>2, <3>1, <3>2, <3>3, <3>4, ZenonT(40)
  <2>5. ASSUME NEW e \in Top.todo, Finalize(e)
        PROVE  CausesKnown'
    <3>1. [Top EXCEPT !.todo = @ \ {e}] \in FrameType /\ [Top EXCEPT !.todo = @ \ {e}].todo \subseteq Top.todo
      BY <2>1 DEF FrameType
    <3>2. \A k \in 1 .. Len(stack') : Fine(stack'[k])
      BY <2>2, <2>5, <3>1, ZenonT(40) DEF Finalize
    <3> QED  BY <1>4, <2>5, <3>2, ZenonT(40) DEF Finalize, CausesKnown
  <2>6. CASE RunPosted
    <3>1. Top.work \in 0 .. MaxPosted /\ Top.work > 0
      BY <2>1, <2>6 DEF FrameType, RunPosted
    <3>2. Top.work - 1 \in 0 .. MaxPosted
      BY <3>1, BoundsAssumption
    <3>3. [Top EXCEPT !.work = @ - 1] \in FrameType /\ [Top EXCEPT !.work = @ - 1].todo \subseteq Top.todo
      BY <2>1, <3>2, Zenon DEF FrameType
    <3>4. \A k \in 1 .. Len(stack') : Fine(stack'[k])
      BY <2>2, <2>6, <3>3, ZenonT(40) DEF RunPosted
    <3> QED  BY <1>4, <2>6, <3>4 DEF RunPosted, CausesKnown
  <2>7. CASE Return
    <3>1. stack' = Pop /\ UNCHANGED <<cancels, asked>>
      BY <2>7, Zenon DEF Return
    <3>2. /\ Len(stack') = Len(stack) - 1
          /\ \A k \in 1 .. Len(stack) - 1 : k \in 1 .. Len(stack) /\ stack'[k] = stack[k]
      BY <1>1, <2>1, <3>1, StackFacts
    <3>3. \A k \in 1 .. Len(stack') : Fine(stack'[k])
      BY <1>3, <3>2, Zenon
    <3> QED  BY <1>4, <3>1, <3>3 DEF CausesKnown
  <2> QED  BY <2>3, <2>4, <2>5, <2>6, <2>7, Zenon DEF Deliver
<1>10. CASE Shutdown
  <2> DEFINE f == Frame({Entry(i, Cancelled, 0, 0, "cancelled") : i \in live}, {}, 0, NoFd, "user")
  <2>1. stack' = <<f>> /\ cancels' = cancels /\ live \subseteq asked'
    BY <1>10, ZenonT(40) DEF Shutdown
  <2>2. Fine(f)
    BY <2>1 DEF Fine, Caused, Frame, Entry
  <2> HIDE DEF f
  <2>3. \A k \in 1 .. Len(stack') : Fine(stack'[k])
    BY <2>1, <2>2, SMTT(40)
  <2> QED  BY <1>1, <1>4, <2>1, <2>3, Zenon DEF CausesKnown
<1>11. ASSUME NEW i \in Ids, RequestCancel(i)
       PROVE  CausesKnown'
  BY <1>3, <1>4, <1>11, Zenon DEF RequestCancel, CausesKnown
<1>12. ASSUME NEW r \in WaitRequests, AddWaiter(r)
       PROVE  CausesKnown'
  BY <1>5, <1>12, Zenon DEF AddWaiter
<1>13. ASSUME NEW r \in SleepRequests, AddTimer(r)
       PROVE  CausesKnown'
  BY <1>5, <1>13, Zenon DEF AddTimer
<1>14. ASSUME ArmAccepted \/ ArmRefused
       PROVE  CausesKnown'
  BY <1>5, <1>14, Zenon DEF ArmAccepted, ArmRefused
<1>15. ASSUME NEW fd \in Fds, Reopen(fd)
       PROVE  CausesKnown'
  BY <1>5, <1>15 DEF Reopen
<1>16. CASE Post \/ Tick \/ RunOnce \/ PollFails \/ Suspend \/ UNCHANGED vars
  <2>1. UNCHANGED <<cancels, stack>>
    BY <1>16, Zenon DEF Post, Tick, RunOnce, PollFails, Suspend, vars
  <2> QED  BY <1>5, <2>1, Zenon
<1> QED
  BY <1>7, <1>8, <1>9, <1>10, <1>11, <1>12, <1>13, <1>14, <1>15, <1>16 DEF Next

-----------------------------------------------------------------------------
(* What a step of the loop is, for the operations.                         *)

\* It starts or answers none of them,
Quiet ==
  UNCHANGED <<answer, nextId, op, live>> /\ asked \subseteq asked' /\ now <= now'

\* or starts the next one, before its deadline,
Submits ==
  \E r : Record(r) /\ Admitted(r) /\ UNCHANGED <<answer, asked, now>>

\* or answers one in the table, with cause.
Resolves(i, a) ==
  /\ i \in live /\ a \in {"ok", "timed_out", "cancelled", "error"}
  /\ a = "cancelled" => i \in asked
  /\ a = "timed_out" => i <= nextId /\ op[i].deadline <= now
  /\ answer' = [answer EXCEPT ![i] = a]
  /\ live' = live \ {i}
  /\ UNCHANGED <<op, nextId, now, asked>>

\* Every step of the loop is, to its callers, nothing, a submission, or one
\* operation leaving the table with a verdict that has a cause.
LEMMA StepKinds ==
  TypeOK /\ ArmingSound /\ CausesKnown /\ [Next]_vars => Quiet \/ Submits \/ \E i \in Ids : \E a : Resolves(i, a)
<1> SUFFICES ASSUME TypeOK, ArmingSound, CausesKnown, [Next]_vars
             PROVE  Quiet \/ Submits \/ \E i \in Ids : \E a : Resolves(i, a)
  BY SMTT(40)
<1> USE DEF table, tokens, queues, kernel, control, results
<1>1. asked \subseteq asked' /\ now <= now' /\ live \subseteq Ids
  BY Monotone, Zenon DEF TypeOK
<1>2. ASSUME UNCHANGED <<answer, nextId, op, live>> PROVE Quiet
  BY <1>1, <1>2, Zenon DEF Quiet
<1>3. ASSUME NEW r \in WaitRequests, AddWaiter(r)
      PROVE  Submits
  BY <1>3, Zenon DEF AddWaiter, Submits
<1>4. ASSUME NEW r \in SleepRequests, AddTimer(r)
      PROVE  Submits
  BY <1>4 DEF AddTimer, Submits
<1>5. ASSUME ArmRefused
      PROVE  \E i \in Ids : \E a : Resolves(i, a)
  <2>1. arming.id \in live
    BY <1>5, Zenon DEF ArmRefused, ArmingSound
  <2>2. Resolves(arming.id, "error")
    BY <1>5, <2>1, Zenon DEF ArmRefused, Unlink, Resolves
  <2> QED  BY <1>1, <2>1, <2>2, Zenon
<1>6. ASSUME stack # <<>>, NEW e \in Top.todo, Finalize(e)
      PROVE  Quiet \/ \E i \in Ids : \E a : Resolves(i, a)
  <2>1. Caused(e) /\ e \in EntryType
    <3>0. stack \in Seq(FrameType)
      BY Zenon DEF TypeOK
    <3>1. Top \in FrameType /\ Len(stack) \in Nat \ {0}
      BY <1>6, <3>0, StackFacts, Zenon
    <3>2. Len(stack) \in 1 .. Len(stack)
      BY <3>1
    <3> QED  BY <1>6, <3>1, <3>2, ZenonT(40) DEF CausesKnown, Top, FrameType
  <2>2. CASE e.id \in live
    <3>1. Resolves(e.id, e.out)
      BY <1>6, <2>1, <2>2 DEF Finalize, Unlink, Resolves, Caused, EntryType
    <3> QED  BY <1>1, <2>2, <3>1
  <2>3. CASE e.id \notin live
    BY <1>2, <1>6, <2>3, Zenon DEF Finalize
  <2> QED  BY <2>2, <2>3, Zenon
<1>7. ASSUME stack # <<>>, Deliver
      PROVE  Quiet \/ \E i \in Ids : \E a : Resolves(i, a)
  <2>1. ASSUME NEW r \in Top.rearm, RearmAccepted(r) \/ RearmRefused(r)
        PROVE  Quiet
    BY <1>2, <2>1 DEF RearmAccepted, RearmRefused
  <2>2. ASSUME RunPosted \/ Return
        PROVE  Quiet
    BY <1>2, <2>2, Zenon DEF RunPosted, Return
  <2> QED  BY <1>6, <1>7, <2>1, <2>2 DEF Deliver
<1>8. CASE Poll
  <2>1. PICK report, failed, last : Collect(report, failed, last)
    BY <1>8, Zenon DEF Poll
  <2> QED  BY <1>2, <2>1, Zenon DEF Collect
<1>9. ASSUME NEW fd \in Fds, Reopen(fd) \/ \E isClose \in BOOLEAN : Detach(fd, isClose)
      PROVE  Quiet
  BY <1>2, <1>9, Zenon DEF Reopen, Detach
<1>10. ASSUME ArmAccepted
       PROVE  Quiet
  BY <1>2, <1>10, ZenonT(40) DEF ArmAccepted
<1>11. ASSUME NEW i \in Ids, RequestCancel(i)
       PROVE  Quiet
  BY <1>2, <1>11, Zenon DEF RequestCancel
<1>12. CASE Post \/ Tick \/ RunOnce \/ PollFails \/ Suspend \/ Shutdown \/ UNCHANGED vars
  <2>1. UNCHANGED <<answer, nextId, op, live>>
    BY <1>12, Zenon DEF Post, Tick, RunOnce, PollFails, Suspend, Shutdown, vars
  <2> QED  BY <1>2, <2>1, SMTT(40)
<1> QED
  BY <1>3, <1>4, <1>5, <1>7, <1>8, <1>9, <1>10, <1>11, <1>12, SMTT(40) DEF Next

\* Only an operation in the table is answered, and it leaves the table.
LEMMA UnansweredStep ==
  TableInv /\ CausesKnown /\ Unanswered /\ [Next]_vars => Unanswered'
<1> SUFFICES ASSUME TableInv, CausesKnown, Unanswered, [Next]_vars PROVE Unanswered'
  BY SMTT(40)
<1>1. TypeOK /\ ArmingSound /\ nextId \in Nat /\ answer \in [Ids -> AnswerType] /\ Ids \subseteq Nat
  BY SMTT(40) DEF TableInv, TypeOK, Ids
<1>2. CASE Quiet
  BY <1>2 DEF Quiet, Unanswered
<1>3. CASE Submits
  <2>1. live' = live \cup {nextId + 1} /\ nextId' = nextId + 1 /\ answer' = answer
    BY <1>3 DEF Submits, Record
  <2>2. \A i \in Ids : i \in live' \/ nextId' < i => i \in live \/ nextId < i
    BY <1>1, <2>1
  <2> QED  BY <2>1, <2>2, Zenon DEF Unanswered
<1>4. ASSUME NEW i \in Ids, NEW a, Resolves(i, a)
      PROVE  Unanswered'
  <2>1. i <= nextId
    BY <1>4, Zenon DEF Resolves, TableInv, Fresh
  <2>2. \A j \in Ids : j # i => answer'[j] = answer[j]
    BY <1>1, <1>4, Zenon DEF Resolves
  <2>3. i \notin live' /\ live' \subseteq live /\ nextId' = nextId /\ ~(nextId < i)
    BY <1>1, <1>4, <2>1 DEF Resolves
  <2> QED  BY <2>2, <2>3, Zenon DEF Unanswered
<1> QED  BY <1>1, <1>2, <1>3, <1>4, StepKinds

-----------------------------------------------------------------------------
(* The refinement.                                                         *)

\* Every step of the loop is a step of the contract or a stutter of it.
LEMMA ContractStep ==
  TableInv /\ TableInv' /\ CausesKnown /\ Unanswered /\ [Next]_vars =>
    [Contract!ContractNext]_(Contract!contractVars)
<1> SUFFICES ASSUME TableInv, TableInv', CausesKnown, Unanswered, [Next]_vars
             PROVE  Contract!ContractNext
  OBVIOUS
<1>1. /\ TypeOK /\ TypeOK' /\ ArmingSound /\ nextId \in Nat /\ now \in Nat /\ now' \in Nat
      /\ answer \in [Ids -> AnswerType] /\ Ids \subseteq Nat /\ asked' \subseteq Ids
      /\ \A i \in Ids : op[i].deadline \in Nat /\ op'[i].deadline \in Nat
  <2>1. TypeOK /\ TypeOK' /\ ArmingSound
    BY ZenonT(40) DEF TableInv
  <2>2. nextId \in Nat /\ now \in Nat /\ now' \in Nat /\ Ids \subseteq Nat
    BY <2>1, BoundsAssumption DEF TypeOK, Ids
  <2>3. answer \in [Ids -> AnswerType] /\ asked' \subseteq Ids
    BY <2>1, Zenon DEF TypeOK
  <2>4. Times \subseteq Nat
    BY BoundsAssumption DEF Times, Never
  <2>5. \A i \in Ids : op[i].deadline \in Times /\ op'[i].deadline \in Times
    BY <2>1, Zenon DEF TypeOK
  <2> QED  BY <2>1, <2>2, <2>3, <2>4, <2>5, ZenonT(40)
<1>2. CASE Quiet
  <2>1. PhaseBar' = PhaseBar
    BY <1>2 DEF Quiet, PhaseBar
  <2>2. LateBar \subseteq LateBar'
    <3>1. \A x \in Nat : x <= now => x <= now'
      <4>1. now <= now'
        BY <1>2, Zenon DEF Quiet
      <4> QED  BY <1>1, <4>1
    <3>2. \A i \in Ids : op[i].deadline <= now => op[i].deadline <= now'
      BY <1>1, <3>1, ZenonT(40)
    <3> QED  BY <1>2, <3>2, Zenon DEF Quiet, LateBar
  <2>3. Contract!Surroundings
    BY <1>1, <1>2, <2>1, <2>2 DEF Quiet, PhaseBar, LateBar, Contract!Surroundings
  <2> QED  BY <2>3 DEF Contract!ContractNext
<1>3. CASE Submits
  <2>1. PICK r : Record(r) /\ Admitted(r) /\ UNCHANGED <<answer, asked, now>>
    BY <1>3, ZenonT(40) DEF Submits
  <2>2. nextId + 1 \in Ids
    BY <1>1, <2>1, BoundsAssumption DEF Admitted, Ids
  <2>3. PICK i \in Ids : i = nextId + 1
    BY <2>2, Zenon
  <2>4. op' = [op EXCEPT ![i] = r] /\ nextId' = i /\ now < r.deadline /\ UNCHANGED <<answer, asked, now>>
    BY <2>1, <2>3, Zenon DEF Record, Admitted
  <2>5. \A j \in Ids : j # i => op'[j] = op[j] /\ (j <= nextId' <=> j <= nextId)
    BY <1>1, <2>3, <2>4
  <2>6. answer[i] = "none" /\ ~(i <= nextId) /\ i <= nextId'
    BY <1>1, <2>3, <2>4, SMTT(40) DEF Unanswered
  <2>7. PhaseBar[i] = "unused" /\ PhaseBar' = [PhaseBar EXCEPT ![i] = "pending"]
    BY <2>4, <2>5, <2>6, ZenonT(40) DEF PhaseBar
  <2>8. op'[i] = r
    BY <1>1, <2>4, Zenon DEF TypeOK
  <2>9. LateBar' = LateBar
    <3>1. ~(op'[i].deadline <= now)
      BY <1>1, <2>4, <2>8
    <3> QED  BY <2>4, <2>5, <2>6, <3>1, Zenon DEF LateBar
  <2>10. Contract!Submit(i)
    BY <2>4, <2>7, <2>9 DEF PhaseBar, LateBar, Contract!Submit
  <2> QED  BY <2>10 DEF Contract!ContractNext
<1>4. ASSUME NEW i \in Ids, NEW a, Resolves(i, a)
      PROVE  Contract!ContractNext
  <2>1. i <= nextId /\ answer[i] = "none"
    BY <1>4, Zenon DEF Resolves, TableInv, Fresh, Unanswered
  <2>2. PhaseBar[i] = "pending" /\ PhaseBar' = [PhaseBar EXCEPT ![i] = a]
    BY <1>1, <1>4, <2>1, ZenonT(40) DEF Resolves, PhaseBar
  <2>3. LateBar' = LateBar /\ (a = "timed_out" => i \in LateBar)
    BY <1>4, <2>1, Zenon DEF Resolves, LateBar
  <2>4. Contract!Resolve(i, a)
    BY <1>4, <2>2, <2>3, Zenon DEF Resolves, PhaseBar, LateBar, Contract!Resolve
  <2>5. a \in Contract!Answers
    BY <1>4 DEF Resolves, Contract!Answers
  <2> QED  BY <2>4, <2>5, Zenon DEF Contract!ContractNext
<1> QED  BY <1>1, <1>2, <1>3, <1>4, StepKinds

\* The POSIX backend keeps the contract of event_loop.hpp: an operation is
\* answered at most once, and is cancelled or timed out only with cause,
\* for any number of operations and descriptors and any sequence of calls.
THEOREM PosixKeepsContract == Spec => KeepsContract
<1>1. Init => Contract!ContractInit
  <2> SUFFICES ASSUME Init PROVE Contract!ContractInit
    BY SMTT(40)
  <2>1. \A i \in Ids : answer[i] = "none" /\ ~(i <= nextId)
    BY BoundsAssumption DEF Init, Ids, NoOp
  <2>2. PhaseBar = [i \in Ids |-> "unused"] /\ LateBar = {}
    BY <2>1, Zenon DEF PhaseBar, LateBar
  <2> QED  BY <2>2 DEF Init, PhaseBar, LateBar, Contract!ContractInit
<1>2. Init => Unanswered /\ CausesKnown
  BY CausesInit
<1>3. TableInv /\ TableInv' /\ Unanswered /\ CausesKnown /\ [Next]_vars => Unanswered' /\ CausesKnown'
  BY CausesStep, UnansweredStep
<1>4. TableInv /\ TableInv' /\ Unanswered /\ CausesKnown /\ [Next]_vars =>
        [Contract!ContractNext]_(Contract!contractVars)
  BY ContractStep
<1> QED
  BY <1>1, <1>2, <1>3, <1>4, TableInvariant, PTL DEF Spec, KeepsContract, Contract!ContractSpec
=============================================================================
