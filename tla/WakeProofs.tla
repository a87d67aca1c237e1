----------------------------- MODULE WakeProofs -----------------------------
(***************************************************************************)
(* Proofs about WakeProtocol, for any number of calling threads, any       *)
(* number of calls and both backends.                                      *)
(***************************************************************************)
EXTENDS WakeProtocol, FiniteSetTheorems, TLAPS

Signalling == {c \in Callers : caller[c] = "signalling"}

\* Signals in the kernel, signals about to be given, and the one that the next wake() may give.
Owed == signals + Cardinality(Signalling) + (IF pending THEN 0 ELSE 1)

\* How large Owed can get by the place of the loop.  Only Collect raises it, by at most one, and
\* every round before it either found no signal or takes those it found.
Ceiling ==
  LET N == Cardinality(Callers) IN
  IF loop = "collect" THEN (IF OverPort \/ fired \/ stopped THEN N + 1 ELSE N)
  ELSE IF OverPort \/ loop \in {"drain", "returned"} \/ (stopped /\ loop \in {"deliver", "run"}) THEN N + 2
  ELSE N + 1

Collapsed == Owed <= Ceiling

\* Work that was queued after the last collection has its caller before or behind its wake().
Announced ==
  queued > 0 \/ (loop = "poll" /\ immediate /\ ~stopped)
    => pending \/ \E c \in Callers : caller[c] = "queued"

\* The pipe is drained only where there is one.
Backed ==
  /\ OverPort => loop # "drain"
  /\ OverPort /\ pending => \/ signals > 0 \/ loop = "collect"
                            \/ \E c \in Callers : caller[c] = "signalling"
  /\ (OverPort /\ loop = "poll" /\ ~immediate /\ signals = 0 /\ (queued > 0 \/ stopped))
       => \E c \in Callers : caller[c] # "idle"

WakeInv == TypeOK /\ Backed /\ Announced /\ Collapsed

-----------------------------------------------------------------------------
(* Counting the callers that are about to signal.                          *)

\* They are at most all callers, and fewer if one is elsewhere.
LEMMA SignallingBound ==
  /\ IsFiniteSet(Signalling)
  /\ Cardinality(Signalling) \in Nat /\ Cardinality(Callers) \in Nat
  /\ Cardinality(Signalling) <= Cardinality(Callers)
  /\ (\E c \in Callers : caller[c] # "signalling") => Cardinality(Signalling) + 1 <= Cardinality(Callers)
<1>1. Signalling \in SUBSET Callers
  BY DEF Signalling
<1>2. /\ IsFiniteSet(Signalling) /\ Cardinality(Signalling) <= Cardinality(Callers)
      /\ Cardinality(Callers) = Cardinality(Signalling) => Callers = Signalling
  BY <1>1, FS_Subset, CallsAssumption
<1>3. Cardinality(Signalling) \in Nat /\ Cardinality(Callers) \in Nat
  BY <1>2, FS_CardinalityType, CallsAssumption
<1>4. ASSUME NEW c \in Callers, caller[c] # "signalling" PROVE Callers # Signalling
  BY <1>4 DEF Signalling
<1> QED  BY <1>2, <1>3, <1>4

\* A caller that moves on changes the count by itself only.
LEMMA SignallingMoves ==
  ASSUME TypeOK, NEW c \in Callers, NEW place \in {"idle", "queued", "signalling"},
         caller' = [caller EXCEPT ![c] = place]
  PROVE  Cardinality(Signalling') =
           IF place = "signalling" /\ caller[c] # "signalling" THEN Cardinality(Signalling) + 1
           ELSE IF place # "signalling" /\ caller[c] = "signalling" THEN Cardinality(Signalling) - 1
           ELSE Cardinality(Signalling)
<1> USE SignallingBound
<1>1. \A d \in Callers : caller'[d] = IF d = c THEN place ELSE caller[d]
  BY DEF TypeOK
<1>2. CASE place = "signalling" /\ caller[c] # "signalling"
  <2>1. Signalling' = Signalling \cup {c}
    BY <1>1, <1>2 DEF Signalling
  <2>2. c \notin Signalling
    BY <1>2 DEF Signalling
  <2> QED  BY <1>2, <2>1, <2>2, FS_AddElement, Zenon
<1>3. CASE place # "signalling" /\ caller[c] = "signalling"
  <2>1. Signalling' = Signalling \ {c}
    BY <1>1, <1>3 DEF Signalling
  <2>2. c \in Signalling
    BY <1>3 DEF Signalling
  <2> QED  BY <1>3, <2>1, <2>2, FS_RemoveElement, Zenon
<1>4. CASE (place = "signalling") = (caller[c] = "signalling")
  <2>1. Signalling' = Signalling
    BY <1>1, <1>4 DEF Signalling
  <2> QED  BY <1>4, <2>1
<1> QED  BY <1>2, <1>3, <1>4

-----------------------------------------------------------------------------
(* Types and the flag.                                                     *)

\* A new loop has nothing queued, no flag set and no signal.
LEMMA WakeInit == Init => WakeInv
<1> SUFFICES ASSUME Init PROVE WakeInv
  OBVIOUS
<1>1. TypeOK
  <2>1. queued \in Nat /\ taken \in Nat /\ signals \in Nat /\ calls \in [Callers -> 0 .. MaxCalls]
    BY CallsAssumption DEF Init
  <2> QED  BY <2>1, Zenon DEF Init, TypeOK
<1>2. Backed /\ Announced
  BY DEF Init, Backed, Announced, OverPort
<1>3. Signalling = {}
  BY DEF Init, Signalling
<1>4. Collapsed
  BY <1>3, SignallingBound, FS_EmptySet DEF Init, Collapsed, Owed, Ceiling, OverPort
<1> QED  BY <1>1, <1>2, <1>4 DEF WakeInv

\* Every step of the callers and the loop keeps the types.
LEMMA TypeStep == TypeOK /\ [Next]_vars => TypeOK'
<1> SUFFICES ASSUME TypeOK, [Next]_vars PROVE TypeOK'
  OBVIOUS
<1> USE CallsAssumption, BackendsAssumption DEF TypeOK
<1>1. ASSUME NEW c \in Callers, Queue(c) \/ Stop(c) PROVE TypeOK'
  <2>1. calls' \in [Callers -> 0 .. MaxCalls] /\ queued' \in Nat /\ signals' \in Nat
    BY <1>1 DEF Queue, Stop, Starts
  <2>2. caller' \in [Callers -> {"idle", "queued", "signalling"}]
    BY <1>1 DEF Queue, Stop, Starts
  <2> QED  BY <1>1, <2>1, <2>2, Zenon DEF Queue, Stop, loopVars
<1>2. ASSUME NEW c \in Callers, Exchange(c) PROVE TypeOK'
  BY <1>2 DEF Exchange, loopVars
<1>3. ASSUME NEW c \in Callers, Signal(c) PROVE TypeOK'
  BY <1>3 DEF Signal, loopVars
<1>4. CASE RunCheck \/ DecideTimeout
  BY <1>4, Zenon DEF RunCheck, DecideTimeout
<1>5. CASE Poll
  BY <1>5 DEF Poll
<1>6. CASE Collect \/ Drain
  <2>1. queued' \in Nat /\ taken' \in Nat /\ signals' \in Nat
    BY <1>6 DEF Collect, Drain
  <2>2. loop' \in {"drain", "deliver"}
    BY <1>6, Zenon DEF Collect, Drain
  <2> QED  BY <1>6, <2>1, <2>2, Zenon DEF Collect, Drain
<1>7. CASE Deliver
  <2>1. taken' \in Nat /\ signals' \in Nat
    BY <1>7 DEF Deliver
  <2> QED  BY <1>7, <2>1, Zenon DEF Deliver
<1>8. CASE UNCHANGED vars
  BY <1>8 DEF vars
<1> QED  BY <1>1, <1>2, <1>3, <1>4, <1>5, <1>6, <1>7, <1>8 DEF Next

\* Over a port, a set flag has a signal behind it, so that a caller that finds it set may leave.
LEMMA BackedStep == TypeOK /\ Backed /\ [Next]_vars => Backed'
<1> SUFFICES ASSUME TypeOK, Backed, [Next]_vars PROVE Backed'
  OBVIOUS
<1> USE DEF TypeOK, Backed, OverPort
<1>1. ASSUME NEW c \in Callers, Queue(c) \/ Stop(c) PROVE Backed'
  <2>1. caller' = [caller EXCEPT ![c] = "queued"] /\ caller[c] = "idle"
    BY <1>1 DEF Queue, Stop, Starts
  <2>2. \A d \in Callers : caller[d] = "signalling" => caller'[d] = "signalling"
    BY <2>1
  <2>3. caller'[c] # "idle"
    BY <2>1
  <2> QED  BY <1>1, <2>2, <2>3 DEF Queue, Stop, loopVars
<1>2. ASSUME NEW c \in Callers, Exchange(c) PROVE Backed'
  <2>1. \A d \in Callers : caller[d] = "signalling" => caller'[d] = "signalling"
    BY <1>2 DEF Exchange
  <2>2. ~pending => caller'[c] = "signalling"
    BY <1>2 DEF Exchange
  <2> QED  BY <1>2, <2>1, <2>2 DEF Exchange, loopVars
<1>3. ASSUME NEW c \in Callers, Signal(c) PROVE Backed'
  BY <1>3 DEF Signal, loopVars
<1>4. CASE RunCheck \/ DecideTimeout
  <2>1. DecideTimeout => (~immediate' => ~(queued' > 0 \/ stopped'))
    <3> SUFFICES ASSUME DecideTimeout, ~immediate' PROVE ~(queued' > 0 \/ stopped')
      OBVIOUS
    <3>1. immediate' = (queued > 0 \/ stopped) /\ queued' = queued /\ stopped' = stopped
      BY DEF DecideTimeout
    <3> QED  BY <3>1, Zenon
  <2>2. UNCHANGED <<backend, pending, signals, caller>> /\ loop # "collect" /\ loop' \in {"returned", "timeout", "poll"}
    BY <1>4, Zenon DEF RunCheck, DecideTimeout
  <2>3. RunCheck => loop' # "poll"
    BY DEF RunCheck
  <2> QED  BY <1>4, <2>1, <2>2, <2>3
<1>5. CASE Poll
  BY <1>5 DEF Poll
<1>6. CASE Collect \/ Drain
  BY <1>6 DEF Collect, Drain
<1>7. CASE Deliver
  BY <1>7 DEF Deliver
<1>8. CASE UNCHANGED vars
  BY <1>8 DEF vars
<1> QED  BY <1>1, <1>2, <1>3, <1>4, <1>5, <1>6, <1>7, <1>8 DEF Next

\* Whoever has queued work since the last collection has set the flag or is about to.
LEMMA AnnouncedStep == TypeOK /\ Announced /\ [Next]_vars => Announced'
<1> SUFFICES ASSUME TypeOK, Announced, [Next]_vars PROVE Announced'
  OBVIOUS
<1> USE DEF TypeOK, Announced
<1>1. ASSUME NEW c \in Callers, Queue(c) \/ Stop(c) PROVE Announced'
  <2>1. caller'[c] = "queued"
    BY <1>1 DEF Queue, Stop, Starts
  <2> QED  BY <2>1
<1>2. ASSUME NEW c \in Callers, Exchange(c) PROVE Announced'
  BY <1>2 DEF Exchange
<1>3. ASSUME NEW c \in Callers, Signal(c) PROVE Announced'
  <2>1. \A d \in Callers : caller[d] = "queued" => caller'[d] = "queued"
    BY <1>3 DEF Signal
  <2> QED  BY <1>3, <2>1 DEF Signal, loopVars
<1>4. CASE RunCheck \/ DecideTimeout
  <2>1. DecideTimeout => (immediate' /\ ~stopped' => queued > 0)
    <3> SUFFICES ASSUME DecideTimeout, immediate', ~stopped' PROVE queued > 0
      OBVIOUS
    <3>1. immediate' = (queued > 0 \/ stopped) /\ stopped' = stopped
      BY DEF DecideTimeout
    <3> QED  BY <3>1, Zenon
  <2>2. UNCHANGED <<queued, pending, caller>> /\ (RunCheck => loop' # "poll")
    BY <1>4 DEF RunCheck, DecideTimeout
  <2> QED  BY <1>4, <2>1, <2>2
<1>5. CASE Poll
  BY <1>5 DEF Poll
<1>6. CASE Collect
  BY <1>6 DEF Collect
<1>7. CASE Drain
  BY <1>7 DEF Drain
<1>8. CASE Deliver
  BY <1>8 DEF Deliver
<1>9. CASE UNCHANGED vars
  BY <1>9 DEF vars
<1> QED  BY <1>1, <1>2, <1>3, <1>4, <1>5, <1>6, <1>7, <1>8, <1>9 DEF Next

-----------------------------------------------------------------------------
(* Bursts collapse.                                                        *)

\* Only Collect raises Owed, and a round reaches it with room for one more.
LEMMA CollapsedStep == TypeOK /\ Backed /\ Announced /\ Collapsed /\ [Next]_vars => Collapsed'
<1> SUFFICES ASSUME TypeOK, Backed, Announced, Collapsed, [Next]_vars PROVE Collapsed'
  OBVIOUS
<1> DEFINE N == Cardinality(Callers)
           S == Cardinality(Signalling)
<1>0. /\ N \in Nat /\ S \in Nat /\ S <= N /\ Cardinality(Callers)' = N /\ signals \in Nat
      /\ (\E c \in Callers : caller[c] # "signalling") => S + 1 <= N
  BY SignallingBound DEF TypeOK
<1>1. ASSUME NEW c \in Callers, Queue(c) \/ Stop(c) PROVE Collapsed'
  <2>1. caller' = [caller EXCEPT ![c] = "queued"] /\ caller[c] = "idle" /\ Cardinality(Signalling') = S
    BY <1>1, SignallingMoves DEF Queue, Stop, Starts
  <2>2. Owed' = Owed
    BY <1>1, <2>1 DEF Owed, Queue, Stop
  <2>3. Ceiling <= Ceiling' /\ Ceiling \in Nat /\ Ceiling' \in Nat
    BY <1>0, <1>1 DEF Ceiling, OverPort, Queue, Stop, loopVars
  <2>4. Owed \in Nat
    BY <1>0 DEF Owed
  <2> QED  BY <2>2, <2>3, <2>4 DEF Collapsed
<1>2. ASSUME NEW c \in Callers, Exchange(c) PROVE Collapsed'
  <2>1. pending => caller' = [caller EXCEPT ![c] = "idle"]
    BY <1>2 DEF Exchange
  <2>2. ~pending => caller' = [caller EXCEPT ![c] = "signalling"]
    BY <1>2 DEF Exchange
  <2>3. Cardinality(Signalling') = IF pending THEN S ELSE S + 1
    BY <1>2, <2>1, <2>2, SignallingMoves, Zenon DEF Exchange
  <2>4. Owed' = Owed
    BY <1>0, <1>2, <2>3 DEF Owed, Exchange
  <2>5. Ceiling' = Ceiling
    BY <1>0, <1>2 DEF Ceiling, OverPort, Exchange, loopVars
  <2> QED  BY <2>4, <2>5 DEF Collapsed
<1>3. ASSUME NEW c \in Callers, Signal(c) PROVE Collapsed'
  <2>1. Cardinality(Signalling') = S - 1
    BY <1>3, SignallingMoves, Zenon DEF Signal
  <2>2. Owed' = Owed
    BY <1>0, <1>3, <2>1 DEF Owed, Signal
  <2>3. Ceiling' = Ceiling
    BY <1>0, <1>3 DEF Ceiling, OverPort, Signal, loopVars
  <2> QED  BY <2>2, <2>3 DEF Collapsed
<1>4. ASSUME RunCheck \/ DecideTimeout \/ Poll \/ Collect \/ Drain \/ Deliver \/ UNCHANGED vars
      PROVE  Cardinality(Signalling') = S /\ UNCHANGED <<backend, stopped>>
  BY <1>4 DEF RunCheck, DecideTimeout, Poll, Collect, Drain, Deliver, vars, Signalling
<1>5. CASE RunCheck
  BY <1>0, <1>4, <1>5 DEF RunCheck, Collapsed, Owed, Ceiling, OverPort
<1>6. CASE DecideTimeout
  BY <1>0, <1>4, <1>6 DEF DecideTimeout, Collapsed, Owed, Ceiling, OverPort
<1>7. CASE Poll
  <2>1. fired' = (signals > 0) /\ loop = "poll" /\ loop' = "collect" /\ pending' = pending
    BY <1>7 DEF Poll
  <2>2. ~fired' => signals = 0
    <3>1. ~fired' => ~(signals > 0)
      BY <2>1, Zenon
    <3> QED  BY <1>0, <3>1
  <2>3. signals' = IF OverPort THEN 0 ELSE signals
    BY <1>7 DEF Poll, OverPort
  <2>4. ~fired' /\ ~stopped => pending \/ \E c \in Callers : caller[c] = "queued"
    BY <1>0, <1>7, <2>1, <2>2 DEF Poll, Announced
  <2>5. CASE OverPort
    BY <1>0, <1>4, <1>7, <2>1, <2>3, <2>5 DEF Collapsed, Owed, Ceiling, OverPort
  <2>6. CASE ~OverPort /\ ~fired' /\ ~stopped
    <3>1. S + (IF pending THEN 0 ELSE 1) <= N
      BY <1>0, <2>4, <2>6
    <3> QED  BY <1>0, <1>4, <1>7, <2>1, <2>2, <2>3, <2>6, <3>1 DEF Collapsed, Owed, Ceiling, OverPort
  <2>7. CASE ~OverPort /\ (fired' \/ stopped)
    BY <1>0, <1>4, <1>7, <2>1, <2>3, <2>7 DEF Collapsed, Owed, Ceiling, OverPort
  <2> QED  BY <2>5, <2>6, <2>7
<1>8. CASE Collect
  <2>1. /\ loop = "collect" /\ ~pending' /\ UNCHANGED <<signals, fired>>
        /\ loop' = IF ~OverPort /\ fired THEN "drain" ELSE "deliver"
    BY <1>8, BackendsAssumption DEF Collect, OverPort, TypeOK
  <2>2. Owed' = signals + S + 1 /\ signals + S <= Owed
    BY <1>0, <1>4, <1>8, <2>1 DEF Owed
  <2>3. CASE OverPort \/ fired \/ stopped
    <3>1. Ceiling = N + 1 /\ Ceiling' = N + 2
      BY <1>0, <1>4, <1>8, <2>1, <2>3 DEF Ceiling, OverPort
    <3> QED  BY <1>0, <2>2, <3>1 DEF Collapsed, Owed
  <2>4. CASE ~(OverPort \/ fired \/ stopped)
    <3>1. Ceiling = N /\ Ceiling' = N + 1
      BY <1>0, <1>4, <1>8, <2>1, <2>4 DEF Ceiling, OverPort
    <3> QED  BY <1>0, <2>2, <3>1 DEF Collapsed, Owed
  <2> QED  BY <2>3, <2>4
<1>9. CASE Drain
  BY <1>0, <1>4, <1>9 DEF Drain, Collapsed, Owed, Ceiling, OverPort
<1>10. CASE Deliver
  <2>1. Owed' = Owed
    <3>1. Cardinality(Signalling') = S
      BY <1>4, <1>10
    <3>2. CASE UNCHANGED <<pending, signals>>
      BY <3>1, <3>2 DEF Owed
    <3>3. CASE ~pending /\ pending' = TRUE /\ signals' = signals + 1
      BY <1>0, <3>1, <3>3 DEF Owed
    <3> QED  BY <1>10, <3>2, <3>3, Zenon DEF Deliver
  <2>2. Ceiling' = Ceiling
    BY <1>0, <1>4, <1>10 DEF Deliver, Ceiling, OverPort
  <2> QED  BY <2>1, <2>2 DEF Collapsed
<1>11. CASE UNCHANGED vars
  BY <1>4, <1>11 DEF vars, Collapsed, Owed, Ceiling, OverPort
<1> QED  BY <1>1, <1>2, <1>3, <1>5, <1>6, <1>7, <1>8, <1>9, <1>10, <1>11 DEF Next

-----------------------------------------------------------------------------

\* However many threads post, cancel and stop, and however their two-step wake() calls interleave
\* with the loop: over a completion port a set wake_pending_ always has a signal behind it and
\* a blocked loop somebody on the way, and over either backend the pipe or port holds at most two
\* signals more than there are threads.
THEOREM WakeUpsAreKept == Spec => []NoWakeUpLost
<1>1. Init => WakeInv
  BY WakeInit
<1>2. WakeInv /\ [Next]_vars => WakeInv'
  BY TypeStep, BackedStep, AnnouncedStep, CollapsedStep DEF WakeInv
<1>3. WakeInv => NoWakeUpLost
  <2> SUFFICES ASSUME WakeInv PROVE signals <= Cardinality(Callers) + 2
    BY DEF WakeInv, Backed, NoWakeUpLost
  <2> QED  BY SignallingBound DEF WakeInv, TypeOK, Collapsed, Owed, Ceiling
<1> QED  BY <1>1, <1>2, <1>3, PTL DEF Spec
=============================================================================
