--------------------------- MODULE TaskScopeProofs ---------------------------
(***************************************************************************)
(* Proofs about TaskScope, for any number of children and of outsiders and *)
(* any depth of the native stack.                                          *)
(***************************************************************************)
EXTENDS TaskScope, FiniteSetTheorems, TLAPS

Live == {c \in Children : runner[c] = "live"}

\* The frames of a child go with the state of its coroutine: none before it is spawned, a live
\* runner until its final suspension, and retired_ names retired runners only.
FramesSound ==
  \A c \in Children :
    /\ co[c] \in {"running", "suspended"} => body[c] = "started"
    /\ body[c] = "started" \/ co[c] = "catching" => runner[c] = "live"
    /\ co[c] = "catching" => body[c] # "started"
    /\ co[c] = "idle" => runner[c] = "none"
    /\ c \in retired => runner[c] = "retired"

\* pending_ counts the live runners; nobody is left when join is over or the scope is gone.
CountSound ==
  /\ pending = Cardinality(Live)
  /\ join = "waiting" <=> co[Parent] = "waiting"
  /\ join = "waiting" => pending > 0
  /\ join = "joined" \/ ~used \/ ~alive => pending = 0

\* A coroutine occupies at most one native frame, and runs if it does.  A frame of Runner::start
\* lies on the frame of the coroutine that spawned, and a child has at most one.
StackSound ==
  /\ \A k \in 1 .. Len(stack) :
       /\ stack[k].who # Nobody => co[stack[k].who] \in {"running", "catching"}
       /\ stack[k].of # Nobody => /\ k > 1 /\ stack[k].by # Nobody /\ stack[k - 1].who = stack[k].by
                                  /\ runner[stack[k].of] # "none"
  /\ \A j, k \in 1 .. Len(stack) :
       /\ stack[j].who = stack[k].who /\ stack[j].who # Nobody => j = k
       /\ stack[j].of = stack[k].of /\ stack[j].of # Nobody => j = k

\* What start() looks at when its resume() returns is still there, if the owner or a child spawned.
StartsSound ==
  /\ dangling \subseteq Outsiders
  /\ \A k \in 1 .. Len(stack) : stack[k].of # Nobody /\ stack[k].by \notin Outsiders =>
       alive /\ runner[stack[k].of] \in {"live", "retired"}

ScopeInv == TypeOK /\ FramesSound /\ CountSound /\ StackSound /\ StartsSound

-----------------------------------------------------------------------------
(* Sets of children, and stacks.                                           *)

\* Sets of children are finite, and one child more or less counts one.
LEMMA ChildCounts ==
  \A S \in SUBSET Children :
    /\ IsFiniteSet(S) /\ Cardinality(S) \in 0 .. Cardinality(Children)
    /\ Cardinality(S) = 0 <=> S = {}
    /\ \A c \in Children \ S : Cardinality(S \cup {c}) = Cardinality(S) + 1
    /\ \A c \in S : Cardinality(S \ {c}) = Cardinality(S) - 1
<1> SUFFICES ASSUME NEW S \in SUBSET Children
             PROVE  /\ IsFiniteSet(S) /\ Cardinality(S) \in 0 .. Cardinality(Children)
                    /\ Cardinality(S) = 0 <=> S = {}
                    /\ \A c \in Children \ S : Cardinality(S \cup {c}) = Cardinality(S) + 1
                    /\ \A c \in S : Cardinality(S \ {c}) = Cardinality(S) - 1
  OBVIOUS
<1>1. IsFiniteSet(S) /\ Cardinality(S) <= Cardinality(Children)
  BY FS_Subset, ActorsAssumption
<1>2. Cardinality(S) \in Nat /\ Cardinality(Children) \in Nat
  BY <1>1, FS_CardinalityType, ActorsAssumption
<1>3. Cardinality(S) = 0 <=> S = {}
  BY <1>1, FS_EmptySet
<1>4. \A c \in Children \ S : Cardinality(S \cup {c}) = Cardinality(S) + 1
  BY <1>1, FS_AddElement
<1>5. \A c \in S : Cardinality(S \ {c}) = Cardinality(S) - 1
  BY <1>1, FS_RemoveElement
<1> QED  BY <1>1, <1>2, <1>3, <1>4, <1>5

\* A call adds a frame, a return takes the last one, and a handover changes its occupant.
LEMMA CallFacts ==
  ASSUME stack \in Seq(NativeFrame), NEW of \in Children \cup {Nobody},
         NEW by \in Actors \cup {Nobody}, NEW x \in Actors \cup {Nobody}
  PROVE  /\ Call(of, by, x) \in Seq(NativeFrame)
         /\ Len(stack) \in Nat /\ Len(Call(of, by, x)) = Len(stack) + 1
         /\ \A k \in 1 .. Len(stack) : Call(of, by, x)[k] = stack[k]
         /\ Call(of, by, x)[Len(stack) + 1] = [of |-> of, by |-> by, who |-> x]
<1>1. [of |-> of, by |-> by, who |-> x] \in NativeFrame
  BY DEF NativeFrame
<1> QED  BY <1>1 DEF Call

\* The innermost native frame is the last of the stack; returning from it leaves the others.
LEMMA TopFacts ==
  ASSUME stack \in Seq(NativeFrame), stack # <<>>
  PROVE  /\ Len(stack) \in Nat \ {0} /\ Top = stack[Len(stack)]
         /\ \A k \in 1 .. Len(stack) : stack[k] \in NativeFrame
         /\ SubSeq(stack, 1, Len(stack) - 1) \in Seq(NativeFrame)
         /\ Len(SubSeq(stack, 1, Len(stack) - 1)) = Len(stack) - 1
         /\ \A k \in 1 .. Len(stack) - 1 : SubSeq(stack, 1, Len(stack) - 1)[k] = stack[k]
<1>1. Len(stack) \in Nat \ {0} /\ Top = stack[Len(stack)]
  BY DEF Top
<1>2. \A k \in 1 .. Len(stack) : stack[k] \in NativeFrame
  OBVIOUS
<1>3. PICK n \in Nat : n = Len(stack) - 1
  BY <1>1
<1>4. SubSeq(stack, 1, n) \in Seq(NativeFrame) /\ Len(SubSeq(stack, 1, n)) = n
  <2>1. \A k \in 1 .. n : stack[k] \in NativeFrame
    BY <1>1, <1>2, <1>3
  <2> QED  BY <2>1
<1>5. \A k \in 1 .. n : SubSeq(stack, 1, n)[k] = stack[k]
  BY <1>1, <1>3
<1> QED  BY <1>1, <1>2, <1>3, <1>4, <1>5

\* complete() passing control on in the same native frame changes who runs in it and nothing else.
LEMMA HandoverFacts ==
  ASSUME stack \in Seq(NativeFrame), stack # <<>>, NEW x \in Actors \cup {Nobody}
  PROVE  /\ Handover(x) \in Seq(NativeFrame) /\ Len(Handover(x)) = Len(stack)
         /\ \A k \in 1 .. Len(stack) :
              /\ Handover(x)[k].of = stack[k].of /\ Handover(x)[k].by = stack[k].by
              /\ Handover(x)[k].who = IF k = Len(stack) THEN x ELSE stack[k].who
<1>1. Len(stack) \in 1 .. Len(stack) /\ \A k \in 1 .. Len(stack) : stack[k] \in NativeFrame
  BY TopFacts
<1> DEFINE f == [stack[Len(stack)] EXCEPT !.who = x]
<1>2. f \in NativeFrame /\ f.of = stack[Len(stack)].of /\ f.by = stack[Len(stack)].by /\ f.who = x
  BY <1>1 DEF NativeFrame
<1>3. Handover(x) = [stack EXCEPT ![Len(stack)] = f]
  BY DEF Handover
<1> HIDE DEF f
<1>4. /\ Handover(x) \in Seq(NativeFrame) /\ Len(Handover(x)) = Len(stack)
      /\ \A k \in 1 .. Len(stack) : Handover(x)[k] = IF k = Len(stack) THEN f ELSE stack[k]
  BY <1>1, <1>2, <1>3
<1> QED  BY <1>1, <1>2, <1>4

-----------------------------------------------------------------------------
(* A child reaches its final suspension.                                   *)

\* What Complete and Caught have in common, with the body released now or before.
Ends(c) ==
  /\ stack # <<>> /\ Top.who = c /\ runner[c] = "live" /\ co[c] \in {"running", "catching"}
  /\ FinalSuspend(c)
  /\ body' \in [Children -> {"none", "started", "freed"}] /\ body'[c] # "started"
  /\ \A d \in Children \ {c} : body'[d] = body[d]
  /\ UNCHANGED <<failure, stopped>>

\* A child that ends in complete() gives up its count, and wakes the parent if it was the last.
LEMMA EndsStep ==
  ASSUME ScopeInv, NEW c \in Children, Ends(c)
  PROVE  ScopeInv'
<1> DEFINE last == pending' = 0 /\ join = "waiting"
           x == IF last THEN Parent ELSE Nobody
<1>0. c \in Actors /\ c # Parent /\ c # Nobody /\ Parent \in Actors /\ Parent # Nobody /\ x \in Actors \cup {Nobody}
  BY ActorsAssumption DEF Actors
<1>1. c \in Live /\ Live \in SUBSET Children /\ pending = Cardinality(Live)
  BY DEF Ends, Live, ScopeInv, CountSound
<1>2. pending \in Nat /\ pending > 0 /\ alive /\ join # "joined" /\ used
  BY <1>1, ChildCounts DEF ScopeInv, CountSound
<1>3. /\ runner' = [runner EXCEPT ![c] = "retired"] /\ retired' = retired \cup {c}
      /\ dangling' = dangling /\ pending' = pending - 1 /\ UNCHANGED <<alive, used, failure, stopped>>
  BY <1>2 DEF Ends, FinalSuspend, ChildCompleted, Using
<1>4. /\ stack' = Handover(x) /\ join' = (IF last THEN "joined" ELSE join)
      /\ co' = IF last THEN [co EXCEPT ![c] = "done", ![Parent] = "running"] ELSE [co EXCEPT ![c] = "done"]
  BY DEF Ends, FinalSuspend, ChildCompleted
<1>5. \A y \in Actors : co'[y] = IF y = c THEN "done" ELSE IF last /\ y = Parent THEN "running" ELSE co[y]
  BY <1>0, <1>4 DEF ScopeInv, TypeOK
<1>6. \A d \in Children : runner'[d] = IF d = c THEN "retired" ELSE runner[d]
  BY <1>3 DEF ScopeInv, TypeOK
<1>7. Live' = Live \ {c} /\ pending' = Cardinality(Live')
  <2>1. Live' = Live \ {c}
    BY <1>6 DEF Live
  <2> QED  BY <1>1, <1>3, <2>1, ChildCounts
<1>8. pending' \in 0 .. Cardinality(Children)
  BY <1>1, <1>7, ChildCounts
<1>9. /\ stack \in Seq(NativeFrame) /\ stack # <<>> /\ Len(stack) \in Nat \ {0} /\ stack[Len(stack)].who = c
      /\ stack' \in Seq(NativeFrame) /\ Len(stack') = Len(stack)
      /\ \A k \in 1 .. Len(stack) :
           /\ stack[k] \in NativeFrame /\ stack'[k].of = stack[k].of /\ stack'[k].by = stack[k].by
           /\ stack'[k].who = IF k = Len(stack) THEN x ELSE stack[k].who
  BY <1>0, <1>4, TopFacts, HandoverFacts DEF Ends, ScopeInv, TypeOK
<1> HIDE DEF last, x
<1>10. TypeOK'
  <2>1. co' \in [Actors -> {"idle", "running", "suspended", "catching", "waiting", "done"}]
    BY <1>4, Zenon DEF ScopeInv, TypeOK
  <2>2. /\ runner' \in [Children -> {"none", "live", "retired", "freed"}] /\ retired' \subseteq Children
        /\ join' \in {"open", "requested", "waiting", "joined"}
    BY <1>3, <1>4 DEF ScopeInv, TypeOK
  <2> QED  BY <1>3, <1>8, <1>9, <2>1, <2>2, Zenon DEF Ends, ScopeInv, TypeOK
<1>11. FramesSound'
  <2> SUFFICES ASSUME NEW d \in Children
               PROVE  /\ co'[d] \in {"running", "suspended"} => body'[d] = "started"
                      /\ body'[d] = "started" \/ co'[d] = "catching" => runner'[d] = "live"
                      /\ co'[d] = "catching" => body'[d] # "started"
                      /\ co'[d] = "idle" => runner'[d] = "none"
                      /\ d \in retired' => runner'[d] = "retired"
    BY DEF FramesSound
  <2>1. d \in Actors /\ d # Parent
    BY ActorsAssumption DEF Actors
  <2> QED  BY <1>3, <1>5, <1>6, <2>1 DEF Ends, ScopeInv, FramesSound
<1>12. CountSound'
  <2>1. co'[Parent] = IF last THEN "running" ELSE co[Parent]
    BY <1>0, <1>5
  <2>2. last <=> pending' = 0 /\ join = "waiting"
    BY DEF last
  <2> QED  BY <1>2, <1>3, <1>4, <1>7, <1>8, <2>1, <2>2 DEF ScopeInv, CountSound
<1>13. StackSound'
  <2>1. \A k \in 1 .. Len(stack) : stack'[k].who # Nobody => co'[stack'[k].who] \in {"running", "catching"}
    <3> SUFFICES ASSUME NEW k \in 1 .. Len(stack), stack'[k].who # Nobody
                 PROVE  co'[stack'[k].who] \in {"running", "catching"}
      OBVIOUS
    <3>1. CASE k = Len(stack)
      BY <1>0, <1>5, <1>9, <3>1 DEF x
    <3>2. CASE k # Len(stack)
      <4>1. stack'[k].who = stack[k].who /\ stack[k].who # c /\ stack[k].who \in Actors
        BY <1>0, <1>9, <3>2 DEF ScopeInv, StackSound, NativeFrame
      <4> QED  BY <1>5, <4>1 DEF ScopeInv, StackSound
    <3> QED  BY <3>1, <3>2
  <2>2. \A k \in 1 .. Len(stack) : stack'[k].of # Nobody =>
          /\ k > 1 /\ stack'[k].by # Nobody /\ stack'[k - 1].who = stack'[k].by /\ runner'[stack'[k].of] # "none"
    <3> SUFFICES ASSUME NEW k \in 1 .. Len(stack), stack'[k].of # Nobody
                 PROVE  /\ k > 1 /\ stack'[k].by # Nobody /\ stack'[k - 1].who = stack'[k].by
                        /\ runner'[stack'[k].of] # "none"
      OBVIOUS
    <3>1. /\ k > 1 /\ stack[k].by # Nobody /\ stack[k - 1].who = stack[k].by /\ runner[stack[k].of] # "none"
          /\ stack[k].of \in Children
      BY <1>9 DEF ScopeInv, StackSound, NativeFrame
    <3>2. k - 1 \in 1 .. Len(stack) /\ k - 1 # Len(stack)
      BY <1>9, <3>1
    <3> QED  BY <1>6, <1>9, <3>1, <3>2
  <2>3. \A j, k \in 1 .. Len(stack) : stack'[j].who = stack'[k].who /\ stack'[j].who # Nobody => j = k
    <3>1. \A k \in 1 .. Len(stack) : k # Len(stack) /\ stack[k].who # Nobody => stack[k].who # x
      BY <1>0 DEF x, last, ScopeInv, StackSound, CountSound
    <3> QED  BY <1>9, <3>1 DEF ScopeInv, StackSound
  <2>4. \A j, k \in 1 .. Len(stack) : stack'[j].of = stack'[k].of /\ stack'[j].of # Nobody => j = k
    BY <1>9 DEF ScopeInv, StackSound
  <2> QED  BY <1>9, <2>1, <2>2, <2>3, <2>4 DEF StackSound
<1>14. StartsSound'
  <2> SUFFICES ASSUME NEW k \in 1 .. Len(stack), stack'[k].of # Nobody, stack'[k].by \notin Outsiders
               PROVE  alive' /\ runner'[stack'[k].of] \in {"live", "retired"}
    BY <1>3, <1>9 DEF ScopeInv, StartsSound
  <2>1. stack[k].of \in Children /\ runner[stack[k].of] \in {"live", "retired"} /\ alive
    BY <1>9 DEF ScopeInv, StartsSound, NativeFrame
  <2> QED  BY <1>3, <1>6, <1>9, <2>1
<1> QED  BY <1>10, <1>11, <1>12, <1>13, <1>14 DEF ScopeInv

-----------------------------------------------------------------------------
(* The other steps.                                                        *)

\* spawn() counts its child before it runs.
LEMMA SpawnStep ==
  ASSUME ScopeInv, NEW x \in Actors, NEW c \in Children, Spawn(x, c)
  PROVE  ScopeInv'
<1>0. c \in Actors /\ c # Parent /\ c # Nobody /\ Parent \in Actors /\ x # Nobody
  BY ActorsAssumption DEF Actors
<1>1. /\ stack # <<>> /\ Top.who = x /\ co[x] = "running" /\ alive /\ join = "open" /\ co[c] = "idle"
      /\ pending' = pending + 1 /\ used' = TRUE /\ UNCHANGED <<alive, join, failure, stopped, retired, dangling>>
      /\ stack' = Call(c, x, c)
  BY DEF Spawn, Running, Admits
<1>2. /\ runner' = [runner EXCEPT ![c] = "live"] /\ body' = [body EXCEPT ![c] = "started"]
      /\ co' = [co EXCEPT ![c] = "running"]
  BY DEF Spawn, StartBody
<1>3. /\ \A y \in Actors : co'[y] = IF y = c THEN "running" ELSE co[y]
      /\ \A d \in Children : /\ runner'[d] = IF d = c THEN "live" ELSE runner[d]
                             /\ body'[d] = IF d = c THEN "started" ELSE body[d]
  BY <1>0, <1>2 DEF ScopeInv, TypeOK
<1>4. runner[c] = "none"
  BY <1>1 DEF ScopeInv, FramesSound
<1>5. pending' = Cardinality(Live') /\ pending' \in 0 .. Cardinality(Children) /\ pending' > 0
  <2>1. Live' = Live \cup {c} /\ Live \in SUBSET Children /\ c \in Children \ Live
    BY <1>3, <1>4 DEF Live
  <2>2. pending = Cardinality(Live)
    BY DEF ScopeInv, CountSound
  <2> QED  BY <1>1, <2>1, <2>2, ChildCounts
<1>6. /\ Len(stack) \in Nat \ {0} /\ stack[Len(stack)].who = x
      /\ stack' \in Seq(NativeFrame) /\ Len(stack') = Len(stack) + 1
      /\ \A k \in 1 .. Len(stack) : stack'[k] = stack[k] /\ stack[k] \in NativeFrame
      /\ stack'[Len(stack) + 1] = [of |-> c, by |-> x, who |-> c]
  BY <1>0, <1>1, TopFacts, CallFacts DEF ScopeInv, TypeOK
<1>7. TypeOK'
  <2>1. co' \in [Actors -> {"idle", "running", "suspended", "catching", "waiting", "done"}]
    BY <1>2, Zenon DEF ScopeInv, TypeOK
  <2>2. /\ runner' \in [Children -> {"none", "live", "retired", "freed"}]
        /\ body' \in [Children -> {"none", "started", "freed"}]
    BY <1>2 DEF ScopeInv, TypeOK
  <2> QED  BY <1>1, <1>5, <1>6, <2>1, <2>2, Zenon DEF ScopeInv, TypeOK
<1>8. FramesSound'
  <2>1. \A d \in Children : d \in Actors
    BY DEF Actors
  <2> QED  BY <1>1, <1>3, <1>4, <2>1 DEF ScopeInv, FramesSound
<1>9. CountSound'
  BY <1>0, <1>1, <1>3, <1>5 DEF ScopeInv, CountSound
<1>10. StackSound'
  <2>1. \A k \in 1 .. Len(stack) : stack[k].who \in Actors \cup {Nobody} /\ stack[k].of \in Children \cup {Nobody}
    BY <1>6 DEF NativeFrame
  <2>2. \A k \in 1 .. Len(stack) : stack[k].who # c /\ stack[k].of # c
    BY <1>0, <1>1, <1>4, <2>1 DEF ScopeInv, StackSound
  <2>3. \A k \in 1 .. Len(stack') :
          /\ stack'[k].who # Nobody => co'[stack'[k].who] \in {"running", "catching"}
          /\ stack'[k].of # Nobody => /\ k > 1 /\ stack'[k].by # Nobody /\ stack'[k - 1].who = stack'[k].by
                                      /\ runner'[stack'[k].of] # "none"
    <3> SUFFICES ASSUME NEW k \in 1 .. Len(stack')
                 PROVE  /\ stack'[k].who # Nobody => co'[stack'[k].who] \in {"running", "catching"}
                        /\ stack'[k].of # Nobody =>
                             /\ k > 1 /\ stack'[k].by # Nobody /\ stack'[k - 1].who = stack'[k].by
                             /\ runner'[stack'[k].of] # "none"
      OBVIOUS
    <3>1. CASE k = Len(stack) + 1
      BY <1>0, <1>3, <1>6, <3>1
    <3>2. CASE k \in 1 .. Len(stack)
      <4>1. stack'[k] = stack[k] /\ (k > 1 => stack'[k - 1] = stack[k - 1])
        BY <1>6, <3>2
      <4> QED  BY <1>3, <2>1, <2>2, <3>2, <4>1 DEF ScopeInv, StackSound
    <3> QED  BY <1>6, <3>1, <3>2
  <2>4. \A j, k \in 1 .. Len(stack') :
          /\ stack'[j].who = stack'[k].who /\ stack'[j].who # Nobody => j = k
          /\ stack'[j].of = stack'[k].of /\ stack'[j].of # Nobody => j = k
    <3>1. \A k \in 1 .. Len(stack') : k = Len(stack) + 1 \/ k \in 1 .. Len(stack)
      BY <1>6
    <3>2. stack'[Len(stack) + 1].who = c /\ stack'[Len(stack) + 1].of = c
      BY <1>6
    <3> QED  BY <1>6, <2>2, <3>1, <3>2 DEF ScopeInv, StackSound
  <2> QED  BY <2>3, <2>4 DEF StackSound
<1>11. StartsSound'
  <2> SUFFICES ASSUME NEW k \in 1 .. Len(stack'), stack'[k].of # Nobody, stack'[k].by \notin Outsiders
               PROVE  alive' /\ runner'[stack'[k].of] \in {"live", "retired"}
    BY <1>1 DEF ScopeInv, StartsSound
  <2>1. CASE k = Len(stack) + 1
    BY <1>1, <1>3, <1>6, <2>1
  <2>2. CASE k \in 1 .. Len(stack)
    <3>1. stack[k].of \in Children /\ stack'[k] = stack[k]
      BY <1>6, <2>2 DEF NativeFrame
    <3> QED  BY <1>1, <1>3, <2>2, <3>1 DEF ScopeInv, StartsSound
  <2> QED  BY <1>6, <2>1, <2>2
<1> QED  BY <1>7, <1>8, <1>9, <1>10, <1>11 DEF ScopeInv

\* The frame that is popped was nobody's, and start() frees the runner it may.
LEMMA ReturnStep ==
  ASSUME ScopeInv, Return
  PROVE  ScopeInv'
<1> DEFINE c == Top.of
           frees == c \in Children /\ runner[c] = "retired"
<1>1. /\ stack # <<>> /\ Top.who = Nobody /\ stack' = SubSeq(stack, 1, Len(stack) - 1)
      /\ UNCHANGED <<alive, pending, used, join, failure, stopped, body, co>>
  BY DEF Return
<1>2. /\ Len(stack) \in Nat \ {0} /\ Top = stack[Len(stack)] /\ stack[Len(stack)].who = Nobody
      /\ stack' \in Seq(NativeFrame) /\ Len(stack') = Len(stack) - 1
      /\ \A k \in 1 .. Len(stack) - 1 : stack'[k] = stack[k]
      /\ \A k \in 1 .. Len(stack) : stack[k] \in NativeFrame
  BY <1>1, TopFacts DEF ScopeInv, TypeOK
<1>3. /\ frees => runner' = [runner EXCEPT ![c] = "freed"] /\ retired' = retired \ {c}
      /\ ~frees => UNCHANGED <<retired, runner>>
  BY DEF Return, Reclaim
<1>4. \A d \in Children : runner'[d] = IF frees /\ d = c THEN "freed" ELSE runner[d]
  BY <1>3 DEF ScopeInv, TypeOK
<1>5. Live' = Live
  BY <1>4 DEF Live
<1>6. dangling' \subseteq Actors /\ dangling' \subseteq Outsiders
  <2>1. Top.by \in Actors \cup {Nobody} /\ Top.of \in Children \cup {Nobody} /\ Nobody \notin Children
    BY <1>2, ActorsAssumption DEF NativeFrame
  <2>2. CASE c \in Children /\ Stale(c)
    <3>1. Top.by \in Outsiders
      BY <1>2, <2>1, <2>2 DEF ScopeInv, StartsSound, Stale
    <3> QED  BY <2>2, <3>1 DEF Return, Using, ScopeInv, TypeOK, StartsSound, Actors
  <2>3. CASE ~(c \in Children /\ Stale(c))
    BY <2>3 DEF Return, Using, ScopeInv, TypeOK, StartsSound
  <2> QED  BY <2>2, <2>3
<1>7. TypeOK'
  <2>1. runner' \in [Children -> {"none", "live", "retired", "freed"}] /\ retired' \subseteq Children
    BY <1>3 DEF ScopeInv, TypeOK
  <2> QED  BY <1>1, <1>2, <1>6, <2>1, Zenon DEF ScopeInv, TypeOK
<1>8. FramesSound'
  BY <1>1, <1>3, <1>4 DEF ScopeInv, FramesSound
<1>9. CountSound'
  BY <1>1, <1>5 DEF ScopeInv, CountSound
<1>10. StackSound'
  <2>1. \A k \in 1 .. Len(stack') : k \in 1 .. Len(stack) /\ stack'[k] = stack[k] /\ (k > 1 => stack'[k - 1] = stack[k - 1])
    BY <1>2
  <2>2. \A k \in 1 .. Len(stack') : stack[k].of # Nobody => stack[k].of \in Children
    BY <1>2, <2>1 DEF NativeFrame
  <2>3. \A d \in Children : runner'[d] = "none" => runner[d] = "none"
    BY <1>4
  <2> HIDE DEF c, frees
  <2>4. \A k \in 1 .. Len(stack') : stack'[k].who # Nobody => co'[stack'[k].who] \in {"running", "catching"}
    BY <1>1, <2>1 DEF ScopeInv, StackSound
  <2>5. \A k \in 1 .. Len(stack') : stack'[k].of # Nobody =>
          k > 1 /\ stack'[k].by # Nobody /\ stack'[k - 1].who = stack'[k].by /\ runner'[stack'[k].of] # "none"
    BY <2>1, <2>2, <2>3 DEF ScopeInv, StackSound
  <2>6. \A j, k \in 1 .. Len(stack') :
          /\ stack'[j].who = stack'[k].who /\ stack'[j].who # Nobody => j = k
          /\ stack'[j].of = stack'[k].of /\ stack'[j].of # Nobody => j = k
    BY <2>1 DEF ScopeInv, StackSound
  <2> QED  BY <2>4, <2>5, <2>6 DEF StackSound
<1>11. StartsSound'
  <2> SUFFICES ASSUME NEW k \in 1 .. Len(stack'), stack'[k].of # Nobody, stack'[k].by \notin Outsiders
               PROVE  alive' /\ runner'[stack'[k].of] \in {"live", "retired"}
    BY <1>6 DEF StartsSound
  <2>1. k \in 1 .. Len(stack) /\ k # Len(stack) /\ stack'[k] = stack[k] /\ stack[k].of \in Children
    BY <1>2 DEF NativeFrame
  <2>2. stack[k].of # c
    BY <1>2, <2>1 DEF ScopeInv, StackSound
  <2> QED  BY <1>1, <1>4, <2>1, <2>2 DEF ScopeInv, StartsSound
<1> QED  BY <1>7, <1>8, <1>9, <1>10, <1>11 DEF ScopeInv

\* The owner destroys the scope: whoever it or a child spawned has been left by then, since the
\* spawner would still occupy the frame below.
LEMMA DestroyStep ==
  ASSUME ScopeInv, Destroy
  PROVE  ScopeInv'
<1>1. /\ stack # <<>> /\ Top.who = Parent /\ alive /\ (join = "joined" \/ (join = "open" /\ ~used)) /\ alive' = FALSE
      /\ retired' = {} /\ UNCHANGED <<pending, used, join, failure, stopped, body, co, stack>>
  BY DEF Destroy, Running
<1>2. runner' = [c \in Children |-> IF c \in retired THEN "freed" ELSE runner[c]]
  BY DEF Destroy
<1>3. \A d \in Children : runner'[d] = IF d \in retired THEN "freed" ELSE runner[d]
  BY <1>2
<1>4. dangling' = dangling
  <2>1. ~ \E c \in retired : runner[c] = "freed"
    BY DEF ScopeInv, TypeOK, FramesSound
  <2> QED  BY <2>1 DEF Destroy, Using
<1>5. Live' = Live /\ pending = 0 /\ \A c \in Children : runner[c] # "live"
  <2>1. Live' = Live
    BY <1>3 DEF Live, ScopeInv, FramesSound
  <2>2. pending = 0 /\ pending = Cardinality(Live) /\ Live \in SUBSET Children
    BY <1>1 DEF ScopeInv, CountSound, Live
  <2>3. Live = {}
    BY <2>2, ChildCounts
  <2> QED  BY <2>1, <2>2, <2>3 DEF Live
<1>6. /\ Len(stack) \in Nat \ {0} /\ stack[Len(stack)].who = Parent
      /\ \A k \in 1 .. Len(stack) : stack[k] \in NativeFrame
  BY <1>1, TopFacts DEF ScopeInv, TypeOK
<1>7. TypeOK'
  <2>1. runner' \in [Children -> {"none", "live", "retired", "freed"}]
    BY <1>2 DEF ScopeInv, TypeOK
  <2> QED  BY <1>1, <1>4, <2>1, Zenon DEF ScopeInv, TypeOK
<1>8. FramesSound'
  BY <1>1, <1>3 DEF ScopeInv, FramesSound
<1>9. CountSound'
  BY <1>1, <1>5 DEF ScopeInv, CountSound
<1>10. StackSound'
  <2>1. \A k \in 1 .. Len(stack) : stack[k].of # Nobody => stack[k].of \in Children
    BY <1>6 DEF NativeFrame
  <2>2. \A k \in 1 .. Len(stack) : stack[k].of # Nobody => runner'[stack[k].of] # "none"
    BY <1>3, <2>1 DEF ScopeInv, StackSound
  <2> QED  BY <1>1, <2>2 DEF ScopeInv, StackSound
<1>11. StartsSound'
  <2> SUFFICES ASSUME NEW k \in 1 .. Len(stack), stack[k].of # Nobody PROVE stack[k].by \in Outsiders
    BY <1>1, <1>4 DEF ScopeInv, StartsSound
  <2>1. /\ k > 1 /\ k - 1 \in 1 .. Len(stack) /\ k - 1 # Len(stack)
        /\ stack[k].by # Nobody /\ stack[k - 1].who = stack[k].by
    BY <1>6 DEF ScopeInv, StackSound
  <2>2. stack[k].by # Parent
    BY <1>6, <2>1, ActorsAssumption DEF ScopeInv, StackSound
  <2>3. stack[k].by \notin Children
    <3> SUFFICES ASSUME stack[k].by \in Children PROVE FALSE
      OBVIOUS
    <3>1. co[stack[k].by] \in {"running", "catching"}
      BY <2>1 DEF ScopeInv, StackSound
    <3>2. runner[stack[k].by] = "live"
      BY <3>1 DEF ScopeInv, FramesSound
    <3> QED  BY <1>5, <3>2
  <2> QED  BY <1>6, <2>1, <2>2, <2>3 DEF NativeFrame, Actors
<1> QED  BY <1>7, <1>8, <1>9, <1>10, <1>11 DEF ScopeInv

\* A step that changes only where coroutines stand and who is on the stack.
Moves(x, to) ==
  /\ UNCHANGED <<alive, pending, used, failure, stopped, retired, runner, body, dangling>>
  /\ co' = [co EXCEPT ![x] = to]

\* A coroutine that the loop resumes runs in a native frame of its own.
LEMMA ResumeStep ==
  ASSUME ScopeInv, NEW x \in Actors, Resume(x)
  PROVE  ScopeInv'
<1>0. x # Nobody /\ Parent \in Actors /\ Nobody \notin Actors
  BY ActorsAssumption DEF Actors
<1>1. /\ co[x] = "suspended" /\ Moves(x, "running") /\ join' = join /\ stack' = Call(Nobody, Nobody, x)
  BY DEF Resume, Moves, scope
<1>2. \A y \in Actors : co'[y] = IF y = x THEN "running" ELSE co[y]
  BY <1>1 DEF Moves, ScopeInv, TypeOK
<1>3. /\ Len(stack) \in Nat /\ stack' \in Seq(NativeFrame) /\ Len(stack') = Len(stack) + 1
      /\ \A k \in 1 .. Len(stack) : stack'[k] = stack[k]
      /\ stack'[Len(stack) + 1] = [of |-> Nobody, by |-> Nobody, who |-> x]
  <2>1. stack \in Seq(NativeFrame)
    BY DEF ScopeInv, TypeOK
  <2>2. Nobody \in Children \cup {Nobody} /\ Nobody \in Actors \cup {Nobody} /\ x \in Actors \cup {Nobody}
    OBVIOUS
  <2> QED  BY <1>1, <2>1, <2>2, CallFacts
<1>4. \A k \in 1 .. Len(stack) : stack[k] \in NativeFrame
  BY DEF ScopeInv, TypeOK
<1>5. TypeOK'
  <2>1. co' \in [Actors -> {"idle", "running", "suspended", "catching", "waiting", "done"}]
    BY <1>1 DEF Moves, ScopeInv, TypeOK
  <2> QED  BY <1>1, <1>3, <2>1, Zenon DEF Moves, ScopeInv, TypeOK
<1>6. FramesSound'
  <2>1. \A d \in Children : d \in Actors
    BY DEF Actors
  <2> QED  BY <1>1, <1>2, <2>1 DEF Moves, ScopeInv, FramesSound
<1>7. CountSound'
  BY <1>0, <1>1, <1>2 DEF Moves, ScopeInv, CountSound, Live
<1>8. StackSound'
  <2>1. \A k \in 1 .. Len(stack') : k = Len(stack) + 1 \/ k \in 1 .. Len(stack)
    BY <1>3
  <2>2. \A k \in 1 .. Len(stack) : stack[k].who # x /\ stack[k].who \in Actors \cup {Nobody}
    BY <1>0, <1>1, <1>4 DEF ScopeInv, StackSound, NativeFrame
  <2>3. \A k \in 1 .. Len(stack') :
          /\ stack'[k].who # Nobody => co'[stack'[k].who] \in {"running", "catching"}
          /\ stack'[k].of # Nobody => /\ k > 1 /\ stack'[k].by # Nobody /\ stack'[k - 1].who = stack'[k].by
                                      /\ runner'[stack'[k].of] # "none"
    <3> SUFFICES ASSUME NEW k \in 1 .. Len(stack')
                 PROVE  /\ stack'[k].who # Nobody => co'[stack'[k].who] \in {"running", "catching"}
                        /\ stack'[k].of # Nobody =>
                             /\ k > 1 /\ stack'[k].by # Nobody /\ stack'[k - 1].who = stack'[k].by
                             /\ runner'[stack'[k].of] # "none"
      OBVIOUS
    <3>1. CASE k = Len(stack) + 1
      BY <1>2, <1>3, <3>1
    <3>2. CASE k \in 1 .. Len(stack)
      <4>1. stack'[k] = stack[k] /\ (k > 1 => stack'[k - 1] = stack[k - 1])
        BY <1>3, <3>2
      <4> QED  BY <1>1, <1>2, <2>2, <3>2, <4>1 DEF Moves, ScopeInv, StackSound
    <3> QED  BY <2>1, <3>1, <3>2
  <2>4. stack'[Len(stack) + 1].who = x /\ stack'[Len(stack) + 1].of = Nobody
    BY <1>3
  <2>5. \A j, k \in 1 .. Len(stack') :
          /\ stack'[j].who = stack'[k].who /\ stack'[j].who # Nobody => j = k
          /\ stack'[j].of = stack'[k].of /\ stack'[j].of # Nobody => j = k
    BY <1>3, <2>1, <2>2, <2>4 DEF ScopeInv, StackSound
  <2> QED  BY <2>3, <2>5 DEF StackSound
<1>9. StartsSound'
  <2>1. \A k \in 1 .. Len(stack') : stack'[k].of # Nobody => k \in 1 .. Len(stack) /\ stack'[k] = stack[k]
    BY <1>3
  <2> QED  BY <1>1, <2>1 DEF Moves, ScopeInv, StartsSound
<1> QED  BY <1>5, <1>6, <1>7, <1>8, <1>9 DEF ScopeInv

\* A running coroutine leaves its native frame: it suspends, or waits for the children.
LEMMA LeaveStep ==
  ASSUME ScopeInv, NEW x \in Actors, Running(x), stack' = Handover(Nobody),
         NEW to \in {"suspended", "waiting"}, Moves(x, to),
         IF to = "suspended" THEN join' = join
         ELSE x = Parent /\ join = "requested" /\ join' = "waiting" /\ pending # 0
  PROVE  ScopeInv'
<1>0. x # Nobody /\ Parent \in Actors /\ Parent \notin Children /\ \A d \in Children : d \in Actors
  BY ActorsAssumption DEF Actors
<1>1. stack # <<>> /\ stack[Len(stack)].who = x /\ co[x] = "running" /\ stack \in Seq(NativeFrame)
  BY DEF Running, Top, ScopeInv, TypeOK
<1>2. \A y \in Actors : co'[y] = IF y = x THEN to ELSE co[y]
  BY DEF Moves, ScopeInv, TypeOK
<1>3. /\ Len(stack) \in Nat \ {0} /\ stack' \in Seq(NativeFrame) /\ Len(stack') = Len(stack)
      /\ \A k \in 1 .. Len(stack) :
           /\ stack[k] \in NativeFrame /\ stack'[k].of = stack[k].of /\ stack'[k].by = stack[k].by
           /\ stack'[k].who = IF k = Len(stack) THEN Nobody ELSE stack[k].who
  BY <1>1, TopFacts, HandoverFacts
<1>4. TypeOK'
  <2>1. co' \in [Actors -> {"idle", "running", "suspended", "catching", "waiting", "done"}]
    BY DEF Moves, ScopeInv, TypeOK
  <2>2. join' \in {"open", "requested", "waiting", "joined"}
    BY DEF ScopeInv, TypeOK
  <2> QED  BY <1>3, <2>1, <2>2, Zenon DEF Moves, ScopeInv, TypeOK
<1>5. FramesSound'
  <2> SUFFICES ASSUME NEW d \in Children
               PROVE  /\ co'[d] \in {"running", "suspended"} => body[d] = "started"
                      /\ body[d] = "started" \/ co'[d] = "catching" => runner[d] = "live"
                      /\ co'[d] = "catching" => body[d] # "started"
                      /\ co'[d] = "idle" => runner[d] = "none"
                      /\ d \in retired => runner[d] = "retired"
    BY DEF FramesSound, Moves
  <2>1. co'[d] = IF d = x THEN to ELSE co[d]
    BY <1>0, <1>2
  <2> QED  BY <1>1, <2>1 DEF ScopeInv, FramesSound
<1>6. CountSound'
  <2>1. co'[Parent] = IF Parent = x THEN to ELSE co[Parent]
    BY <1>0, <1>2
  <2>2. pending \in Nat
    BY ChildCounts DEF ScopeInv, TypeOK
  <2> QED  BY <1>1, <2>1, <2>2 DEF Moves, ScopeInv, CountSound, Live
<1>7. StackSound'
  <2>1. \A k \in 1 .. Len(stack) : stack'[k].who # Nobody =>
          k # Len(stack) /\ stack'[k].who = stack[k].who /\ stack[k].who # x /\ stack[k].who \in Actors
    BY <1>0, <1>1, <1>3 DEF ScopeInv, StackSound, NativeFrame
  <2>2. \A k \in 1 .. Len(stack) : stack'[k].who # Nobody => co'[stack'[k].who] \in {"running", "catching"}
    BY <1>2, <2>1 DEF ScopeInv, StackSound
  <2>3. \A k \in 1 .. Len(stack) : stack'[k].of # Nobody =>
          k > 1 /\ stack'[k].by # Nobody /\ stack'[k - 1].who = stack'[k].by /\ runner'[stack'[k].of] # "none"
    <3> SUFFICES ASSUME NEW k \in 1 .. Len(stack), stack'[k].of # Nobody
                 PROVE  k > 1 /\ stack'[k].by # Nobody /\ stack'[k - 1].who = stack'[k].by
                        /\ runner'[stack'[k].of] # "none"
      OBVIOUS
    <3>1. k > 1 /\ stack[k].by # Nobody /\ stack[k - 1].who = stack[k].by /\ runner[stack[k].of] # "none"
      BY <1>3 DEF ScopeInv, StackSound
    <3>2. k - 1 \in 1 .. Len(stack) /\ k - 1 # Len(stack)
      BY <1>3, <3>1
    <3> QED  BY <1>3, <3>1, <3>2 DEF Moves
  <2>4. \A j, k \in 1 .. Len(stack) :
          /\ stack'[j].who = stack'[k].who /\ stack'[j].who # Nobody => j = k
          /\ stack'[j].of = stack'[k].of /\ stack'[j].of # Nobody => j = k
    BY <1>3, <2>1 DEF ScopeInv, StackSound
  <2> QED  BY <1>3, <2>2, <2>3, <2>4 DEF StackSound
<1>8. StartsSound'
  BY <1>3 DEF Moves, ScopeInv, StartsSound
<1> QED  BY <1>4, <1>5, <1>6, <1>7, <1>8 DEF ScopeInv

\* The first exception: the child stays on the stack while the stop callbacks run.
LEMMA ThrowStep ==
  ASSUME ScopeInv, NEW c \in Children, Throw(c)
  PROVE  ScopeInv'
<1>0. c \in Actors /\ c # Parent /\ Parent \in Actors /\ \A d \in Children : d \in Actors
  BY ActorsAssumption DEF Actors
<1>1. /\ body[c] = "started" /\ failure' = c /\ stopped' = TRUE /\ co[c] = "running"
      /\ co' = [co EXCEPT ![c] = "catching"] /\ body' = [body EXCEPT ![c] = "freed"]
      /\ UNCHANGED <<alive, pending, used, join, retired, runner, stack, dangling>>
  BY DEF Throw, ReleaseBody, Running
<1>2. /\ \A y \in Actors : co'[y] = IF y = c THEN "catching" ELSE co[y]
      /\ \A d \in Children : body'[d] = IF d = c THEN "freed" ELSE body[d]
  BY <1>0, <1>1 DEF ScopeInv, TypeOK
<1>3. TypeOK'
  <2>1. /\ co' \in [Actors -> {"idle", "running", "suspended", "catching", "waiting", "done"}]
        /\ body' \in [Children -> {"none", "started", "freed"}]
    BY <1>1, Zenon DEF ScopeInv, TypeOK
  <2> QED  BY <1>1, <2>1, Zenon DEF ScopeInv, TypeOK
<1>4. FramesSound'
  BY <1>0, <1>1, <1>2 DEF ScopeInv, FramesSound
<1>5. CountSound'
  BY <1>0, <1>1, <1>2, Zenon DEF ScopeInv, CountSound, Live
<1>6. StackSound'
  <2>1. \A k \in 1 .. Len(stack) : stack[k].who \in Actors \cup {Nobody}
    <3>1. \A k \in 1 .. Len(stack) : stack[k] \in NativeFrame
      BY DEF ScopeInv, TypeOK
    <3> QED  BY <3>1 DEF NativeFrame
  <2>2. \A k \in 1 .. Len(stack) : stack[k].who # Nobody => co'[stack[k].who] \in {"running", "catching"}
    BY <1>2, <2>1 DEF ScopeInv, StackSound
  <2> QED  BY <1>1, <2>2, Zenon DEF ScopeInv, StackSound
<1>7. StartsSound'
  BY <1>1 DEF ScopeInv, StartsSound
<1> QED  BY <1>3, <1>4, <1>5, <1>6, <1>7 DEF ScopeInv

\* request_stop, join, and an await that finds nothing pending change the scope's own fields only.
LEMMA OwnerStep ==
  ASSUME ScopeInv, UNCHANGED <<alive, pending, used, failure, retired, runner, body, co, stack, dangling>>,
         stopped' \in BOOLEAN, join' \in {"open", "requested", "waiting", "joined"},
         join' = join \/ (join # "waiting" /\ join' # "waiting" /\ (join' # "joined" \/ pending = 0))
  PROVE  ScopeInv'
<1>1. TypeOK'
  BY Zenon DEF ScopeInv, TypeOK
<1>2. FramesSound' /\ StackSound' /\ StartsSound'
  BY DEF ScopeInv, FramesSound, StackSound, StartsSound
<1>3. CountSound'
  BY DEF ScopeInv, CountSound, Live
<1> QED  BY <1>1, <1>2, <1>3 DEF ScopeInv

-----------------------------------------------------------------------------

\* A new scope has no children and a running parent.
LEMMA ScopeInit == Init => ScopeInv
<1> SUFFICES ASSUME Init PROVE ScopeInv
  OBVIOUS
<1>1. Parent \in Actors /\ Parent \notin Children /\ \A c \in Children : c \in Actors
  BY ActorsAssumption DEF Actors
<1>2. PICK cast \in Casts :
        co = [x \in Actors |-> IF x \notin cast THEN "done" ELSE IF x \in Children THEN "idle" ELSE "suspended"]
  BY DEF Init
<1>3. Parent \in cast
  BY ActorsAssumption
<1>4. Live = {} /\ Cardinality(Live) = 0 /\ 0 \in 0 .. Cardinality(Children)
  <2>1. Live = {} /\ Live \in SUBSET Children
    BY DEF Init, Live
  <2> QED  BY <2>1, ChildCounts
<1>5. stack \in Seq(NativeFrame) /\ Len(stack) = 0
  BY DEF Init
<1>6. TypeOK
  <2>1. /\ co \in [Actors -> {"idle", "running", "suspended", "catching", "waiting", "done"}]
        /\ runner \in [Children -> {"none", "live", "retired", "freed"}]
        /\ body \in [Children -> {"none", "started", "freed"}]
    BY <1>2 DEF Init
  <2>2. pending \in 0 .. Cardinality(Children)
    BY <1>4 DEF Init
  <2> QED  BY <1>5, <2>1, <2>2, Zenon DEF Init, TypeOK
<1>7. FramesSound
  BY <1>1, <1>2 DEF Init, FramesSound
<1>8. CountSound
  BY <1>1, <1>2, <1>3, <1>4 DEF Init, CountSound
<1>9. StackSound /\ StartsSound
  BY <1>5 DEF Init, StackSound, StartsSound
<1> QED  BY <1>6, <1>7, <1>8, <1>9 DEF ScopeInv

\* Every step of a child, the parent, a spawner or the stop source keeps the invariant.
LEMMA ScopeStep == ScopeInv /\ [Next]_vars => ScopeInv'
<1> SUFFICES ASSUME ScopeInv, [Next]_vars PROVE ScopeInv'
  OBVIOUS
<1>0. Parent \in Actors
  BY DEF Actors
<1>1. ASSUME NEW x \in Actors, Resume(x) PROVE ScopeInv'
  BY <1>1, ResumeStep
<1>2. ASSUME NEW x \in Actors, Suspend(x) PROVE ScopeInv'
  <2>1. Running(x) /\ stack' = Handover(Nobody) /\ Moves(x, "suspended") /\ join' = join
    BY <1>2 DEF Suspend, Moves, scope
  <2> QED  BY <2>1, LeaveStep
<1>3. ASSUME NEW x \in Actors, RequestStop(x) PROVE ScopeInv'
  <2>1. join' = join /\ stopped' \in BOOLEAN /\ join \in {"open", "requested", "waiting", "joined"}
    BY <1>3 DEF RequestStop, ScopeInv, TypeOK
  <2> QED  BY <1>3, <2>1, OwnerStep DEF RequestStop
<1>4. ASSUME NEW x \in Actors, NEW c \in Children, Spawn(x, c) PROVE ScopeInv'
  BY <1>4, SpawnStep
<1>5. ASSUME NEW c \in Children, Complete(c) PROVE ScopeInv'
  <2>1. Running(c) /\ body[c] = "started" /\ body' = [body EXCEPT ![c] = "freed"] /\ FinalSuspend(c)
        /\ UNCHANGED <<failure, stopped>>
    BY <1>5 DEF Complete, ReleaseBody
  <2>2. /\ body' \in [Children -> {"none", "started", "freed"}] /\ body'[c] # "started"
        /\ \A d \in Children \ {c} : body'[d] = body[d]
    BY <2>1 DEF ScopeInv, TypeOK
  <2>3. runner[c] = "live"
    BY <2>1 DEF ScopeInv, FramesSound
  <2>4. Ends(c)
    BY <2>1, <2>2, <2>3 DEF Ends, Running
  <2> QED  BY <2>4, EndsStep
<1>6. ASSUME NEW c \in Children, Throw(c) PROVE ScopeInv'
  BY <1>6, ThrowStep
<1>7. ASSUME NEW c \in Children, Caught(c) PROVE ScopeInv'
  <2>1. runner[c] = "live" /\ body' = body /\ c \in Actors
    BY <1>7 DEF Caught, ScopeInv, FramesSound, Actors
  <2>2. body[c] # "started"
    BY <1>7 DEF Caught, ScopeInv, FramesSound
  <2>3. Ends(c)
    BY <1>7, <2>1, <2>2 DEF Caught, Ends, ScopeInv, TypeOK
  <2> QED  BY <2>3, EndsStep
<1>8. CASE Return
  BY <1>8, ReturnStep
<1>9. CASE Join
  <2>1. join = "open" /\ join' = "requested" /\ stopped' = stopped /\ stopped \in BOOLEAN
    BY <1>9 DEF Join, ScopeInv, TypeOK
  <2> QED  BY <1>9, <2>1, OwnerStep DEF Join
<1>10. CASE AwaitJoin /\ pending = 0
  <2>1. join = "requested" /\ join' = "joined" /\ stopped' = stopped /\ stopped \in BOOLEAN
    BY <1>10 DEF AwaitJoin, ScopeInv, TypeOK
  <2> QED  BY <1>10, <2>1, OwnerStep DEF AwaitJoin
<1>11. CASE AwaitJoin /\ pending # 0
  <2>1. /\ Running(Parent) /\ stack' = Handover(Nobody) /\ Moves(Parent, "waiting")
        /\ join = "requested" /\ join' = "waiting"
    BY <1>11 DEF AwaitJoin, Moves
  <2> QED  BY <1>0, <1>11, <2>1, LeaveStep
<1>12. CASE Destroy
  BY <1>12, DestroyStep
<1>13. CASE UNCHANGED vars
  <2> USE <1>13 DEF vars, scope, ScopeInv
  <2>1. TypeOK'
    BY DEF TypeOK
  <2>2. FramesSound' /\ StartsSound'
    BY DEF FramesSound, StartsSound
  <2>3. CountSound' /\ StackSound'
    BY DEF CountSound, Live, StackSound
  <2> QED  BY <2>1, <2>2, <2>3
<1> QED  BY <1>1, <1>2, <1>3, <1>4, <1>5, <1>6, <1>7, <1>8, <1>9, <1>10, <1>11, <1>12, <1>13 DEF Next

\* The invariant holds in every behaviour of the scope.
LEMMA ScopeInvariant == Spec => []ScopeInv
  BY ScopeInit, ScopeStep, PTL DEF Spec

\* For any number of children, whatever they spawn, throw and resume inside each other: pending_
\* counts the runners that have not ended, a waiting parent waits for one, and join is over only
\* when every child and its own frame is.
THEOREM ParentWaitsForSomebody == Spec => []WaitIsForSomebody
<1>1. ScopeInv => WaitIsForSomebody
  <2> SUFFICES ASSUME ScopeInv PROVE WaitIsForSomebody
    OBVIOUS
  <2>1. TypeOK /\ pending = Cardinality({c \in Children : runner[c] = "live"})
    BY DEF ScopeInv, CountSound, Live
  <2>2. (join = "waiting" <=> co[Parent] = "waiting") /\ (join = "waiting" => pending > 0)
    BY DEF ScopeInv, CountSound
  <2>3. ASSUME join = "joined" PROVE \A c \in Children : body[c] # "started" /\ runner[c] # "live"
    <3>1. Live \in SUBSET Children /\ Cardinality(Live) = 0
      BY <2>3 DEF ScopeInv, CountSound, Live
    <3>2. Live = {}
      BY <3>1, ChildCounts
    <3> QED  BY <3>2 DEF ScopeInv, FramesSound, Live
  <2> QED  BY <2>1, <2>2, <2>3 DEF WaitIsForSomebody
<1> QED  BY <1>1, ScopeInvariant, PTL

\* Runner frames and the scope are there whenever a child's final suspension, the destructor or a
\* returning start() uses them, unless a coroutine that is neither owner nor child spawned.
THEOREM ScopeNeverDangles == Spec => []NothingDangles
  BY ScopeInvariant, PTL DEF ScopeInv, StartsSound, NothingDangles
=============================================================================
