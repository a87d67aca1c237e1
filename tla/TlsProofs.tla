----------------------------- MODULE TlsProofs ------------------------------
(***************************************************************************)
(* TlsStream keeps its records in order, for any sizes of the buffers, any *)
(* tasks and any way transfers tear the records; so no error is spurious,  *)
(* a clean end is complete and nothing is held back.                       *)
(***************************************************************************)
EXTENDS TlsStepProofs

-----------------------------------------------------------------------------
(* What a step owes besides.                                               *)

\* The rest of what a step of a task owes.
Later(e) ==
  /\ Len(bioIn'[e]) <= BioSize /\ Len(pipe'[e]) <= PipeSize /\ Len(pipe'[Peer(e)]) <= PipeSize
  /\ Begun(e)' /\ Marked(e)' /\ Marked(Peer(e))'
  /\ engine'[e].eof => engine[Peer(e)].shut /\ got'[e] = wrote[Peer(e)]
  /\ engine[e].shut => engine'[e].shut /\ wrote'[e] = wrote[e]
  /\ "eof" \in errors'[e] => engine'[e].eof
  /\ "protocol_error" \in errors'[e] => rejected' \/ "protocol_error" \in errors[e]
  /\ rejected => rejected'

\* A step that keeps both restores the invariant.
LEMMA Restored ==
  ASSUME StreamInv, NEW t \in Tasks, NEW e \in Ends, e = EndOf[t], Shape', OthersKept(t), Kept(t, e), Later(e)
  PROVE  StreamInv'
<1>0. PICK p \in Ends : p = Peer(e) /\ p # e /\ Peer(p) = e /\ \A f \in Ends : f = e \/ f = p
  BY PeerFacts, TwoEnds
<1>1. /\ Shape /\ Bounded /\ Alone /\ EndsSound /\ Early /\ Clean /\ NoSpuriousErrors
  BY Zenon DEF StreamInv
<1>2. Alone' /\ EndsSound'
  <2>1. active' \in [Ends -> BOOLEAN]
    BY Zenon DEF Shape
  <2> QED  BY <1>1, <2>1, Assembled, Zenon DEF Kept
<1>3. /\ engine'[p] = engine[p] /\ ssl'[p] = ssl[p] /\ bioIn'[p] = bioIn[p]
      /\ got'[p] = got[p] /\ wrote'[p] = wrote[p] /\ errors'[p] = errors[p]
  BY <1>0, Zenon DEF OthersKept
<1>4. Bounded'
  <2>1. Len(bioIn[p]) <= BioSize
    BY <1>1 DEF Bounded
  <2>2. Len(bioIn'[p]) <= BioSize /\ Len(pipe'[p]) <= PipeSize
    BY <1>0, <1>3, <2>1 DEF Later
  <2>3. Len(bioIn'[e]) <= BioSize /\ Len(pipe'[e]) <= PipeSize
    BY DEF Later
  <2> QED  BY <1>0, <2>2, <2>3 DEF Bounded
<1>5. Early'
  <2>1. Begun(p)
    BY <1>1, Zenon DEF Early
  <2>2. Begun(p)'
    BY <1>3, <2>1 DEF Begun, Flights
  <2>3. Begun(e)'
    BY Zenon DEF Later
  <2> QED  BY <1>0, <2>2, <2>3 DEF Early
<1>6. \A f \in Ends : Marked(f)'
  <2>1. Marked(e)' /\ Marked(p)'
    BY <1>0 DEF Later
  <2> QED  BY <1>0, <2>1
<1>7. Clean'
  <2>1. engine[p].eof => engine[e].shut /\ got[p] = wrote[e]
    BY <1>0, <1>1 DEF Clean
  <2>2. engine'[p].eof => engine'[e].shut /\ got'[p] = wrote'[e]
    BY <1>3, <2>1 DEF Later
  <2>3. engine'[e].eof => engine'[p].shut /\ got'[e] = wrote'[p]
    BY <1>0, <1>3 DEF Later
  <2>4. "eof" \in errors[p] => engine[p].eof
    BY <1>1 DEF Clean
  <2>5. "eof" \in errors'[p] => engine'[p].eof
    BY <1>3, <2>4
  <2>6. "eof" \in errors'[e] => engine'[e].eof
    BY Zenon DEF Later
  <2>7. ASSUME NEW f \in Ends
        PROVE  /\ engine'[f].eof => engine'[Peer(f)].shut /\ got'[f] = wrote'[Peer(f)]
               /\ "eof" \in errors'[f] => engine'[f].eof
    <3>1. CASE f = e
      BY <1>0, <2>3, <2>6, <3>1
    <3>2. CASE f = p
      BY <1>0, <2>2, <2>5, <3>2
    <3> QED  BY <1>0, <3>1, <3>2
  <2> QED  BY <2>7, Zenon DEF Clean
<1>8. NoSpuriousErrors'
  <2>1. \/ "protocol_error" \in errors'[e] => rejected'
        \/ "protocol_error" \in errors[e]
    BY Zenon DEF Later
  <2>2. (\E f \in Ends : "protocol_error" \in errors[f]) => rejected
    BY <1>1, Zenon DEF NoSpuriousErrors
  <2>3. rejected => rejected'
    BY Zenon DEF Later
  <2>4. ASSUME NEW f \in Ends, "protocol_error" \in errors'[f] PROVE rejected'
    <3>1. CASE f = e
      BY <2>1, <2>2, <2>3, <2>4, <3>1, Zenon
    <3>2. CASE f = p
      BY <1>3, <2>2, <2>3, <2>4, <3>2, Zenon
    <3> QED  BY <1>0, <3>1, <3>2
  <2> QED  BY <2>4, Zenon DEF NoSpuriousErrors
<1> QED  BY <1>2, <1>4, <1>5, <1>6, <1>7, <1>8, Zenon DEF StreamInv

\* The parts of the invariant that a step of a task uses.
LEMMA Before ==
  ASSUME StreamInv, NEW t \in Tasks, NEW e \in Ends, NEW p \in Ends, e = EndOf[t], p = Peer(e)
  PROVE  /\ Shape /\ Alone /\ EndsSound /\ Marked(e) /\ Marked(p) /\ Begun(e) /\ Begun(p)
         /\ Len(bioIn[e]) <= BioSize /\ Len(pipe[e]) <= PipeSize /\ Len(pipe[p]) <= PipeSize
         /\ engine[e].eof => engine[p].shut /\ got[e] = wrote[p]
         /\ "eof" \in errors[e] => engine[e].eof
<1>1. Shape /\ Alone /\ EndsSound /\ Marked(e) /\ Marked(p) /\ Early /\ Bounded /\ Clean
  BY Zenon DEF StreamInv
<1>2. Begun(e) /\ Begun(p)
  BY <1>1, Zenon DEF Early
<1>3. Len(bioIn[e]) <= BioSize /\ Len(pipe[e]) <= PipeSize /\ Len(pipe[p]) <= PipeSize
  BY <1>1, Zenon DEF Bounded
<1>4. /\ engine[e].eof => engine[p].shut /\ got[e] = wrote[p]
      /\ "eof" \in errors[e] => engine[e].eof
  BY <1>1, Zenon DEF Clean
<1> QED  BY <1>1, <1>2, <1>3, <1>4

\* A step that moves no unit and tells nobody anything: only its operation, and whether the
\* engine has failed, change.
LEMMA Quiet ==
  ASSUME StreamInv, NEW t \in Tasks, NEW e \in Ends, e = EndOf[t], OthersKept(t),
         ssl' = ssl, bioIn' = bioIn, bioOut' = bioOut, pipe' = pipe, got' = got, wrote' = wrote, rejected' = rejected,
         engine'[e].ready = engine[e].ready, engine'[e].shut = engine[e].shut, engine'[e].eof = engine[e].eof,
         engine[e].failed => engine'[e].failed,
         errors'[e] \subseteq errors[e] \cup {"truncated"},
         Elems(op'[t].out) \subseteq Elems(op[t].out),
         ~Flushing(op[t], {"fatal"})',
         op[t].kind = "shutdown" /\ op[t].sealed =>
           \/ engine'[e].shut \/ (op'[t].kind = "shutdown" /\ op'[t].sealed)
           \/ engine'[e].failed /\ op'[t].at = "none"
  PROVE  Later(e)
<1>0. PICK p \in Ends : p = Peer(e)
  BY PeerFacts
<1>1. /\ Alone /\ Marked(e) /\ Marked(p) /\ Begun(e)
      /\ Len(bioIn[e]) <= BioSize /\ Len(pipe[e]) <= PipeSize /\ Len(pipe[p]) <= PipeSize
      /\ engine[e].eof => engine[p].shut /\ got[e] = wrote[p]
      /\ "eof" \in errors[e] => engine[e].eof
  BY <1>0, Before, Zenon
<1>2. Begun(e)'
  BY <1>1 DEF Begun, Flights
<1>3. Marked(p)'
  BY <1>0, <1>1, PeerMarked, Zenon
<1>4. Marked(e)'
  <2>1. \A u : u \in Elems(op'[t].out) \/ u \in Elems(pipe'[p]) => u \in Elems(op[t].out) \/ u \in Elems(pipe[p])
    BY Zenon
  <2>2. \A u : u \in Elems(ssl'[e].out) \/ u \in Elems(bioOut'[e]) => u \in Elems(ssl[e].out) \/ u \in Elems(bioOut[e])
    BY Zenon
  <2> QED  BY <1>0, <1>1, <2>1, <2>2, OwnMarked
<1>5. "eof" \in errors'[e] => engine'[e].eof
  BY <1>1, Zenon
<1>6. "protocol_error" \in errors'[e] => rejected' \/ "protocol_error" \in errors[e]
  BY Zenon
<1> QED  BY <1>0, <1>1, <1>2, <1>3, <1>4, <1>5, <1>6, Zenon DEF Later

\* The guard is taken.
LEMMA BeginLater ==
  ASSUME StreamInv, NEW t \in Tasks, NEW e \in Ends, e = EndOf[t], Begin(t)
  PROVE  Later(e)
<1>1. Shape /\ Alone
  BY Zenon DEF StreamInv
<1>2. /\ OthersKept(t) /\ op[t].at = "none" /\ op'[t].at = "call" /\ op'[t].out = <<>>
      /\ engine' = engine /\ ssl' = ssl /\ bioIn' = bioIn /\ bioOut' = bioOut /\ pipe' = pipe
      /\ got' = got /\ wrote' = wrote /\ errors' = errors /\ rejected' = rejected
  BY <1>1, BeginEffect, Zenon
<1>3. op[t].kind # "shutdown"
  BY <1>1, <1>2, NoOpFields, Zenon DEF Alone
<1>4. Elems(op'[t].out) \subseteq Elems(op[t].out)
  BY <1>2, Nothing
<1>5. ~Flushing(op[t], {"fatal"})'
  BY <1>2 DEF Flushing
<1> QED  BY <1>2, <1>3, <1>4, <1>5, Quiet

\* The engine is called.
LEMMA CallLater ==
  ASSUME StreamInv, NEW t \in Tasks, NEW e \in Ends, e = EndOf[t], CallEngine(t)
  PROVE  Later(e)
<1>1. Shape /\ Alone /\ EndsSound
  BY Zenon DEF StreamInv
<1>2. /\ OthersKept(t) /\ op[t].at = "call"
      /\ engine' = engine /\ ssl' = ssl /\ bioIn' = bioIn /\ bioOut' = bioOut /\ pipe' = pipe
      /\ got' = got /\ wrote' = wrote /\ errors' = errors /\ rejected' = rejected
      /\ \/ ~Usable(e, op[t].kind) /\ Left(t)
         \/ Fields(t, "flush", IF op[t].kind = "read" THEN "eof" ELSE "complete")
         \/ Fields(t, "ssl", IF op[t].kind = "read" THEN "eof" ELSE "complete")
  BY <1>1, CallEffect
<1>3. Stands(e, op[t])
  BY <1>1, <1>2, InUse, ZenonT(40) DEF EndSound
<1>4. CASE ~Usable(e, op[t].kind) /\ Left(t)
  <2>1. op'[t].at = "none" /\ op'[t].out = <<>>
    BY <1>4, NoOpFields, Zenon DEF Left
  <2>2. op[t].sealed => engine[e].failed
    BY <1>2, <1>3, <1>4 DEF Stands
  <2>3. ~Flushing(op[t], {"fatal"})' /\ Elems(op'[t].out) \subseteq Elems(op[t].out)
    BY <2>1, Nothing DEF Flushing
  <2> QED  BY <1>2, <2>1, <2>2, <2>3, Quiet, Zenon
<1>5. CASE \/ Fields(t, "flush", IF op[t].kind = "read" THEN "eof" ELSE "complete")
           \/ Fields(t, "ssl", IF op[t].kind = "read" THEN "eof" ELSE "complete")
  <2>1. /\ op'[t].kind = op[t].kind /\ op'[t].sealed = op[t].sealed /\ op'[t].out = op[t].out
        /\ op'[t].step # "fatal"
    BY <1>5 DEF Fields
  <2>2. ~Flushing(op[t], {"fatal"})' /\ Elems(op'[t].out) \subseteq Elems(op[t].out)
    BY <2>1 DEF Flushing
  <2> QED  BY <1>2, <2>1, <2>2, Quiet, Zenon
<1> QED  BY <1>2, <1>4, <1>5

\* A wait is given up.
LEMMA AbandonLater ==
  ASSUME StreamInv, NEW t \in Tasks, NEW e \in Ends, e = EndOf[t],
         Truncated(t) \/ UnderlyingFails(t) \/ Destroy(t)
  PROVE  Later(e)
<1>1. Shape
  BY Zenon DEF StreamInv
<1>2. /\ OthersKept(t) /\ EngineFails(e) /\ Left(t)
      /\ ssl' = ssl /\ bioIn' = bioIn /\ bioOut' = bioOut /\ pipe' = pipe
      /\ got' = got /\ wrote' = wrote /\ rejected' = rejected
      /\ errors'[e] \subseteq errors[e] \cup {"truncated"}
  BY <1>1, AbandonEffect
<1>3. /\ engine'[e].failed /\ engine'[e].ready = engine[e].ready
      /\ engine'[e].shut = engine[e].shut /\ engine'[e].eof = engine[e].eof
  BY <1>2 DEF EngineFails
<1>4. op'[t].at = "none" /\ op'[t].out = <<>>
  BY <1>2, NoOpFields DEF Left
<1>5. ~Flushing(op[t], {"fatal"})' /\ Elems(op'[t].out) \subseteq Elems(op[t].out)
  BY <1>4, Nothing, Zenon DEF Flushing
<1> QED  BY <1>2, <1>3, <1>4, <1>5, Quiet

\* A step that moves units on.
LEMMA Moves ==
  ASSUME StreamInv, NEW t \in Tasks, NEW e \in Ends, NEW p \in Ends, e = EndOf[t], p = Peer(e), OthersKept(t),
         engine' = engine, got' = got, wrote' = wrote, errors' = errors, rejected' = rejected,
         ssl'[e].flight = ssl[e].flight, ssl'[e].sealed = ssl[e].sealed,
         Len(bioIn'[e]) <= BioSize, Len(pipe'[e]) <= PipeSize, Len(pipe'[p]) <= PipeSize,
         op'[t].kind = op[t].kind, op'[t].sealed = op[t].sealed,
         Flushing(op[t], {"fatal"})' => Flushing(op[t], {"fatal"}),
         \A u : u \in Elems(pipe'[e]) \/ u \in Elems(bioIn'[e]) \/ u \in Elems(ssl'[e].in) =>
                u \in Elems(pipe[e]) \/ u \in Elems(bioIn[e]) \/ u \in Elems(ssl[e].in),
         \A u : u \in Elems(op'[t].out) \/ u \in Elems(pipe'[p]) => u \in Elems(op[t].out) \/ u \in Elems(pipe[p]),
         \A u : u \in Elems(ssl'[e].out) \/ u \in Elems(bioOut'[e]) => u \in Elems(ssl[e].out) \/ u \in Elems(bioOut[e])
  PROVE  Later(e)
<1>1. /\ Alone /\ Marked(e) /\ Marked(p) /\ Begun(e)
      /\ engine[e].eof => engine[p].shut /\ got[e] = wrote[p]
      /\ "eof" \in errors[e] => engine[e].eof
  BY Before, Zenon
<1>2. Begun(e)'
  BY <1>1 DEF Begun, Flights
<1>3. Marked(p)'
  BY <1>1, PeerMarked, Zenon
<1>4. Marked(e)'
  BY <1>1, OwnMarked, Zenon
<1> QED  BY <1>1, <1>2, <1>3, <1>4, Zenon DEF Later

\* The first unit of a queue becomes the last of another.
LEMMA Hand ==
  ASSUME NEW q \in Seq(Unit), NEW r \in Seq(Unit), q # <<>>
  PROVE  Elems(Tail(q)) \subseteq Elems(q) /\ Elems(Append(r, Head(q))) \subseteq Elems(r) \cup Elems(q)
<1>1. /\ Len(q) \in Nat /\ Len(q) > 0 /\ Len(Tail(q)) = Len(q) - 1
      /\ \A k \in 1 .. Len(q) - 1 : Tail(q)[k] = q[k + 1]
      /\ Head(q) = q[1] /\ Len(r) \in Nat /\ Len(Append(r, Head(q))) = Len(r) + 1
      /\ \A k \in 1 .. Len(r) + 1 : Append(r, Head(q))[k] = IF k <= Len(r) THEN r[k] ELSE Head(q)
  OBVIOUS
<1>2. ASSUME NEW u \in Elems(Tail(q)) PROVE u \in Elems(q)
  <2>1. PICK k \in 1 .. Len(Tail(q)) : u = Tail(q)[k]
    BY <1>2, Zenon DEF Elems
  <2>2. k \in 1 .. Len(q) - 1 /\ k + 1 \in 1 .. Len(q)
    BY <1>1, <2>1
  <2>3. u = q[k + 1]
    BY <1>1, <2>1, <2>2
  <2> QED  BY <2>2, <2>3, Zenon DEF Elems
<1>3. ASSUME NEW u \in Elems(Append(r, Head(q))) PROVE u \in Elems(r) \cup Elems(q)
  <2>1. PICK k \in 1 .. Len(Append(r, Head(q))) : u = Append(r, Head(q))[k]
    BY <1>3, Zenon DEF Elems
  <2>2. k \in 1 .. Len(r) + 1 /\ 1 \in 1 .. Len(q)
    BY <1>1, <2>1
  <2>3. u = IF k <= Len(r) THEN r[k] ELSE q[1]
    BY <1>1, <2>1, <2>2
  <2>4. k <= Len(r) => k \in 1 .. Len(r)
    BY <1>1, <2>2
  <2> QED  BY <2>2, <2>3, <2>4, Zenon DEF Elems
<1> QED  BY <1>2, <1>3, Zenon

\* OpenSSL pushes a unit, or wants room.
LEMMA PushLater ==
  ASSUME StreamInv, NEW t \in Tasks, NEW e \in Ends, e = EndOf[t], SslPush(t)
  PROVE  Later(e)
<1>0. PICK p \in Ends : p = Peer(e) /\ p # e
  BY PeerFacts
<1>1. /\ Shape /\ Len(bioIn[e]) <= BioSize /\ Len(pipe[e]) <= PipeSize /\ Len(pipe[p]) <= PipeSize
  BY <1>0, Before
<1>2. /\ OthersKept(t) /\ op[t].at = "ssl" /\ ssl[e].out # <<>>
      /\ engine' = engine /\ bioIn' = bioIn /\ pipe' = pipe
      /\ got' = got /\ wrote' = wrote /\ errors' = errors /\ rejected' = rejected
      /\ \/ /\ op' = op /\ bioOut'[e] = Append(bioOut[e], Head(ssl[e].out))
            /\ ssl'[e].out = Tail(ssl[e].out) /\ ssl'[e].in = ssl[e].in /\ ssl'[e].flight = ssl[e].flight
            /\ ssl'[e].sealed = ssl[e].sealed
         \/ Fields(t, "flush", "want_output") /\ ssl' = ssl /\ bioOut' = bioOut
  BY <1>1, PushEffect, Zenon
<1>3. CASE Fields(t, "flush", "want_output") /\ ssl' = ssl /\ bioOut' = bioOut
  <2>1. /\ op'[t].kind = op[t].kind /\ op'[t].sealed = op[t].sealed /\ op'[t].out = op[t].out
        /\ op'[t].step # "fatal"
    BY <1>3 DEF Fields
  <2>2. ~Flushing(op[t], {"fatal"})' /\ Elems(op'[t].out) \subseteq Elems(op[t].out)
    BY <2>1 DEF Flushing
  <2> QED  BY <1>2, <1>3, <2>1, <2>2, Quiet, Zenon
<1>4. CASE /\ op' = op /\ bioOut'[e] = Append(bioOut[e], Head(ssl[e].out))
           /\ ssl'[e].out = Tail(ssl[e].out) /\ ssl'[e].in = ssl[e].in /\ ssl'[e].flight = ssl[e].flight
           /\ ssl'[e].sealed = ssl[e].sealed
  <2>1. ssl[e].out \in Seq(Unit) /\ bioOut[e] \in Seq(Unit)
    BY <1>1, Typed
  <2>2. PICK q \in Seq(Unit), r \in Seq(Unit) : q = ssl[e].out /\ r = bioOut[e]
    BY <2>1, Zenon
  <2>3. Elems(Tail(q)) \subseteq Elems(q) /\ Elems(Append(r, Head(q))) \subseteq Elems(r) \cup Elems(q)
    BY <1>2, <2>2, Hand
  <2>4. \A u : u \in Elems(ssl'[e].out) \/ u \in Elems(bioOut'[e]) => u \in Elems(ssl[e].out) \/ u \in Elems(bioOut[e])
    <3>1. ssl'[e].out = Tail(q) /\ bioOut'[e] = Append(r, Head(q))
      BY <1>4, <2>2
    <3>2. Elems(ssl'[e].out) = Elems(Tail(q)) /\ Elems(bioOut'[e]) = Elems(Append(r, Head(q)))
      BY <3>1
    <3> QED  BY <2>2, <2>3, <3>2, Zenon
  <2>5. /\ pipe'[p] = pipe[p] /\ pipe'[e] = pipe[e] /\ bioIn'[e] = bioIn[e] /\ op'[t] = op[t]
    BY <1>2, <1>4
  <2>6. Flushing(op[t], {"fatal"})' => Flushing(op[t], {"fatal"})
    BY <2>5, Zenon DEF Flushing
  <2>7. \A u : u \in Elems(pipe'[e]) \/ u \in Elems(bioIn'[e]) \/ u \in Elems(ssl'[e].in) =>
                u \in Elems(pipe[e]) \/ u \in Elems(bioIn[e]) \/ u \in Elems(ssl[e].in)
    BY <1>4, <2>5, Zenon
  <2>8. \A u : u \in Elems(op'[t].out) \/ u \in Elems(pipe'[p]) => u \in Elems(op[t].out) \/ u \in Elems(pipe[p])
    BY <2>5
  <2> QED  BY <1>0, <1>1, <1>2, <1>4, <2>4, <2>5, <2>6, <2>7, <2>8, Moves, ZenonT(40)
<1> QED  BY <1>2, <1>3, <1>4

\* OpenSSL takes a unit, or wants input.
LEMMA PullLater ==
  ASSUME StreamInv, NEW t \in Tasks, NEW e \in Ends, e = EndOf[t], SslPull(t)
  PROVE  Later(e)
<1>0. PICK p \in Ends : p = Peer(e) /\ p # e
  BY PeerFacts
<1>1. /\ Shape /\ Len(bioIn[e]) <= BioSize /\ Len(pipe[e]) <= PipeSize /\ Len(pipe[p]) <= PipeSize
  BY <1>0, Before
<1>2. /\ OthersKept(t) /\ op[t].at = "ssl"
      /\ engine' = engine /\ bioOut' = bioOut /\ pipe' = pipe
      /\ got' = got /\ wrote' = wrote /\ errors' = errors /\ rejected' = rejected
      /\ \/ /\ op' = op /\ bioIn[e] # <<>> /\ bioIn'[e] = Tail(bioIn[e])
            /\ ssl'[e].in = Append(ssl[e].in, Head(bioIn[e])) /\ ssl'[e].out = ssl[e].out
            /\ ssl'[e].flight = ssl[e].flight /\ ssl'[e].sealed = ssl[e].sealed
         \/ Fields(t, "flush", "want_input") /\ ssl' = ssl /\ bioIn' = bioIn
  BY <1>1, PullEffect, Zenon
<1>3. CASE Fields(t, "flush", "want_input") /\ ssl' = ssl /\ bioIn' = bioIn
  <2>1. /\ op'[t].kind = op[t].kind /\ op'[t].sealed = op[t].sealed /\ op'[t].out = op[t].out
        /\ op'[t].step # "fatal"
    BY <1>3 DEF Fields
  <2>2. ~Flushing(op[t], {"fatal"})' /\ Elems(op'[t].out) \subseteq Elems(op[t].out)
    BY <2>1 DEF Flushing
  <2> QED  BY <1>2, <1>3, <2>1, <2>2, Quiet, ZenonT(40)
<1>4. CASE /\ op' = op /\ bioIn[e] # <<>> /\ bioIn'[e] = Tail(bioIn[e])
           /\ ssl'[e].in = Append(ssl[e].in, Head(bioIn[e])) /\ ssl'[e].out = ssl[e].out
           /\ ssl'[e].flight = ssl[e].flight /\ ssl'[e].sealed = ssl[e].sealed
  <2>1. ssl[e].in \in Seq(Unit) /\ bioIn[e] \in Seq(Unit)
    BY <1>1, Typed
  <2>2. PICK q \in Seq(Unit), r \in Seq(Unit) : q = bioIn[e] /\ r = ssl[e].in
    BY <2>1, Zenon
  <2>3. Elems(Tail(q)) \subseteq Elems(q) /\ Elems(Append(r, Head(q))) \subseteq Elems(r) \cup Elems(q)
    BY <1>4, <2>2, Hand
  <2>4. bioIn'[e] = Tail(q) /\ ssl'[e].in = Append(r, Head(q))
    BY <1>4, <2>2, Zenon
  <2>5. /\ pipe'[p] = pipe[p] /\ pipe'[e] = pipe[e] /\ bioOut'[e] = bioOut[e] /\ op'[t] = op[t]
    BY <1>2, <1>4, Zenon
  <2>6. Flushing(op[t], {"fatal"})' => Flushing(op[t], {"fatal"})
    BY <2>5 DEF Flushing
  <2>7. \A u : u \in Elems(pipe'[e]) \/ u \in Elems(bioIn'[e]) \/ u \in Elems(ssl'[e].in) =>
                u \in Elems(pipe[e]) \/ u \in Elems(bioIn[e]) \/ u \in Elems(ssl[e].in)
    <3>1. /\ Elems(bioIn'[e]) = Elems(Tail(q)) /\ Elems(ssl'[e].in) = Elems(Append(r, Head(q)))
          /\ Elems(pipe'[e]) = Elems(pipe[e])
      BY <2>4, <2>5, Zenon
    <3> QED  BY <2>2, <2>3, <3>1, Zenon
  <2>8. \A u : u \in Elems(op'[t].out) \/ u \in Elems(pipe'[p]) => u \in Elems(op[t].out) \/ u \in Elems(pipe[p])
    BY <2>5, Zenon
  <2>9. \A u : u \in Elems(ssl'[e].out) \/ u \in Elems(bioOut'[e]) => u \in Elems(ssl[e].out) \/ u \in Elems(bioOut[e])
    BY <1>4, <2>5, Zenon
  <2>10. Len(bioIn'[e]) <= BioSize
    <3>1. PICK n \in Nat : n = Len(q) /\ n > 0
      BY <1>4, <2>2
    <3>2. Len(Tail(q)) = n - 1
      BY <1>4, <2>2, <3>1
    <3> QED  BY <1>1, <2>2, <2>4, <3>1, <3>2, SizesAssumption
  <2> QED  BY <1>0, <1>1, <1>2, <1>4, <2>5, <2>6, <2>7, <2>8, <2>9, <2>10, Moves, ZenonT(40)
<1> QED  BY <1>2, <1>3, <1>4, Zenon

\* Some of a queue is moved to the end of another.
LEMMA Share ==
  ASSUME NEW q \in Seq(Unit), NEW r \in Seq(Unit), NEW n \in 1 .. Len(q)
  PROVE  /\ Elems(SubSeq(q, n + 1, Len(q))) \subseteq Elems(q) /\ Len(SubSeq(q, n + 1, Len(q))) = Len(q) - n
         /\ Elems(r \o SubSeq(q, 1, n)) \subseteq Elems(r) \cup Elems(q)
         /\ Len(r \o SubSeq(q, 1, n)) = Len(r) + n
<1>1. PICK m \in Nat : m = Len(q) /\ n \in 1 .. m
  OBVIOUS
<1>2. /\ Len(SubSeq(q, n + 1, m)) = m - n /\ Len(SubSeq(q, 1, n)) = n
      /\ \A k \in 1 .. m - n : SubSeq(q, n + 1, m)[k] = q[n + k]
      /\ \A k \in 1 .. n : SubSeq(q, 1, n)[k] = q[k]
  BY <1>1
<1>3. SubSeq(q, 1, n) \in Seq(Unit)
  BY <1>1
<1>4. PICK s \in Seq(Unit) : s = SubSeq(q, 1, n) /\ Len(s) = n /\ \A k \in 1 .. n : s[k] = q[k]
  BY <1>2, <1>3, Zenon
<1>5. /\ Len(r) \in Nat /\ Len(r \o s) = Len(r) + n
      /\ \A k \in 1 .. Len(r) + n : (r \o s)[k] = IF k <= Len(r) THEN r[k] ELSE s[k - Len(r)]
  BY <1>4
<1>6. ASSUME NEW u \in Elems(SubSeq(q, n + 1, m)) PROVE u \in Elems(q)
  <2>1. PICK k \in 1 .. m - n : u = SubSeq(q, n + 1, m)[k]
    BY <1>2, <1>6 DEF Elems
  <2>2. u = q[n + k] /\ n + k \in 1 .. Len(q)
    BY <1>1, <1>2, <2>1
  <2> QED  BY <2>2, Zenon DEF Elems
<1>7. ASSUME NEW u \in Elems(r \o s) PROVE u \in Elems(r) \cup Elems(q)
  <2>1. PICK k \in 1 .. Len(r) + n : u = (r \o s)[k]
    BY <1>5, <1>7 DEF Elems
  <2>2. k <= Len(r) => k \in 1 .. Len(r) /\ u = r[k]
    BY <1>5, <2>1
  <2>3. k > Len(r) => k - Len(r) \in 1 .. n /\ u = s[k - Len(r)]
    BY <1>5, <2>1
  <2>4. k > Len(r) => k - Len(r) \in 1 .. Len(q) /\ u = q[k - Len(r)]
    BY <1>1, <1>4, <1>5, <2>3
  <2>5. k <= Len(r) \/ k > Len(r)
    BY <1>5, <2>1
  <2> QED  BY <2>2, <2>4, <2>5, Zenon DEF Elems
<1>8. Elems(SubSeq(q, n + 1, m)) \subseteq Elems(q) /\ Elems(r \o s) \subseteq Elems(r) \cup Elems(q)
  BY <1>6, <1>7, ZenonT(40)
<1> QED  BY <1>1, <1>2, <1>4, <1>5, <1>8, Zenon

\* The underlying stream takes some of what is drained.
LEMMA WriteLater ==
  ASSUME StreamInv, NEW t \in Tasks, NEW e \in Ends, e = EndOf[t], WriteSome(t)
  PROVE  Later(e)
<1>0. PICK p \in Ends : p = Peer(e) /\ p # e
  BY PeerFacts
<1>1. /\ Shape /\ EndsSound /\ Alone
      /\ Len(bioIn[e]) <= BioSize /\ Len(pipe[e]) <= PipeSize /\ Len(pipe[p]) <= PipeSize
  BY <1>0, Before
<1>2. /\ OthersKept(t) /\ op[t].at = "flush"
      /\ engine' = engine /\ ssl' = ssl /\ bioIn' = bioIn /\ bioOut' = bioOut
      /\ got' = got /\ wrote' = wrote /\ errors' = errors /\ rejected' = rejected
      /\ op'[t].at = "flush" /\ op'[t].step = op[t].step /\ op'[t].kind = op[t].kind
      /\ op'[t].sealed = op[t].sealed /\ pipe'[e] = pipe[e]
  BY <1>0, <1>1, WriteEffect, Zenon
<1>3. PICK n \in 1 .. Len(op[t].out) :
        /\ n <= PipeSize - Len(pipe[p])
        /\ pipe'[p] = pipe[p] \o SubSeq(op[t].out, 1, n)
        /\ op'[t].out = SubSeq(op[t].out, n + 1, Len(op[t].out))
  BY <1>0, <1>1, WriteEffect, ZenonT(40)
<1>4. op[t].out \in Seq(Unit) /\ pipe[p] \in Seq(Unit)
  BY <1>1, Typed, Zenon
<1>5. PICK q \in Seq(Unit), r \in Seq(Unit) : q = op[t].out /\ r = pipe[p]
  BY <1>4
<1>6. /\ Elems(SubSeq(q, n + 1, Len(q))) \subseteq Elems(q)
      /\ Elems(r \o SubSeq(q, 1, n)) \subseteq Elems(r) \cup Elems(q)
      /\ Len(r \o SubSeq(q, 1, n)) = Len(r) + n
  <2>1. n \in 1 .. Len(q)
    BY <1>3, <1>5
  <2> QED  BY <2>1, Share
<1>7. pipe'[p] = r \o SubSeq(q, 1, n) /\ op'[t].out = SubSeq(q, n + 1, Len(q))
  BY <1>3, <1>5
<1>8. \A u : u \in Elems(op'[t].out) \/ u \in Elems(pipe'[p]) => u \in Elems(op[t].out) \/ u \in Elems(pipe[p])
  <2>1. Elems(pipe'[p]) = Elems(r \o SubSeq(q, 1, n)) /\ Elems(op'[t].out) = Elems(SubSeq(q, n + 1, Len(q)))
    BY <1>7
  <2> QED  BY <1>5, <1>6, <2>1
<1>9. Len(pipe'[p]) <= PipeSize
  <2>1. PICK m \in Nat : m = Len(r)
    OBVIOUS
  <2>2. n <= PipeSize - m /\ Len(pipe'[p]) = m + n
    BY <1>3, <1>5, <1>6, <1>7, <2>1, Zenon
  <2> QED  BY <2>2, SizesAssumption
<1>10. Flushing(op[t], {"fatal"})' => Flushing(op[t], {"fatal"})
  BY <1>2, Zenon DEF Flushing
<1>11. \A u : u \in Elems(pipe'[e]) \/ u \in Elems(bioIn'[e]) \/ u \in Elems(ssl'[e].in) =>
              u \in Elems(pipe[e]) \/ u \in Elems(bioIn[e]) \/ u \in Elems(ssl[e].in)
  BY <1>2
<1>12. \A u : u \in Elems(ssl'[e].out) \/ u \in Elems(bioOut'[e]) => u \in Elems(ssl[e].out) \/ u \in Elems(bioOut[e])
  BY <1>2
<1> QED  BY <1>0, <1>1, <1>2, <1>8, <1>9, <1>10, <1>11, <1>12, Moves, Zenon

\* Ciphertext arrives.
LEMMA ReceiveLater ==
  ASSUME StreamInv, NEW t \in Tasks, NEW e \in Ends, e = EndOf[t], Receive(t)
  PROVE  Later(e)
<1>0. PICK p \in Ends : p = Peer(e) /\ p # e
  BY PeerFacts
<1>1. /\ Shape /\ EndsSound /\ Alone
      /\ Len(bioIn[e]) <= BioSize /\ Len(pipe[e]) <= PipeSize /\ Len(pipe[p]) <= PipeSize
  BY <1>0, Before
<1>2. InputCapacity(e) # 0
  BY <1>1, ReceiveKeeps, Zenon
<1>3. /\ OthersKept(t) /\ op[t].at = "receive"
      /\ engine' = engine /\ ssl' = ssl /\ bioOut' = bioOut
      /\ got' = got /\ wrote' = wrote /\ errors' = errors /\ rejected' = rejected
      /\ Fields(t, "call", op[t].step) /\ pipe'[p] = pipe[p]
  BY <1>0, <1>1, <1>2, ReceiveEffect
<1>4. PICK n \in 1 .. Len(pipe[e]) :
        /\ n <= InputCapacity(e)
        /\ bioIn'[e] = bioIn[e] \o SubSeq(pipe[e], 1, n)
        /\ pipe'[e] = SubSeq(pipe[e], n + 1, Len(pipe[e]))
  BY <1>1, <1>2, ReceiveEffect, Zenon
<1>5. /\ op'[t].kind = op[t].kind /\ op'[t].sealed = op[t].sealed /\ op'[t].out = op[t].out /\ op'[t].at = "call"
  BY <1>3 DEF Fields
<1>6. bioIn[e] \in Seq(Unit) /\ pipe[e] \in Seq(Unit)
  BY <1>1, Typed, Zenon
<1>7. PICK q \in Seq(Unit), r \in Seq(Unit) : q = pipe[e] /\ r = bioIn[e]
  BY <1>6
<1>8. /\ Elems(SubSeq(q, n + 1, Len(q))) \subseteq Elems(q) /\ Len(SubSeq(q, n + 1, Len(q))) = Len(q) - n
      /\ Elems(r \o SubSeq(q, 1, n)) \subseteq Elems(r) \cup Elems(q)
      /\ Len(r \o SubSeq(q, 1, n)) = Len(r) + n
  <2>1. n \in 1 .. Len(q)
    BY <1>4, <1>7
  <2> QED  BY <2>1, Share
<1>9. bioIn'[e] = r \o SubSeq(q, 1, n) /\ pipe'[e] = SubSeq(q, n + 1, Len(q))
  BY <1>4, <1>7, Zenon
<1>10. \A u : u \in Elems(pipe'[e]) \/ u \in Elems(bioIn'[e]) \/ u \in Elems(ssl'[e].in) =>
              u \in Elems(pipe[e]) \/ u \in Elems(bioIn[e]) \/ u \in Elems(ssl[e].in)
  <2>1. /\ Elems(bioIn'[e]) = Elems(r \o SubSeq(q, 1, n)) /\ Elems(pipe'[e]) = Elems(SubSeq(q, n + 1, Len(q)))
        /\ Elems(ssl'[e].in) = Elems(ssl[e].in)
    BY <1>3, <1>9
  <2> QED  BY <1>7, <1>8, <2>1, Zenon
<1>11. Len(bioIn'[e]) <= BioSize
  <2>1. PICK m \in Nat : m = Len(r)
    OBVIOUS
  <2>2. InputCapacity(e) = BioSize - m
    BY <1>2, <1>7, <2>1 DEF InputCapacity
  <2>3. n <= BioSize - m /\ Len(bioIn'[e]) = m + n
    BY <1>4, <1>8, <1>9, <2>1, <2>2, ZenonT(40)
  <2> QED  BY <2>3, SizesAssumption
<1>12. Len(pipe'[e]) <= PipeSize
  <2>1. PICK m \in Nat : m = Len(q)
    OBVIOUS
  <2>2. m <= PipeSize /\ Len(pipe'[e]) = m - n
    BY <1>1, <1>7, <1>8, <1>9, <2>1, Zenon
  <2> QED  BY <2>2, SizesAssumption
<1>13. Flushing(op[t], {"fatal"})' => Flushing(op[t], {"fatal"})
  BY <1>5 DEF Flushing
<1>14. \A u : u \in Elems(op'[t].out) \/ u \in Elems(pipe'[p]) => u \in Elems(op[t].out) \/ u \in Elems(pipe[p])
  BY <1>3, <1>5, Zenon
<1>15. \A u : u \in Elems(ssl'[e].out) \/ u \in Elems(bioOut'[e]) => u \in Elems(ssl[e].out) \/ u \in Elems(bioOut[e])
  BY <1>3
<1> QED  BY <1>0, <1>1, <1>3, <1>5, <1>10, <1>11, <1>12, <1>13, <1>14, <1>15, Moves, ZenonT(40)

\* An operation completes.
LEMMA AfterFlushLater ==
  ASSUME StreamInv, NEW t \in Tasks, NEW e \in Ends, e = EndOf[t], AfterFlush(t)
  PROVE  Later(e)
<1>0. PICK p \in Ends : p = Peer(e) /\ p # e
  BY PeerFacts, Zenon
<1>1. /\ Shape /\ EndsSound /\ Alone /\ Marked(e) /\ Marked(p) /\ Begun(e)
      /\ Len(bioIn[e]) <= BioSize /\ Len(pipe[e]) <= PipeSize /\ Len(pipe[p]) <= PipeSize
      /\ engine[e].eof => engine[p].shut /\ got[e] = wrote[p]
      /\ "eof" \in errors[e] => engine[e].eof
  BY <1>0, Before
<1>2. /\ OthersKept(t) /\ op[t].at = "flush" /\ op[t].out = <<>>
      /\ engine' = engine /\ ssl' = ssl /\ bioIn' = bioIn /\ bioOut' = bioOut /\ pipe' = pipe /\ rejected' = rejected
      /\ \/ op[t].step = "want_output" /\ Fields(t, "call", op[t].step)
         \/ op[t].step = "want_input" /\ Fields(t, "receive", op[t].step)
         \/ op[t].step \notin {"want_output", "want_input"} /\ Left(t)
  BY <1>1, AfterFlushEffect, Zenon
<1>3. /\ got'[e] = IF op[t].step = "complete" /\ op[t].kind = "read" THEN got[e] + 1 ELSE got[e]
      /\ wrote'[e] = IF op[t].step = "complete" /\ op[t].kind = "write" THEN wrote[e] + 1 ELSE wrote[e]
      /\ errors'[e] = IF op[t].step = "eof" THEN errors[e] \cup {"eof"} ELSE errors[e]
  BY <1>1, AfterFlushEffect, Zenon
<1>4. Stands(e, op[t])
  BY <1>1, <1>2, InUse, Zenon DEF EndSound
<1>5. got[e] \in Nat /\ wrote[e] \in Nat /\ op[t] \in OpType
  BY <1>1, Typed, Zenon
<1>6. Len(bioIn'[e]) <= BioSize /\ Len(pipe'[e]) <= PipeSize /\ Len(pipe'[p]) <= PipeSize
  BY <1>1, <1>2
<1>7. op[t].step = "complete" /\ op[t].kind = "read" =>
        got[e] < MaxWrites /\ engine[e].ready /\ ~engine[e].eof
  BY <1>2, <1>4, Zenon DEF Stands, Flushing, Usable
<1>8. op[t].step = "complete" /\ op[t].kind = "write" =>
        wrote[e] < MaxWrites /\ engine[e].ready /\ ~engine[e].shut
  BY <1>2, <1>4, Zenon DEF Stands, Flushing, Usable
<1>9. Begun(e)'
  <2>1. /\ engine[e].ready => ssl[e].flight = 3
        /\ ~engine[e].ready => got[e] = 0 /\ wrote[e] = 0 /\ ~engine[e].eof /\ ~engine[e].shut
        /\ got[e] <= MaxWrites /\ wrote[e] <= MaxWrites
        /\ engine[e].shut => ssl[e].sealed = Flights(e) + wrote[e] + 1
    BY <1>1 DEF Begun
  <2>2. ~engine'[e].ready => got'[e] = 0 /\ wrote'[e] = 0 /\ ~engine'[e].eof /\ ~engine'[e].shut
    BY <1>2, <1>3, <1>7, <1>8, <2>1, ZenonT(40)
  <2>3. got'[e] <= MaxWrites /\ wrote'[e] <= MaxWrites
    BY <1>3, <1>5, <1>7, <1>8, <2>1, SizesAssumption
  <2>4. engine'[e].shut => ssl'[e].sealed = Flights(e) + wrote'[e] + 1
    BY <1>2, <1>3, <1>8, <2>1, Zenon
  <2> QED  BY <1>2, <2>1, <2>2, <2>3, <2>4, ZenonT(40) DEF Begun, Flights
<1>10. Marked(p)'
  BY <1>0, <1>1, <1>2, PeerMarked, Zenon
<1>11. /\ op'[t].out = <<>> /\ op'[t].at # "flush"
       /\ \/ op'[t].kind = op[t].kind /\ op'[t].sealed = op[t].sealed
          \/ op[t].step \notin {"want_output", "want_input"}
  <2>1. CASE Left(t)
    BY <1>2, <2>1, NoOpFields, Zenon DEF Fields, Left
  <2>2. CASE \E at \in {"call", "receive"} : Fields(t, at, op[t].step)
    BY <1>2, <2>2 DEF Fields
  <2> QED  BY <1>2, <2>1, <2>2, ZenonT(40)
<1>12. op[t].kind = "shutdown" /\ op[t].sealed =>
         engine'[e].shut \/ (op'[t].kind = "shutdown" /\ op'[t].sealed)
  <2>1. op[t].step \in {"none", "complete", "eof", "want_output", "want_input", "fatal"}
    BY <1>5 DEF OpType
  <2>2. op[t].kind = "shutdown" /\ op[t].step = "complete" => engine[e].shut
    BY <1>2, <1>4, Zenon DEF Stands, Flushing, Known
  <2>3. op[t].kind = "shutdown" => op[t].step \notin {"eof", "fatal", "none"}
    BY <1>2, <1>4, Zenon DEF Stands, Flushing
  <2> QED  BY <1>2, <1>11, <2>1, <2>2, <2>3, ZenonT(40)
<1>13. Marked(e)'
  <2>1. \A u : u \in Elems(op'[t].out) \/ u \in Elems(pipe'[p]) => u \in Elems(op[t].out) \/ u \in Elems(pipe[p])
    BY <1>2, <1>11
  <2>2. \A u : u \in Elems(ssl'[e].out) \/ u \in Elems(bioOut'[e]) => u \in Elems(ssl[e].out) \/ u \in Elems(bioOut[e])
    BY <1>2
  <2>3. ~Flushing(op[t], {"fatal"})'
    BY <1>11 DEF Flushing
  <2> QED  BY <1>0, <1>1, <1>2, <1>12, <2>1, <2>2, <2>3, OwnMarked, ZenonT(40)
<1>14. engine'[e].eof => engine[p].shut /\ got'[e] = wrote[p]
  BY <1>1, <1>2, <1>3, <1>7, ZenonT(40)
<1>15. engine[e].shut => engine'[e].shut /\ wrote'[e] = wrote[e]
  BY <1>2, <1>3, <1>8
<1>16. "eof" \in errors'[e] => engine'[e].eof
  <2>1. op[t].step = "eof" => engine[e].eof
    BY <1>2, <1>4, ZenonT(40) DEF Stands, Flushing
  <2> QED  BY <1>1, <1>2, <1>3, <2>1, Zenon
<1>17. "protocol_error" \in errors'[e] => rejected' \/ "protocol_error" \in errors[e]
  BY <1>3
<1> QED  BY <1>0, <1>2, <1>6, <1>9, <1>10, <1>13, <1>14, <1>15, <1>16, <1>17, ZenonT(40) DEF Later

\* OpenSSL is done.
LEMMA DoneLater ==
  ASSUME StreamInv, NEW t \in Tasks, NEW e \in Ends, e = EndOf[t], SslDone(t)
  PROVE  Later(e)
<1>0. PICK p \in Ends : p = Peer(e) /\ p # e
  BY PeerFacts, Zenon
<1>1. /\ Shape /\ EndsSound /\ Alone /\ Marked(e) /\ Marked(p) /\ Begun(e)
      /\ Len(bioIn[e]) <= BioSize /\ Len(pipe[e]) <= PipeSize /\ Len(pipe[p]) <= PipeSize
      /\ engine[e].eof => engine[p].shut /\ got[e] = wrote[p]
      /\ "eof" \in errors[e] => engine[e].eof
  BY <1>0, Before
<1>2. /\ OthersKept(t) /\ op[t].at = "ssl"
      /\ IF op[t].kind = "handshake" THEN ssl[e].flight = 3 ELSE op[t].sealed
      /\ ssl' = ssl /\ bioIn' = bioIn /\ bioOut' = bioOut /\ pipe' = pipe
      /\ got' = got /\ wrote' = wrote /\ errors' = errors /\ rejected' = rejected
      /\ Fields(t, "flush", "complete")
      /\ engine'[e].ready /\ engine'[e].shut = (engine[e].shut \/ op[t].kind = "shutdown")
      /\ engine'[e].failed = engine[e].failed /\ engine'[e].eof = engine[e].eof
  BY <1>1, DoneEffect
<1>3. Stands(e, op[t]) /\ Counts(e, op[t])
  BY <1>1, <1>2, InUse, Zenon DEF EndSound
<1>4. Usable(e, op[t].kind) /\ ~Known(e, op[t].kind) /\ ~engine[e].failed
  BY <1>2, <1>3, Zenon DEF Stands, Usable
<1>5. /\ op'[t].kind = op[t].kind /\ op'[t].sealed = op[t].sealed /\ op'[t].out = op[t].out
      /\ op'[t].step # "fatal"
  BY <1>2, Zenon DEF Fields
<1>6. /\ engine[e].ready => ssl[e].flight = 3
      /\ got[e] <= MaxWrites /\ wrote[e] <= MaxWrites
      /\ engine[e].shut => ssl[e].sealed = Flights(e) + wrote[e] + 1
  BY <1>1 DEF Begun
<1>7. ssl[e].flight = 3
  BY <1>2, <1>4, <1>6, Zenon DEF Usable
<1>8. engine'[e].shut => ssl'[e].sealed = Flights(e) + wrote'[e] + 1
  <2> SUFFICES ASSUME ~engine[e].shut, op[t].kind = "shutdown" PROVE ssl[e].sealed = Flights(e) + wrote[e] + 1
    BY <1>2, <1>6, Zenon
  <2>1. op[t].sealed
    BY <1>2
  <2>2. One(op[t].kind = "write" /\ op[t].sealed) = 0 /\ One(engine[e].shut \/ (op[t].kind = "shutdown" /\ op[t].sealed)) = 1
    BY <2>1 DEF One
  <2>3. SealedFlights(e) = Flights(e)
    BY <1>7 DEF SealedFlights, Flights
  <2>4. ssl[e].sealed = Flights(e) + wrote[e] + 0 + 1
    BY <1>3, <1>4, <2>2, <2>3, Zenon DEF Counts
  <2>5. wrote[e] \in Nat /\ Flights(e) \in Nat
    BY <1>1, Typed, Zenon DEF Flights
  <2> QED  BY <2>4, <2>5
<1>9. Begun(e)'
  BY <1>2, <1>6, <1>7, <1>8, Zenon DEF Begun, Flights
<1>10. Marked(p)'
  BY <1>0, <1>1, <1>2, PeerMarked, Zenon
<1>11. Marked(e)'
  <2>1. \A u : u \in Elems(op'[t].out) \/ u \in Elems(pipe'[p]) => u \in Elems(op[t].out) \/ u \in Elems(pipe[p])
    BY <1>2, <1>5, Zenon
  <2>2. \A u : u \in Elems(ssl'[e].out) \/ u \in Elems(bioOut'[e]) => u \in Elems(ssl[e].out) \/ u \in Elems(bioOut[e])
    BY <1>2, Zenon
  <2>3. ~Flushing(op[t], {"fatal"})'
    BY <1>5 DEF Flushing
  <2> QED  BY <1>0, <1>1, <1>2, <1>5, <2>1, <2>2, <2>3, OwnMarked, ZenonT(40)
<1> QED  BY <1>0, <1>1, <1>2, <1>9, <1>10, <1>11, ZenonT(40) DEF Later

\* Whose close_notify it is: the one of the operation that uses the end, or one sent before.
LEMMA WhoCloses ==
  ASSUME Alone, NEW t \in Tasks, NEW e \in Ends, e = EndOf[t], op[t].at # "none", Closing(e)
  PROVE  engine[e].shut \/ (op[t].kind = "shutdown" /\ op[t].sealed)
<1>1. CASE engine[e].shut
  BY <1>1
<1>2. CASE \E s \in Tasks : EndOf[s] = e /\ op[s].kind = "shutdown" /\ op[s].sealed
  <2>1. PICK s \in Tasks : EndOf[s] = e /\ op[s].kind = "shutdown" /\ op[s].sealed
    BY <1>2, Zenon
  <2>2. op[s].at = "none" => op[s] = NoOp
    BY Zenon DEF Alone
  <2>3. op[s].at # "none"
    BY <2>1, <2>2, NoOpFields, Zenon
  <2>4. EndOf[s] = EndOf[t]
    BY <2>1
  <2>5. s = t
    BY <2>3, <2>4, Zenon DEF Alone
  <2> QED  BY <2>1, <2>5
<1> QED  BY <1>1, <1>2, Zenon DEF Closing

\* The second half of close_notify leaves the buffers when the shutdown is complete.
LEMMA CloseLeaves ==
  ASSUME StreamInv, NEW t \in Tasks, NEW e \in Ends, e = EndOf[t], op[t].at = "flush", op[t].out = <<>>,
         NEW u \in Elems(bioOut[e]), u[1] = "close", u[3] = 2
  PROVE  engine[e].shut
<1>0. PICK p \in Ends : p = Peer(e) /\ p # e
  BY PeerFacts
<1>1. Shape /\ EndsSound /\ Alone /\ Marked(e)
  BY <1>0, Before
<1>2. op[t].at # "none" /\ Stands(e, op[t]) /\ Sends(e, op[t])
  BY <1>1, InUse, Zenon DEF EndSound
<1>3. u \in Units(e)
  BY Zenon DEF Units
<1>4. u[2] = ssl[e].sealed /\ (Able(e) => Closing(e))
  BY <1>1, <1>3, Zenon DEF Marked
<1>5. Able(e)
  <2>1. engine[e].failed => Flushing(op[t], {"fatal"})
    BY <1>2, ZenonT(40) DEF Stands
  <2> QED  BY <2>1, Zenon DEF Able
<1>6. engine[e].shut \/ (op[t].kind = "shutdown" /\ op[t].sealed)
  BY <1>1, <1>2, <1>4, <1>5, WhoCloses, Zenon
<1>7. ASSUME op[t].kind = "shutdown" PROVE engine[e].shut
  <2>1. op[t].step \in {"none", "complete", "eof", "want_output", "want_input", "fatal"}
    <3>1. op[t] \in OpType
      BY <1>1, Typed
    <3> QED  BY <3>1 DEF OpType
  <2>2. op[t].step = "complete" => engine[e].shut
    BY <1>2, <1>7, Zenon DEF Stands, Flushing, Known
  <2>3. op[t].step \notin {"eof", "fatal", "none", "want_input"}
    BY <1>2, <1>7, ZenonT(40) DEF Stands, Flushing
  <2>4. ASSUME op[t].step = "want_output" PROVE FALSE
    <3>1. ssl[e].out # <<>> /\ ~engine[e].failed
      BY <1>2, <2>4, Zenon DEF Stands, Flushing, Usable
    <3>2. ssl[e].out \in Seq(Unit) /\ bioOut[e] \in Seq(Unit) /\ PipeEnd(p) \in Nat /\ ssl[e].sealed \in Nat
      BY <1>1, Typed, Zenon
    <3>3. PICK a \in Nat, m \in Nat, l \in Nat, n \in Nat :
            a = PipeEnd(p) /\ m = Len(bioOut[e]) /\ l = Len(ssl[e].out) /\ n = ssl[e].sealed
      BY <3>2
    <3>4. l > 0
      BY <3>1, <3>2, <3>3
    <3>5. Run(bioOut[e], a) /\ a + m + l = 2 * n
      <4>1. Sending(e, op[t].out, 2 * n)
        BY <1>2, <3>1, <3>3, Zenon DEF Sends
      <4>2. Run(bioOut[e], PipeEnd(p) + Len(op[t].out))
            /\ PipeEnd(p) + Len(op[t].out) + Len(bioOut[e]) + Len(ssl[e].out) = 2 * n
        BY <1>0, <4>1 DEF Sending
      <4>3. PipeEnd(p) + Len(op[t].out) = a
        BY <3>3, Nothing
      <4> QED  BY <3>3, <4>2, <4>3, Zenon
    <3>6. PICK k \in 1 .. m : u = bioOut[e][k]
      BY <3>3 DEF Elems
    <3>7. Place(u) = a + k
      BY <3>3, <3>5, <3>6, Zenon DEF Run
    <3>8. Place(u) = 2 * (n - 1) + 2
      BY <1>4, <3>3 DEF Place
    <3> QED  BY <3>4, <3>5, <3>6, <3>7, <3>8
  <2> QED  BY <2>1, <2>2, <2>3, <2>4, Zenon
<1> QED  BY <1>6, <1>7

\* flush() drains the buffer.
LEMMA DrainLater ==
  ASSUME StreamInv, NEW t \in Tasks, NEW e \in Ends, e = EndOf[t], Drain(t)
  PROVE  Later(e)
<1>0. PICK p \in Ends : p = Peer(e) /\ p # e
  BY PeerFacts
<1>1. /\ Shape /\ EndsSound /\ Alone /\ Marked(e) /\ Marked(p) /\ Begun(e)
      /\ Len(bioIn[e]) <= BioSize /\ Len(pipe[e]) <= PipeSize /\ Len(pipe[p]) <= PipeSize
      /\ engine[e].eof => engine[p].shut /\ got[e] = wrote[p]
      /\ "eof" \in errors[e] => engine[e].eof
  BY <1>0, Before
<1>2. /\ OthersKept(t) /\ op[t].at = "flush" /\ op[t].out = <<>>
      /\ engine' = engine /\ ssl' = ssl /\ bioIn' = bioIn /\ pipe' = pipe
      /\ got' = got /\ wrote' = wrote /\ errors' = errors /\ rejected' = rejected
      /\ op'[t].at = "flush" /\ op'[t].step = op[t].step /\ op'[t].kind = op[t].kind
      /\ op'[t].sealed = op[t].sealed /\ op'[t].out = bioOut[e] /\ bioOut'[e] = <<>>
  BY <1>1, DrainEffect, Zenon
<1>3. Begun(e)'
  BY <1>1, <1>2, Zenon DEF Begun, Flights
<1>4. Marked(p)'
  BY <1>0, <1>1, <1>2, PeerMarked, Zenon
<1>5. \A u \in Away(e)' : u \in Elems(bioOut[e]) \/ u \in Away(e)
  <2>1. /\ \A u \in Away(e)' : u \in Elems(op'[t].out) \/ u \in Elems(pipe'[p]) \/ u \in Away(e)
        /\ \A u : u \in Elems(op[t].out) \/ u \in Elems(pipe[p]) => u \in Away(e)
    BY <1>0, <1>2, OwnAway, Zenon
  <2>2. Elems(op'[t].out) = Elems(bioOut[e]) /\ Elems(pipe'[p]) = Elems(pipe[p])
    BY <1>2, Zenon
  <2> QED  BY <2>1, <2>2, Zenon
<1>6. Units(e)' \subseteq Units(e)
  <2>1. Elems(ssl[e].out)' = Elems(ssl[e].out) /\ Elems(bioOut[e])' = {}
    BY <1>2, Nothing, Zenon
  <2> QED  BY <1>5, <2>1, Zenon DEF Units
<1>7. \A u \in Away(e)' : u[1] = "close" /\ u[3] = 2 => engine'[e].shut
  <2> SUFFICES ASSUME NEW u \in Away(e)', u[1] = "close", u[3] = 2 PROVE engine[e].shut
    BY <1>2, ZenonT(40)
  <2>1. CASE u \in Elems(bioOut[e])
    BY <1>2, <2>1, CloseLeaves
  <2>2. CASE u \in Away(e)
    BY <1>1, <2>2, Zenon DEF Marked
  <2> QED  BY <1>5, <2>1, <2>2, Zenon
<1>8. (Able(e)' => Able(e)) /\ (Able(e)' /\ Closing(e) => Closing(e)')
  <2>1. Flushing(op[t], {"fatal"})' => Flushing(op[t], {"fatal"})
    BY <1>2, Zenon DEF Flushing
  <2> QED  BY <1>1, <1>2, <2>1, OwnClosing, Zenon
<1>9. Marked(e)'
  BY <1>1, <1>2, <1>6, <1>7, <1>8, MarkedMoved, ZenonT(40)
<1> QED  BY <1>0, <1>1, <1>2, <1>3, <1>4, <1>9, ZenonT(40) DEF Later

\* Units are units.
LEMMA Numbered ==
  ASSUME Shape, NEW e \in Ends, NEW u \in Units(e)
  PROVE  u \in Unit /\ u[2] \in Nat
<1>0. Peer(e) \in Ends
  BY PeerFacts
<1>1. \A q \in Seq(Unit) : \A v \in Elems(q) : v \in Unit
  <2> SUFFICES ASSUME NEW q \in Seq(Unit), NEW k \in 1 .. Len(q) PROVE q[k] \in Unit
    BY Zenon DEF Elems
  <2> QED  OBVIOUS
<1>2. u \in Elems(ssl[e].out) \/ u \in Elems(bioOut[e]) \/ u \in Away(e)
  BY Zenon DEF Units
<1>3. \/ \E t \in Tasks : EndOf[t] = e /\ u \in Elems(op[t].out)
      \/ u \in Elems(ssl[e].out) \/ u \in Elems(bioOut[e])
      \/ u \in Elems(pipe[Peer(e)]) \/ u \in Elems(bioIn[Peer(e)]) \/ u \in Elems(ssl[Peer(e)].in)
  BY <1>2, InAway, Zenon
<1>4. /\ \A t \in Tasks : op[t].out \in Seq(Unit)
      /\ \A f \in Ends : /\ ssl[f].out \in Seq(Unit) /\ ssl[f].in \in Seq(Unit)
                        /\ bioOut[f] \in Seq(Unit) /\ pipe[f] \in Seq(Unit) /\ bioIn[f] \in Seq(Unit)
  BY Zenon DEF Shape, OpType, SslType
<1>5. u \in Unit
  BY <1>0, <1>1, <1>3, <1>4, Zenon
<1> QED  BY <1>5 DEF Unit

\* OpenSSL seals: where the engine stands.
LEMMA SealStands ==
  ASSUME StreamInv, NEW t \in Tasks, NEW e \in Ends, e = EndOf[t], op[t].at = "ssl"
  PROVE  /\ ~engine[e].failed /\ ~engine[e].shut
         /\ \A u \in Units(e) : u[1] # "alert"
         /\ ~(op[t].kind = "shutdown" /\ op[t].sealed) => \A u \in Units(e) : u[1] # "close"
<1>0. PICK p \in Ends : p = Peer(e) /\ p # e
  BY PeerFacts, Zenon
<1>1. Shape /\ EndsSound /\ Alone /\ Marked(e)
  BY <1>0, Before
<1>2. Stands(e, op[t])
  BY <1>1, InUse, Zenon DEF EndSound
<1>3. ~engine[e].failed /\ ~engine[e].shut
  BY <1>2, Zenon DEF Stands, Usable, Known
<1>4. \A u \in Units(e) : u[1] # "alert"
  BY <1>1, <1>3, Zenon DEF Marked
<1>5. ASSUME ~(op[t].kind = "shutdown" /\ op[t].sealed), NEW u \in Units(e), u[1] = "close" PROVE FALSE
  <2>1. Able(e)
    BY <1>3, Zenon DEF Able
  <2>2. Closing(e)
    BY <1>1, <1>5, <2>1, Zenon DEF Marked
  <2>3. op[t].at # "none"
    OBVIOUS
  <2> QED  BY <1>1, <1>3, <1>5, <2>2, <2>3, WhoCloses, Zenon
<1> QED  BY <1>3, <1>4, <1>5, Zenon

\* OpenSSL seals: the number of the new record tells its kind.
LEMMA SealLater ==
  ASSUME StreamInv, NEW t \in Tasks, NEW e \in Ends, e = EndOf[t], SslSeal(t)
  PROVE  Later(e)
<1>0. PICK p \in Ends : p = Peer(e) /\ p # e
  BY PeerFacts
<1>1. /\ Shape /\ EndsSound /\ Alone /\ Marked(e) /\ Marked(p) /\ Begun(e)
      /\ Len(bioIn[e]) <= BioSize /\ Len(pipe[e]) <= PipeSize /\ Len(pipe[p]) <= PipeSize
      /\ engine[e].eof => engine[p].shut /\ got[e] = wrote[p]
      /\ "eof" \in errors[e] => engine[e].eof
  BY <1>0, Before
<1>2. /\ OthersKept(t) /\ op[t].at = "ssl" /\ ssl[e].out = <<>>
      /\ engine' = engine /\ bioIn' = bioIn /\ bioOut' = bioOut /\ pipe' = pipe
      /\ got' = got /\ wrote' = wrote /\ errors' = errors /\ rejected' = rejected
      /\ op'[t].at = "ssl" /\ op'[t].kind = op[t].kind /\ op'[t].out = op[t].out
      /\ ssl'[e].sealed = ssl[e].sealed + 1 /\ ssl'[e].in = ssl[e].in
  BY <1>1, SealEffect, ZenonT(40)
<1>3. PICK what \in {"flight", "data", "close"} :
        /\ ssl'[e].out = Record(e, what) /\ op'[t].sealed = (what # "flight")
        /\ what = "flight" => /\ op[t].kind = "handshake" /\ ssl[e].flight < 3 /\ Mine(e)
                              /\ ssl'[e].flight = ssl[e].flight + 1
        /\ what = "data" => op[t].kind = "write"
        /\ what = "close" => op[t].kind = "shutdown"
        /\ what # "flight" => ~op[t].sealed /\ ssl'[e].flight = ssl[e].flight
  BY <1>1, SealEffect, Zenon
<1>4. Stands(e, op[t]) /\ Counts(e, op[t])
  BY <1>1, <1>2, InUse, Zenon DEF EndSound
<1>5. /\ ~engine[e].failed /\ ~engine[e].shut
      /\ \A u \in Units(e) : u[1] # "alert" /\ u[1] # "close"
  <2>1. ~(op[t].kind = "shutdown" /\ op[t].sealed)
    BY <1>3, Zenon
  <2> QED  BY <1>2, <2>1, SealStands, Zenon
<1>6. Usable(e, op[t].kind) /\ ~Known(e, op[t].kind)
  BY <1>2, <1>4, Zenon DEF Stands
<1>7. /\ engine[e].ready => ssl[e].flight = 3
      /\ ~engine[e].ready => got[e] = 0 /\ wrote[e] = 0 /\ ~engine[e].eof /\ ~engine[e].shut
      /\ got[e] <= MaxWrites /\ wrote[e] <= MaxWrites
  BY <1>1, Zenon DEF Begun
<1>8. ssl[e].sealed \in Nat /\ wrote[e] \in Nat /\ ssl[e].flight \in 0 .. 3 /\ Flights(e) \in Nat
  BY <1>1, Typed, Zenon DEF Flights
<1>9. what = "flight" => ~engine[e].ready
  BY <1>3, <1>6, Zenon DEF Known
<1>10. Begun(e)'
  BY <1>2, <1>3, <1>5, <1>7, <1>9, ZenonT(40) DEF Begun, Flights
<1>11. Marked(p)'
  BY <1>0, <1>1, <1>2, PeerMarked, ZenonT(40)
<1>12. ssl[e].sealed = SealedFlights(e) + wrote[e]
  <2>1. One(op[t].kind = "write" /\ op[t].sealed) = 0 /\ One(engine[e].shut \/ (op[t].kind = "shutdown" /\ op[t].sealed)) = 0
    <3>1. ~op[t].sealed \/ op[t].kind = "handshake"
      BY <1>3
    <3> QED  BY <1>5, <3>1, Zenon DEF One
  <2>2. ssl[e].sealed = SealedFlights(e) + wrote[e] + 0 + 0
    BY <1>4, <1>5, <2>1, Zenon DEF Counts
  <2>3. SealedFlights(e) \in Nat
    BY DEF SealedFlights
  <2> QED  BY <1>8, <2>2, <2>3
<1>13. PICK n \in Nat : n = ssl[e].sealed
  BY <1>8
<1>14. /\ what = "flight" => n + 1 <= Flights(e)
       /\ what \in {"data", "close"} => n + 1 > Flights(e)
       /\ what = "data" => n + 1 <= Flights(e) + MaxWrites
  <2>1. CASE what = "flight"
    <3>1. n = SealedFlights(e) /\ wrote[e] = 0
      <4>1. wrote[e] = 0 /\ SealedFlights(e) \in Nat
        BY <1>7, <1>9, <2>1, Zenon DEF SealedFlights
      <4> QED  BY <1>12, <1>13, <4>1
    <3>2. PICK f \in {0, 1, 2} : f = ssl[e].flight
      BY <1>3, <1>8, <2>1
    <3>3. (f = 0 \/ f = 2) <=> e = "client"
      BY <1>3, <2>1, <3>2 DEF Mine
    <3>4. e = "client" \/ e = "server"
      BY DEF Ends
    <3>5. CASE e = "client"
      BY <2>1, <3>1, <3>2, <3>3, <3>5 DEF SealedFlights, Flights
    <3>6. CASE e = "server"
      BY <2>1, <3>1, <3>2, <3>3, <3>6 DEF SealedFlights, Flights
    <3> QED  BY <3>4, <3>5, <3>6, Zenon
  <2>2. CASE what # "flight"
    <3>1. op[t].kind # "handshake" /\ what \in {"data", "close"}
      BY <1>3, <2>2, Zenon
    <3>2. ssl[e].flight = 3
      BY <1>6, <1>7, <3>1, Zenon DEF Usable
    <3>3. SealedFlights(e) = Flights(e)
      BY <3>2 DEF SealedFlights, Flights
    <3>4. PICK w \in Nat, f \in Nat : w = wrote[e] /\ f = Flights(e) /\ n = f + w
      BY <1>8, <1>12, <1>13, <3>3, Zenon
    <3>5. what = "data" => w < MaxWrites
      BY <1>3, <1>4, <3>4, ZenonT(40) DEF Stands
    <3> QED  BY <2>2, <3>4, <3>5, SizesAssumption
  <2> QED  BY <2>1, <2>2
<1>15. \A u \in Away(e)' : u \in Away(e)
  <2>1. /\ \A u \in Away(e)' : u \in Elems(op'[t].out) \/ u \in Elems(pipe'[p]) \/ u \in Away(e)
        /\ \A u : u \in Elems(op[t].out) \/ u \in Elems(pipe[p]) => u \in Away(e)
    BY <1>0, <1>2, OwnAway, Zenon
  <2>2. Elems(op'[t].out) = Elems(op[t].out) /\ Elems(pipe'[p]) = Elems(pipe[p])
    BY <1>2, Zenon
  <2> QED  BY <2>1, <2>2, Zenon
<1>16. \A u \in Units(e)' : u \in Units(e) \/ (u[1] = what /\ u[2] = n + 1)
  <2>1. what \in Whats
    BY DEF Whats
  <2>2. \A u \in Elems(Record(e, what)) : u[1] = what /\ u[2] = n + 1
    BY <1>8, <1>13, <2>1, Records, ZenonT(40)
  <2>3. Elems(ssl[e].out)' = Elems(Record(e, what)) /\ Elems(bioOut[e])' = Elems(bioOut[e])
    BY <1>2, <1>3, Zenon
  <2> QED  BY <1>15, <2>2, <2>3, ZenonT(40) DEF Units
<1>17. \A u \in Units(e) :
         /\ u[1] # "alert" /\ u[1] # "close" /\ u[2] <= n
         /\ u[1] = "flight" => u[2] <= Flights(e)
         /\ u[1] \in {"data", "close"} => u[2] > Flights(e)
         /\ u[1] = "data" => u[2] <= Flights(e) + MaxWrites
  BY <1>1, <1>5, <1>13, Zenon DEF Marked
<1>18. what = "close" => Closing(e)'
  BY <1>2, <1>3, Zenon DEF Closing
<1>19. Marked(e)'
  <2>1. ASSUME NEW u \in Units(e)'
        PROVE  /\ u[1] # "alert"
               /\ u[1] = "flight" => u[2] <= Flights(e)
               /\ u[1] \in {"data", "close"} => u[2] > Flights(e)
               /\ u[2] <= n + 1
               /\ u[1] = "data" => u[2] <= Flights(e) + MaxWrites
               /\ u[1] = "close" => u[2] = n + 1 /\ Closing(e)'
    <3>1. CASE u \in Units(e)
      <4>1. u[2] <= n
        BY <1>17, <3>1, Zenon
      <4>2. PICK m \in Nat : m = u[2]
        BY <1>1, <3>1, Numbered, Zenon
      <4>3. u[2] <= n + 1
        BY <4>1, <4>2
      <4> QED  BY <1>17, <3>1, <4>3, Zenon
    <3>2. CASE u[1] = what /\ u[2] = n + 1
      BY <1>14, <1>18, <3>2
    <3> QED  BY <1>16, <2>1, <3>1, <3>2, ZenonT(40)
  <2>2. ASSUME NEW u \in Units(e)', NEW v \in Units(e)', u[2] = v[2] PROVE u[1] = v[1]
    <3>1. \A w \in Units(e) : w[2] # n + 1
      <4> SUFFICES ASSUME NEW w \in Units(e), w[2] = n + 1 PROVE FALSE
        OBVIOUS
      <4>1. w[2] <= n
        BY <1>17
      <4> QED  BY <4>1
    <3>2. CASE u \in Units(e) /\ v \in Units(e)
      BY <1>1, <2>2, <3>2, ZenonT(40) DEF Marked
    <3>3. CASE ~(u \in Units(e) /\ v \in Units(e))
      BY <1>16, <2>2, <3>1, <3>3, ZenonT(40)
    <3> QED  BY <3>2, <3>3
  <2>3. \A u \in Away(e)' : u[1] = "close" /\ u[3] = 2 => engine'[e].shut
    BY <1>1, <1>2, <1>15, Zenon DEF Marked
  <2>4. Flights(e)' = Flights(e) /\ ssl'[e].sealed = n + 1
    BY <1>2, <1>13, Zenon DEF Flights
  <2>5. \A u \in Units(e)' :
          /\ u[1] = "alert" => rejected' /\ engine'[e].failed
          /\ u[1] = "flight" => u[2] <= Flights(e)'
          /\ u[1] \in {"data", "close"} => u[2] > Flights(e)'
          /\ u[1] # "alert" => u[2] <= ssl'[e].sealed
          /\ u[1] = "data" => u[2] <= Flights(e)' + MaxWrites
          /\ u[1] = "close" => u[2] = ssl'[e].sealed /\ (Able(e)' => Closing(e)')
    BY <2>1, <2>4, Zenon
  <2> QED  BY <2>2, <2>3, <2>5, ZenonT(40) DEF Marked
<1> QED  BY <1>0, <1>1, <1>2, <1>5, <1>10, <1>11, <1>19, ZenonT(40) DEF Later

\* OpenSSL opens the next record of the peer.
LEMMA OpenedLater ==
  ASSUME StreamInv, NEW t \in Tasks, NEW e \in Ends, e = EndOf[t], SslOpen(t), Opened(t, e)
  PROVE  Later(e)
<1>0. PICK p \in Ends : p = Peer(e) /\ p # e
  BY PeerFacts, Zenon
<1>1. /\ Shape /\ EndsSound /\ Alone /\ Marked(e) /\ Marked(p) /\ Begun(e)
      /\ Len(bioIn[e]) <= BioSize /\ Len(pipe[e]) <= PipeSize /\ Len(pipe[p]) <= PipeSize
      /\ engine[e].eof => engine[p].shut /\ got[e] = wrote[p]
      /\ "eof" \in errors[e] => engine[e].eof
  BY <1>0, Before
<1>2. /\ OthersKept(t) /\ op[t].at = "ssl" /\ WantsRecord(t) /\ HasRecord(e)
      /\ bioIn' = bioIn /\ pipe' = pipe /\ got' = got /\ wrote' = wrote
  BY <1>1, OpenEffect, Zenon
<1>3. /\ bioOut' = bioOut /\ rejected' = rejected /\ errors' = errors
      /\ ssl'[e].in = SubSeq(ssl[e].in, 3, Len(ssl[e].in))
      /\ ssl'[e].out = ssl[e].out /\ ssl'[e].sealed = ssl[e].sealed
      /\ engine'[e].ready = engine[e].ready /\ engine'[e].failed = engine[e].failed /\ engine'[e].shut = engine[e].shut
  BY Zenon DEF Opened
<1>4. \/ /\ ssl[e].in[1][1] = "data" /\ op[t].kind = "read" /\ Fields(t, "flush", "complete")
         /\ ssl'[e].flight = ssl[e].flight /\ engine'[e].eof = engine[e].eof
      \/ /\ ssl[e].in[1][1] = "close" /\ op[t].kind = "read" /\ Fields(t, "flush", "eof")
         /\ ssl'[e].flight = ssl[e].flight /\ engine'[e].eof
      \/ /\ op[t].kind = "handshake" /\ op' = op /\ engine'[e].eof = engine[e].eof
  BY Zenon DEF Opened
<1>5. Usable(e, op[t].kind) /\ ~Known(e, op[t].kind)
  <2>1. Stands(e, op[t])
    BY <1>1, <1>2, InUse, Zenon DEF EndSound
  <2> QED  BY <1>2, <2>1, Zenon DEF Stands
<1>6. op[t].kind = "handshake" => ~engine[e].ready
  BY <1>5 DEF Known
<1>7. op[t].kind = "read" => engine[e].ready
  BY <1>5, Zenon DEF Usable
<1>8. Begun(e)'
  BY <1>1, <1>2, <1>3, <1>4, <1>6, <1>7, ZenonT(40) DEF Begun, Flights
<1>9. Elems(ssl'[e].in) \subseteq Elems(ssl[e].in)
  <2>1. ssl[e].in \in Seq(Unit)
    BY <1>1, Typed, Zenon
  <2>2. PICK q \in Seq(Unit) : q = ssl[e].in
    BY <2>1, Zenon
  <2>3. 2 \in 1 .. Len(q)
    BY <1>2, <2>2 DEF HasRecord
  <2>4. Elems(SubSeq(q, 2 + 1, Len(q))) \subseteq Elems(q)
    BY <2>2, <2>3, Share, Zenon
  <2>5. ssl'[e].in = SubSeq(q, 2 + 1, Len(q))
    BY <1>3, <2>2
  <2> QED  BY <2>2, <2>4, <2>5, Zenon
<1>10. Marked(p)'
  <2>1. \A u : u \in Elems(pipe'[e]) \/ u \in Elems(bioIn'[e]) \/ u \in Elems(ssl'[e].in) =>
              u \in Elems(pipe[e]) \/ u \in Elems(bioIn[e]) \/ u \in Elems(ssl[e].in)
    <3>1. Elems(pipe'[e]) = Elems(pipe[e]) /\ Elems(bioIn'[e]) = Elems(bioIn[e])
      BY <1>2, Zenon
    <3> QED  BY <1>9, <3>1, Zenon
  <2> QED  BY <1>0, <1>1, <1>2, <1>3, <2>1, PeerMarked, ZenonT(40)
<1>11. /\ op'[t].kind = op[t].kind /\ op'[t].sealed = op[t].sealed /\ op'[t].out = op[t].out
       /\ op'[t].at # "flush" \/ op'[t].step # "fatal"
  BY <1>2, <1>4, Zenon DEF Fields
<1>12. Marked(e)'
  <2>1. \A u : u \in Elems(op'[t].out) \/ u \in Elems(pipe'[p]) => u \in Elems(op[t].out) \/ u \in Elems(pipe[p])
    BY <1>2, <1>11
  <2>2. \A u : u \in Elems(ssl'[e].out) \/ u \in Elems(bioOut'[e]) => u \in Elems(ssl[e].out) \/ u \in Elems(bioOut[e])
    BY <1>3, Zenon
  <2>3. ~Flushing(op[t], {"fatal"})'
    BY <1>11 DEF Flushing
  <2> QED  BY <1>0, <1>1, <1>2, <1>3, <1>11, <2>1, <2>2, <2>3, OwnMarked, ZenonT(40)
<1>13. engine'[e].eof => engine[p].shut /\ got'[e] = wrote[p]
  <2>1. op[t].kind = "read" /\ ssl[e].in[1][1] = "close" => engine[p].shut /\ got[e] = wrote[p]
    BY <1>0, <1>2, Peeked, Zenon
  <2> QED  BY <1>1, <1>2, <1>4, <2>1, Zenon
<1>14. "eof" \in errors'[e] => engine'[e].eof
  BY <1>1, <1>3, <1>4, Zenon
<1> QED  BY <1>0, <1>1, <1>2, <1>3, <1>8, <1>10, <1>12, <1>13, <1>14, ZenonT(40) DEF Later

\* OpenSSL rejects a record: its alert follows what was sealed.
LEMMA RefusedLater ==
  ASSUME StreamInv, NEW t \in Tasks, NEW e \in Ends, e = EndOf[t], SslOpen(t), Refuses(t, e)
  PROVE  Later(e)
<1>0. PICK p \in Ends : p = Peer(e) /\ p # e
  BY PeerFacts, Zenon
<1>1. /\ Shape /\ EndsSound /\ Alone /\ Marked(e) /\ Marked(p) /\ Begun(e)
      /\ Len(bioIn[e]) <= BioSize /\ Len(pipe[e]) <= PipeSize /\ Len(pipe[p]) <= PipeSize
      /\ engine[e].eof => engine[p].shut /\ got[e] = wrote[p]
      /\ "eof" \in errors[e] => engine[e].eof
  BY <1>0, Before
<1>2. /\ OthersKept(t) /\ op[t].at = "ssl" /\ WantsRecord(t) /\ HasRecord(e)
      /\ bioIn' = bioIn /\ pipe' = pipe /\ got' = got /\ wrote' = wrote
  BY <1>1, OpenEffect, Zenon
<1>3. /\ op'[t].kind = op[t].kind /\ op'[t].sealed = op[t].sealed /\ op'[t].out = op[t].out
      /\ engine'[e].failed /\ engine'[e].ready = engine[e].ready /\ engine'[e].shut = engine[e].shut
      /\ engine'[e].eof = engine[e].eof /\ ssl' = ssl /\ bioOut'[e] = bioOut[e] \o Record(e, "alert")
  BY Zenon DEF Refuses, Fields, EngineFails
<1>4. "eof" \in errors'[e] => "eof" \in errors[e]
  BY DEF Refuses
<1>5. rejected'
  <2>1. ~Fits(t, e) => rejected
    BY <1>0, <1>2, Peeked, Zenon
  <2> QED  BY <2>1 DEF Refuses
<1>6. Begun(e)'
  BY <1>1, <1>2, <1>3, Zenon DEF Begun, Flights
<1>7. Marked(p)'
  BY <1>0, <1>1, <1>2, <1>3, <1>5, PeerMarked, ZenonT(40)
<1>8. ~engine[e].failed /\ \A u \in Units(e) : u[1] # "alert"
  BY <1>2, SealStands
<1>9. PICK n \in Nat : n = ssl[e].sealed
  BY <1>1, Typed, Zenon
<1>10. \A u \in Away(e)' : u \in Away(e)
  <2>1. /\ \A u \in Away(e)' : u \in Elems(op'[t].out) \/ u \in Elems(pipe'[p]) \/ u \in Away(e)
        /\ \A u : u \in Elems(op[t].out) \/ u \in Elems(pipe[p]) => u \in Away(e)
    BY <1>0, <1>2, OwnAway, Zenon
  <2>2. Elems(op'[t].out) = Elems(op[t].out) /\ Elems(pipe'[p]) = Elems(pipe[p])
    BY <1>2, <1>3, Zenon
  <2> QED  BY <2>1, <2>2, Zenon
<1>11. \A u \in Units(e)' : u \in Units(e) \/ (u[1] = "alert" /\ u[2] = n + 1)
  <2>1. "alert" \in Whats /\ ssl[e].sealed \in Nat
    BY <1>9, ZenonT(40) DEF Whats
  <2>2. /\ Record(e, "alert") \in Seq(Unit)
        /\ \A u \in Elems(Record(e, "alert")) : u[1] = "alert" /\ u[2] = n + 1
    BY <1>9, <2>1, Records
  <2>3. PICK q \in Seq(Unit), r \in Seq(Unit) : q = bioOut[e] /\ r = Record(e, "alert")
    BY <1>1, <2>2, Typed, Zenon
  <2>4. Elems(q \o r) \subseteq Elems(q) \cup Elems(r)
    <3>1. /\ Len(q) \in Nat /\ Len(r) \in Nat /\ Len(q \o r) = Len(q) + Len(r)
          /\ \A k \in 1 .. Len(q) + Len(r) : (q \o r)[k] = IF k <= Len(q) THEN q[k] ELSE r[k - Len(q)]
      OBVIOUS
    <3> SUFFICES ASSUME NEW k \in 1 .. Len(q \o r) PROVE (q \o r)[k] \in Elems(q) \cup Elems(r)
      BY Zenon DEF Elems
    <3>2. k \in 1 .. Len(q) + Len(r)
      BY <3>1
    <3>3. CASE k <= Len(q)
      <4>1. k \in 1 .. Len(q) /\ (q \o r)[k] = q[k]
        BY <3>1, <3>2, <3>3
      <4> QED  BY <4>1, Zenon DEF Elems
    <3>4. CASE ~(k <= Len(q))
      <4>1. k - Len(q) \in 1 .. Len(r) /\ (q \o r)[k] = r[k - Len(q)]
        BY <3>1, <3>2, <3>4
      <4> QED  BY <4>1, Zenon DEF Elems
    <3> QED  BY <3>3, <3>4, ZenonT(40)
  <2>5. Elems(bioOut[e])' = Elems(q \o r) /\ Elems(ssl[e].out)' = Elems(ssl[e].out)
    BY <1>3, <2>3, Zenon
  <2>6. \A u \in Elems(bioOut[e])' : u \in Elems(bioOut[e]) \/ (u[1] = "alert" /\ u[2] = n + 1)
    BY <2>2, <2>3, <2>4, <2>5, Zenon
  <2>7. \A u \in Units(e)' : u \in Elems(ssl[e].out)' \/ u \in Elems(bioOut[e])' \/ u \in Away(e)'
    BY Zenon DEF Units
  <2>8. \A u : u \in Elems(ssl[e].out) \/ u \in Elems(bioOut[e]) \/ u \in Away(e) => u \in Units(e)
    BY Zenon DEF Units
  <2> QED  BY <1>10, <2>5, <2>6, <2>7, <2>8, ZenonT(40)
<1>12. (Able(e)' => Able(e)) /\ (Able(e)' /\ Closing(e) => Closing(e)')
  BY <1>1, <1>2, <1>3, <1>8, OwnClosing, ZenonT(40)
<1>13. \A u \in Units(e) :
         /\ u[1] # "alert" /\ u[2] <= n
         /\ u[1] = "flight" => u[2] <= Flights(e)
         /\ u[1] \in {"data", "close"} => u[2] > Flights(e)
         /\ u[1] = "data" => u[2] <= Flights(e) + MaxWrites
         /\ u[1] = "close" => u[2] = n /\ (Able(e) => Closing(e))
  BY <1>1, <1>8, <1>9, Zenon DEF Marked
<1>14. Marked(e)'
  <2>1. Flights(e)' = Flights(e) /\ ssl'[e].sealed = n
    BY <1>3, <1>9 DEF Flights
  <2>2. \A u \in Units(e)' :
          /\ u[1] = "alert" => rejected' /\ engine'[e].failed
          /\ u[1] = "flight" => u[2] <= Flights(e)'
          /\ u[1] \in {"data", "close"} => u[2] > Flights(e)'
          /\ u[1] # "alert" => u[2] <= ssl'[e].sealed
          /\ u[1] = "data" => u[2] <= Flights(e)' + MaxWrites
          /\ u[1] = "close" => u[2] = ssl'[e].sealed /\ (Able(e)' => Closing(e)')
    BY <1>3, <1>5, <1>11, <1>12, <1>13, <2>1, ZenonT(40)
  <2>3. ASSUME NEW u \in Units(e)', NEW v \in Units(e)', u[2] = v[2] PROVE u[1] = v[1]
    <3>1. \A w \in Units(e) : w[2] # n + 1
      <4> SUFFICES ASSUME NEW w \in Units(e), w[2] = n + 1 PROVE FALSE
        OBVIOUS
      <4>1. w[2] <= n
        BY <1>13
      <4> QED  BY <4>1
    <3>2. CASE u \in Units(e) /\ v \in Units(e)
      BY <1>1, <2>3, <3>2, Zenon DEF Marked
    <3>3. CASE ~(u \in Units(e) /\ v \in Units(e))
      BY <1>11, <2>3, <3>1, <3>3, ZenonT(40)
    <3> QED  BY <3>2, <3>3
  <2>4. \A u \in Away(e)' : u[1] = "close" /\ u[3] = 2 => engine'[e].shut
    BY <1>1, <1>3, <1>10, Zenon DEF Marked
  <2> QED  BY <2>2, <2>3, <2>4, ZenonT(40) DEF Marked
<1> QED  BY <1>0, <1>1, <1>2, <1>3, <1>4, <1>5, <1>6, <1>7, <1>14, ZenonT(40) DEF Later

\* The caller closes the underlying stream of an end, or nothing happens.
LEMMA CloseRestores ==
  ASSUME StreamInv, closed' \subseteq Ends,
         UNCHANGED <<engine, active, ssl, bioIn, bioOut, pipe, op, got, wrote, errors, rejected>>
  PROVE  StreamInv'
<1>1. /\ engine' = engine /\ active' = active /\ ssl' = ssl /\ bioIn' = bioIn /\ bioOut' = bioOut /\ pipe' = pipe
      /\ op' = op /\ got' = got /\ wrote' = wrote /\ errors' = errors /\ rejected' = rejected
  OBVIOUS
<1>2. /\ Shape /\ Bounded /\ Alone /\ EndsSound /\ Early /\ (\A e \in Ends : Marked(e)) /\ Clean
      /\ NoSpuriousErrors
  BY Zenon DEF StreamInv
<1>3. Shape'
  BY <1>1, <1>2, Zenon DEF Shape
<1>4. Bounded' /\ Alone' /\ Clean' /\ NoSpuriousErrors'
  <2>1. Bounded'
    BY <1>1, <1>2, Zenon DEF Bounded
  <2>2. Alone'
    <3>1. \A e \in Ends : active'[e] = (\E t \in Tasks : EndOf[t] = e /\ op'[t].at # "none")
      <4>1. \A e \in Ends : active[e] = (\E t \in Tasks : EndOf[t] = e /\ op[t].at # "none")
        BY <1>2, Zenon DEF Alone
      <4> QED  BY <1>1, <4>1, ZenonT(40)
    <3>2. \A t \in Tasks : op'[t].at = "none" => op'[t] = NoOp
      BY <1>1, <1>2, Zenon DEF Alone
    <3>3. \A t, u \in Tasks : EndOf[t] = EndOf[u] /\ op'[t].at # "none" /\ op'[u].at # "none" => t = u
      BY <1>1, <1>2 DEF Alone
    <3> QED  BY <3>1, <3>2, <3>3, Zenon DEF Alone
  <2>3. Clean'
    BY <1>1, <1>2, Zenon DEF Clean
  <2>4. NoSpuriousErrors'
    BY <1>1, <1>2 DEF NoSpuriousErrors
  <2> QED  BY <2>1, <2>2, <2>3, <2>4
<1>5. Early'
  BY <1>1, <1>2, Zenon DEF Early, Begun, Flights
<1>6. \A e \in Ends : Received(e)' /\ PipeEnd(e)' = PipeEnd(e)
  <2> SUFFICES ASSUME NEW e \in Ends PROVE Received(e)' /\ PipeEnd(e)' = PipeEnd(e)
    BY Zenon
  <2>1. Received(e)
    BY <1>2, Zenon DEF EndsSound
  <2> QED  BY <1>1, <2>1, Still, Zenon
<1>7. EndsSound'
  <2>1. ASSUME NEW p \in Ends
        PROVE  /\ Received(p)'
               /\ ~active'[p] => EndSound(p, NoOp)'
               /\ \A t \in Tasks : EndOf[t] = p /\ op'[t].at # "none" => EndSound(p, op[t])'
    <3>1. PICK e \in Ends : e = Peer(p)
      BY PeerFacts
    <3>2. PipeEnd(e)' = PipeEnd(e) /\ Received(p)'
      BY <1>6
    <3>3. ASSUME ~active'[p] PROVE EndSound(p, NoOp)'
      <4>1. EndSound(p, NoOp)
        BY <1>1, <1>2, <3>3, Zenon DEF EndsSound
      <4> QED  BY <1>1, <3>1, <3>2, <4>1, IdleKept, ZenonT(40)
    <3>4. ASSUME NEW t \in Tasks, EndOf[t] = p, op'[t].at # "none" PROVE EndSound(p, op[t])'
      <4>1. EndSound(p, op[t])
        BY <1>1, <1>2, <3>4, ZenonT(40) DEF EndsSound
      <4> QED  BY <1>1, <3>1, <3>2, <4>1, PeerKept, Zenon
    <3> QED  BY <3>2, <3>3, <3>4, Zenon
  <2> QED  BY <2>1, Zenon DEF EndsSound
<1>8. \A e \in Ends : Marked(e)'
  <2> SUFFICES ASSUME NEW e \in Ends PROVE Marked(e)'
    BY Zenon
  <2>1. Away(e)' = Away(e)
    <3>1. Drained(e)' = Drained(e)
      BY <1>1, Zenon DEF Drained
    <3> QED  BY <1>1, <3>1, Zenon DEF Away, Elems
  <2>2. Units(e)' = Units(e)
    BY <1>1, <2>1, Zenon DEF Units, Elems
  <2>3. Able(e)' = Able(e) /\ Closing(e)' = Closing(e)
    BY <1>1, Zenon DEF Able, Closing, Flushing
  <2>4. Marked(e)
    BY <1>2, Zenon
  <2> QED  BY <1>1, <2>1, <2>2, <2>3, <2>4, MarkedKept
<1> QED  BY <1>3, <1>4, <1>5, <1>7, <1>8, ZenonT(40) DEF StreamInv

\* Every step keeps the invariant: one case for each action of the model.
LEMMA StepKeeps == StreamInv /\ [Next]_vars => StreamInv'
<1> SUFFICES ASSUME StreamInv, [Next]_vars PROVE StreamInv'
  OBVIOUS
<1>0. Shape /\ Alone /\ EndsSound
  BY Zenon DEF StreamInv
<1>1. ASSUME NEW t \in Tasks, Begin(t) \/ Progress(t) \/ UnderlyingFails(t) \/ Destroy(t) PROVE StreamInv'
  <2>0. PICK e \in Ends : e = EndOf[t]
    BY TasksAssumption
  <2>1. CASE Begin(t)
    <3>1. Shape' /\ OthersKept(t)
      BY <1>0, <2>0, <2>1, BeginEffect, Zenon
    <3> QED  BY <1>0, <2>0, <2>1, <3>1, BeginKeeps, BeginLater, Restored, Zenon
  <2>2. CASE CallEngine(t)
    <3>1. Shape' /\ OthersKept(t)
      BY <1>0, <2>0, <2>2, CallEffect, Zenon
    <3> QED  BY <1>0, <2>0, <2>2, <3>1, CallKeeps, CallLater, Restored, Zenon
  <2>3. CASE SslPush(t)
    <3>1. Shape' /\ OthersKept(t)
      BY <1>0, <2>0, <2>3, PushEffect, ZenonT(40)
    <3> QED  BY <1>0, <2>0, <2>3, <3>1, PushKeeps, PushLater, Restored, Zenon
  <2>4. CASE SslSeal(t)
    <3>1. Shape' /\ OthersKept(t)
      BY <1>0, <2>0, <2>4, SealEffect, ZenonT(40)
    <3> QED  BY <1>0, <2>0, <2>4, <3>1, SealKeeps, SealLater, Restored, Zenon
  <2>5. CASE SslDone(t)
    <3>1. Shape' /\ OthersKept(t)
      BY <1>0, <2>0, <2>5, DoneEffect, ZenonT(40)
    <3> QED  BY <1>0, <2>0, <2>5, <3>1, DoneKeeps, DoneLater, Restored, Zenon
  <2>6. CASE SslPull(t)
    <3>1. Shape' /\ OthersKept(t)
      BY <1>0, <2>0, <2>6, PullEffect, Zenon
    <3> QED  BY <1>0, <2>0, <2>6, <3>1, PullKeeps, PullLater, Restored, Zenon
  <2>7. CASE SslOpen(t)
    <3>1. Shape' /\ OthersKept(t) /\ (Opened(t, e) \/ Refuses(t, e))
      BY <1>0, <2>0, <2>7, OpenEffect, Zenon
    <3>2. Later(e)
      BY <2>0, <2>7, <3>1, OpenedLater, RefusedLater, Zenon
    <3> QED  BY <1>0, <2>0, <2>7, <3>1, <3>2, OpenKeeps, Restored, Zenon
  <2>8. CASE Drain(t)
    <3>1. Shape' /\ OthersKept(t)
      BY <1>0, <2>0, <2>8, DrainEffect, Zenon
    <3> QED  BY <1>0, <2>0, <2>8, <3>1, DrainKeeps, DrainLater, Restored, Zenon
  <2>9. CASE WriteSome(t)
    <3>1. Shape' /\ OthersKept(t)
      <4>1. PICK p \in Ends : p = Peer(e)
        BY PeerFacts
      <4> QED  BY <1>0, <2>0, <2>9, <4>1, WriteEffect, ZenonT(40)
    <3> QED  BY <1>0, <2>0, <2>9, <3>1, WriteKeeps, WriteLater, Restored, Zenon
  <2>10. CASE AfterFlush(t)
    <3>1. Shape' /\ OthersKept(t)
      BY <1>0, <2>0, <2>10, AfterFlushEffect, ZenonT(40)
    <3> QED  BY <1>0, <2>0, <2>10, <3>1, AfterFlushKeeps, AfterFlushLater, Restored, Zenon
  <2>11. CASE Receive(t)
    <3>1. Shape' /\ OthersKept(t)
      BY <1>0, <2>0, <2>11, ReceiveEffect, ZenonT(40)
    <3> QED  BY <1>0, <2>0, <2>11, <3>1, ReceiveKeeps, ReceiveLater, Restored, Zenon
  <2>12. CASE Truncated(t) \/ UnderlyingFails(t) \/ Destroy(t)
    <3>1. Shape' /\ OthersKept(t)
      BY <1>0, <2>0, <2>12, AbandonEffect, Zenon
    <3> QED  BY <1>0, <2>0, <2>12, <3>1, AbandonKeeps, AbandonLater, Restored, Zenon
  <2> QED
    BY <1>1, <2>1, <2>2, <2>3, <2>4, <2>5, <2>6, <2>7, <2>8, <2>9, <2>10, <2>11, <2>12, ZenonT(40) DEF Progress
<1>2. ASSUME NEW e \in Ends, Close(e) PROVE StreamInv'
  <2>1. closed \subseteq Ends
    BY <1>0, Zenon DEF Shape
  <2>2. /\ closed' \subseteq Ends
        /\ UNCHANGED <<engine, active, ssl, bioIn, bioOut, pipe, op, got, wrote, errors, rejected>>
    BY <1>2, <2>1 DEF Close
  <2> QED  BY <2>2, CloseRestores
<1>3. ASSUME UNCHANGED vars PROVE StreamInv'
  <2>1. closed \subseteq Ends
    BY <1>0, Zenon DEF Shape
  <2>2. /\ closed' \subseteq Ends
        /\ UNCHANGED <<engine, active, ssl, bioIn, bioOut, pipe, op, got, wrote, errors, rejected>>
    BY <1>3, <2>1 DEF vars
  <2> QED  BY <2>2, CloseRestores
<1> QED  BY <1>1, <1>2, <1>3, Zenon DEF Next

\* Two ends that have not begun.
LEMMA InitKeeps == Init => StreamInv
<1> SUFFICES ASSUME Init PROVE StreamInv
  OBVIOUS
<1>1. /\ engine = [e \in Ends |-> [ready |-> FALSE, failed |-> FALSE, shut |-> FALSE, eof |-> FALSE]]
      /\ active = [e \in Ends |-> FALSE]
      /\ ssl = [e \in Ends |-> [flight |-> 0, out |-> <<>>, in |-> <<>>, sealed |-> 0, opened |-> 0]]
      /\ bioIn = [e \in Ends |-> <<>>] /\ bioOut = [e \in Ends |-> <<>>]
      /\ pipe = [e \in Ends |-> <<>>] /\ closed = {}
      /\ op = [t \in Tasks |-> NoOp]
      /\ got = [e \in Ends |-> 0] /\ wrote = [e \in Ends |-> 0] /\ errors = [e \in Ends |-> {}]
      /\ rejected = FALSE
  BY Zenon DEF Init
<1>2. \A e \in Ends :
        /\ engine[e] = [ready |-> FALSE, failed |-> FALSE, shut |-> FALSE, eof |-> FALSE] /\ active[e] = FALSE
        /\ ssl[e] = [flight |-> 0, out |-> <<>>, in |-> <<>>, sealed |-> 0, opened |-> 0]
        /\ bioIn[e] = <<>> /\ bioOut[e] = <<>> /\ pipe[e] = <<>> /\ got[e] = 0 /\ wrote[e] = 0 /\ errors[e] = {}
  BY <1>1, Zenon
<1>3. \A e \in Ends :
        /\ engine[e].ready = FALSE /\ engine[e].failed = FALSE /\ engine[e].shut = FALSE /\ engine[e].eof = FALSE
        /\ ssl[e].flight = 0 /\ ssl[e].out = <<>> /\ ssl[e].in = <<>> /\ ssl[e].sealed = 0 /\ ssl[e].opened = 0
  BY <1>2
<1>4. \A t \in Tasks : op[t] = NoOp
  BY <1>1, Zenon
<1>5. Shape
  <2>1. NoOp \in OpType
    BY Nothing DEF NoOp, OpType, Kinds
  <2>2. [ready |-> FALSE, failed |-> FALSE, shut |-> FALSE, eof |-> FALSE] \in EngineType
    BY DEF EngineType
  <2>3. [flight |-> 0, out |-> <<>>, in |-> <<>>, sealed |-> 0, opened |-> 0] \in SslType
    BY Nothing DEF SslType
  <2>4. engine \in [Ends -> EngineType] /\ ssl \in [Ends -> SslType] /\ op \in [Tasks -> OpType]
    BY <1>1, <2>1, <2>2, <2>3
  <2>5. /\ active \in [Ends -> BOOLEAN] /\ bioIn \in [Ends -> Seq(Unit)] /\ bioOut \in [Ends -> Seq(Unit)]
        /\ pipe \in [Ends -> Seq(Unit)] /\ closed \subseteq Ends /\ rejected \in BOOLEAN
    BY <1>1, Nothing, ZenonT(40)
  <2>6. got \in [Ends -> Nat] /\ wrote \in [Ends -> Nat]
    BY <1>1, Zenon
  <2>7. errors \in [Ends -> SUBSET {"eof", "truncated", "protocol_error", "certificate_verify_failed"}]
    BY <1>1, Zenon
  <2> QED  BY <2>4, <2>5, <2>6, <2>7, ZenonT(40) DEF Shape
<1>6. Bounded
  BY <1>2, Nothing, SizesAssumption DEF Bounded
<1>7. Alone
  BY <1>2, <1>4, NoOpFields, ZenonT(40) DEF Alone
<1>8. \A e \in Ends : InEnd(e) = 0 /\ BioEnd(e) = 0 /\ PipeEnd(e) = 0
  BY <1>2, <1>3, Nothing DEF InEnd, BioEnd, PipeEnd
<1>9. EndsSound
  <2>1. ASSUME NEW e \in Ends PROVE Received(e) /\ EndSound(e, NoOp)
    <3>1. Received(e)
      BY <1>2, <1>3, Nothing, Zenon DEF Received
    <3>2. Stands(e, NoOp)
      BY <1>2, <1>3, NoOpFields, ZenonT(40) DEF Stands, Flushing
    <3>3. PipeEnd(Peer(e)) = 0
      BY <1>8, PeerFacts, Zenon
    <3>4. Sends(e, NoOp)
      <4>1. ~Flushing(NoOp, {"fatal"})
        BY NoOpFields DEF Flushing
      <4>2. PipeEnd(Peer(e)) + Len(NoOp.out) = 0
        BY <3>3, Nothing, NoOpFields
      <4>3. Run(NoOp.out, PipeEnd(Peer(e))) /\ Run(bioOut[e], 0) /\ Run(ssl[e].out, 0 + Len(bioOut[e]))
        BY <1>2, <1>3, Nothing, NoOpFields, Zenon
      <4>4. Len(bioOut[e]) = 0 /\ Len(ssl[e].out) = 0 /\ ssl[e].sealed = 0
        BY <1>2, <1>3, Nothing, Zenon
      <4>5. 0 + Len(bioOut[e]) + Len(ssl[e].out) = 2 * ssl[e].sealed
        BY <4>4
      <4>6. Sending(e, NoOp.out, 2 * ssl[e].sealed)
        BY <4>2, <4>3, <4>5, ZenonT(40) DEF Sending
      <4> QED  BY <4>1, <4>6 DEF Sends
    <3>5. Counts(e, NoOp)
      BY <1>2, <1>3, NoOpFields DEF Counts, SealedFlights, OpenedFlights, One, Flushing
    <3> QED  BY <3>1, <3>2, <3>4, <3>5, Zenon DEF EndSound
  <2> QED  BY <1>4, <2>1, NoOpFields, Zenon DEF EndsSound
<1>10. Early
  BY <1>2, <1>3, SizesAssumption DEF Early, Begun
<1>11. \A e \in Ends : Marked(e)
  <2> SUFFICES ASSUME NEW e \in Ends PROVE Marked(e)
    OBVIOUS
  <2>1. \A u : u \notin Away(e)
    <3> SUFFICES ASSUME NEW u, u \in Away(e) PROVE FALSE
      BY Zenon
    <3>1. \/ \E t \in Tasks : EndOf[t] = e /\ u \in Elems(op[t].out)
          \/ u \in Elems(pipe[Peer(e)]) \/ u \in Elems(bioIn[Peer(e)]) \/ u \in Elems(ssl[Peer(e)].in)
      BY InAway
    <3>2. pipe[Peer(e)] = <<>> /\ bioIn[Peer(e)] = <<>> /\ ssl[Peer(e)].in = <<>>
      BY <1>2, <1>3, PeerFacts, Zenon
    <3>3. \A t \in Tasks : op[t].out = <<>>
      BY <1>4, NoOpFields, Zenon
    <3> QED  BY <3>1, <3>2, <3>3, Nothing, Zenon
  <2>2. Elems(ssl[e].out) = {} /\ Elems(bioOut[e]) = {}
    BY <1>2, <1>3, Nothing, Zenon
  <2>3. \A u : u \notin Units(e)
    BY <2>1, <2>2, Zenon DEF Units
  <2> QED  BY <2>1, <2>3, Zenon DEF Marked
<1>12. Clean /\ NoSpuriousErrors
  BY <1>2, <1>3, Zenon DEF Clean, NoSpuriousErrors
<1> QED  BY <1>5, <1>6, <1>7, <1>9, <1>10, <1>11, <1>12, ZenonT(40) DEF StreamInv

\* The invariant implies what the runs check.
LEMMA InvSays == StreamInv => EofMeansComplete /\ NothingHeldBack
<1> SUFFICES ASSUME StreamInv PROVE EofMeansComplete /\ NothingHeldBack
  OBVIOUS
<1>1. Shape /\ Bounded /\ Alone /\ EndsSound /\ Early /\ Clean
  BY Zenon DEF StreamInv
<1>2. EofMeansComplete
  BY <1>1, Zenon DEF Clean, EofMeansComplete
<1>3. ASSUME NEW e \in Ends, ~active[e], ~engine[e].failed PROVE bioOut[e] = <<>> /\ ssl[e].out = <<>>
  <2>1. Stands(e, NoOp)
    BY <1>1, <1>3, Zenon DEF EndsSound, EndSound
  <2> QED  BY <1>3, <2>1, NoOpFields, Zenon DEF Stands
<1>4. TypeOK
  <2>1. ASSUME NEW e \in Ends
        PROVE  /\ engine[e] \in [ready : BOOLEAN, failed : BOOLEAN, shut : BOOLEAN, eof : BOOLEAN]
               /\ Len(bioIn[e]) <= BioSize /\ Len(pipe[e]) <= PipeSize
               /\ ssl[e].flight \in 0 .. 3 /\ wrote[e] \in 0 .. MaxWrites /\ got[e] \in 0 .. MaxWrites
               /\ active[e] = (\E t \in Tasks : EndOf[t] = e /\ op[t].at # "none")
    <3>1. engine[e] \in [ready : BOOLEAN, failed : BOOLEAN, shut : BOOLEAN, eof : BOOLEAN]
      BY <1>1, Zenon DEF Shape, EngineType
    <3>2. Len(bioIn[e]) <= BioSize /\ Len(pipe[e]) <= PipeSize
      BY <1>1, Zenon DEF Bounded
    <3>3. ssl[e] \in SslType /\ wrote[e] \in Nat /\ got[e] \in Nat
      BY <1>1, Zenon DEF Shape
    <3>4. wrote[e] <= MaxWrites /\ got[e] <= MaxWrites
      BY <1>1, Zenon DEF Early, Begun
    <3>5. ssl[e].flight \in 0 .. 3
      BY <3>3, Zenon DEF SslType
    <3>6. active[e] = (\E t \in Tasks : EndOf[t] = e /\ op[t].at # "none")
      BY <1>1, Zenon DEF Alone
    <3>7. wrote[e] \in 0 .. MaxWrites /\ got[e] \in 0 .. MaxWrites
      BY <3>3, <3>4, SizesAssumption
    <3> QED  BY <3>1, <3>2, <3>5, <3>6, <3>7, Zenon
  <2>2. closed \subseteq Ends /\ rejected \in BOOLEAN
    BY <1>1, Zenon DEF Shape
  <2>3. \A t \in Tasks : op[t].at \in {"none", "call", "ssl", "flush", "receive"}
    BY <1>1 DEF Shape, OpType
  <2> QED  BY <2>1, <2>2, <2>3, Zenon DEF TypeOK
<1> QED  BY <1>2, <1>3, <1>4, Zenon DEF NothingHeldBack

\* The invariant holds of every reachable state, whatever the sizes of the buffers.
THEOREM StreamAlwaysSound == Spec => []StreamInv
<1>1. Init => StreamInv
  BY InitKeeps
<1>2. StreamInv /\ [Next]_vars => StreamInv'
  BY StepKeeps
<1> QED  BY <1>1, <1>2, PTL DEF Spec

\* However the transfers tear the records and tasks give up their waits (drive, flush, receive,
\* OperationGuard), OpenSSL is only ever fed the next record of the peer: a protocol error has
\* a rejected certificate behind it.
THEOREM ErrorsAreReal == Spec => []NoSpuriousErrors
<1>1. StreamInv => NoSpuriousErrors
  BY Zenon DEF StreamInv
<1> QED  BY <1>1, StreamAlwaysSound, PTL

\* A read that reports the end of the data (read_some, drive) has returned every write that
\* the peer was told of, and the peer has sent its close_notify: a truncation is never an end.
THEOREM EndsAreComplete == Spec => []EofMeansComplete
<1>1. StreamInv => EofMeansComplete
  BY InvSays, Zenon
<1> QED  BY <1>1, StreamAlwaysSound, PTL

\* Every operation flushes what OpenSSL produced before it returns (drive, flush), the buffers
\* keep to their capacity, and one task at a time uses a stream (OperationGuard).
THEOREM StreamHoldsNothingBack == Spec => []NothingHeldBack
<1>1. StreamInv => NothingHeldBack
  BY InvSays, Zenon
<1> QED  BY <1>1, StreamAlwaysSound, PTL

=============================================================================
