--------------------------- MODULE TlsStepProofs ----------------------------
(***************************************************************************)
(* The inductive invariant of TlsStream, what each of its actions does to  *)
(* the state, and the way between two engines: as long as either is used,  *)
(* no unit of ciphertext is lost, repeated or out of place from the        *)
(* buffers of one OpenSSL to those of the other, and its number tells what *)
(* it is.  TlsProofs draws the conclusions.                                *)
(***************************************************************************)
EXTENDS TlsStream, TLAPS

\* What OpenSSL sends: the kind of a record, its number, and which half of it.
Whats == {"flight", "data", "close", "alert"}
Unit == Whats \X (Nat \ {0}) \X {1, 2}

Kinds == {"none", "handshake", "read", "write", "shutdown"}
OpType ==
  [at : {"none", "call", "ssl", "flush", "receive"}, kind : Kinds, out : Seq(Unit),
   step : {"none", "complete", "eof", "want_output", "want_input", "fatal"}, sealed : BOOLEAN]

EngineType == [ready : BOOLEAN, failed : BOOLEAN, shut : BOOLEAN, eof : BOOLEAN]
SslType == [flight : 0 .. 3, out : Seq(Unit), in : Seq(Unit), sealed : Nat, opened : Nat]

\* The shape of the state.
Shape ==
  /\ engine \in [Ends -> EngineType]
  /\ active \in [Ends -> BOOLEAN]
  /\ ssl \in [Ends -> SslType]
  /\ bioIn \in [Ends -> Seq(Unit)] /\ bioOut \in [Ends -> Seq(Unit)] /\ pipe \in [Ends -> Seq(Unit)]
  /\ closed \subseteq Ends /\ rejected \in BOOLEAN
  /\ op \in [Tasks -> OpType]
  /\ got \in [Ends -> Nat] /\ wrote \in [Ends -> Nat]
  /\ errors \in [Ends -> SUBSET {"eof", "truncated", "protocol_error", "certificate_verify_failed"}]

\* The buffers keep to their capacity.
Bounded == \A e \in Ends : Len(bioIn[e]) <= BioSize /\ Len(pipe[e]) <= PipeSize

\* OperationGuard: a stream is active while a task uses it, and one at a time does.
Alone ==
  /\ \A e \in Ends : active[e] = (\E t \in Tasks : EndOf[t] = e /\ op[t].at # "none")
  /\ \A t \in Tasks : op[t].at = "none" => op[t] = NoOp
  /\ \A t, u \in Tasks : EndOf[t] = EndOf[u] /\ op[t].at # "none" /\ op[u].at # "none" => t = u

\* What the engine would answer without OpenSSL.
Known(e, kind) ==
  \/ kind = "handshake" /\ engine[e].ready
  \/ kind = "read" /\ engine[e].eof
  \/ kind = "shutdown" /\ engine[e].shut

Flushing(o, steps) == o.at = "flush" /\ o.step \in steps

\* Where an operation o of end e stands.
Stands(e, o) ==
  /\ o.at = "none" => o = NoOp /\ (~engine[e].failed => bioOut[e] = <<>> /\ ssl[e].out = <<>>)
  /\ o.at # "none" => o.kind # "none"
  /\ o.at # "flush" => o.out = <<>>
  /\ engine[e].failed => o.at \in {"none", "call"} \/ Flushing(o, {"fatal"})
  /\ o.sealed => o.kind \in {"write", "shutdown"}
  /\ o.kind = "write" => wrote[e] < MaxWrites
  /\ (o.at \in {"ssl", "receive"} \/ Flushing(o, {"want_output", "want_input"})) =>
       Usable(e, o.kind) /\ ~Known(e, o.kind)
  /\ o.at = "call" => \/ Usable(e, o.kind) /\ ~Known(e, o.kind)
                      \/ engine[e].failed
                      \/ ssl[e].out = <<>> /\ bioOut[e] = <<>> /\ ~o.sealed
  /\ o.at = "flush" => o.step # "none"
  /\ Flushing(o, {"fatal"}) => engine[e].failed
  /\ Flushing(o, {"complete", "eof"}) => ssl[e].out = <<>> /\ Usable(e, o.kind)
  /\ Flushing(o, {"complete"}) /\ o.kind = "write" => o.sealed
  /\ Flushing(o, {"complete"}) /\ o.kind # "write" => (o.kind = "read" \/ Known(e, o.kind))
  /\ Flushing(o, {"complete"}) /\ o.kind = "read" => ~engine[e].eof /\ got[e] < MaxWrites
  /\ Flushing(o, {"eof"}) => o.kind = "read" /\ engine[e].eof
  /\ Flushing(o, {"want_output"}) => ssl[e].out # <<>>
  /\ (o.at = "receive" \/ Flushing(o, {"want_input"})) => bioIn[e] = <<>> /\ o.kind \in {"handshake", "read"}
  /\ Flushing(o, {"fatal"}) => o.kind \in {"handshake", "read"}

\* Units in a queue follow each other without a gap, from place a on.
Place(u) == 2 * (u[2] - 1) + u[3]
Run(q, a) == \A k \in 1 .. Len(q) : Place(q[k]) = a + k

\* What e has received is the continuation of what it has opened.
InEnd(e) == 2 * ssl[e].opened + Len(ssl[e].in)
BioEnd(e) == InEnd(e) + Len(bioIn[e])
PipeEnd(e) == BioEnd(e) + Len(pipe[e])
Received(e) == Run(ssl[e].in, 2 * ssl[e].opened) /\ Run(bioIn[e], InEnd(e)) /\ Run(pipe[e], BioEnd(e))

\* What e still has to send, out of the buffer of flush and its own, is the continuation of that.
Sending(e, out, end) ==
  LET a == PipeEnd(Peer(e)) + Len(out)
  IN  /\ Run(out, PipeEnd(Peer(e))) /\ Run(bioOut[e], a) /\ Run(ssl[e].out, a + Len(bioOut[e]))
      /\ a + Len(bioOut[e]) + Len(ssl[e].out) = end
Sends(e, o) ==
  /\ ~engine[e].failed => Sending(e, o.out, 2 * ssl[e].sealed)
  /\ Flushing(o, {"fatal"}) => Sending(e, o.out, 2 * ssl[e].sealed + 2)

\* The flights an end seals, those it has sealed and those it has opened.
Flights(e) == IF e = "client" THEN 2 ELSE 1
SealedFlights(e) ==
  IF e = "client" THEN (IF ssl[e].flight = 0 THEN 0 ELSE IF ssl[e].flight = 3 THEN 2 ELSE 1)
                  ELSE (IF ssl[e].flight < 2 THEN 0 ELSE 1)
OpenedFlights(e) ==
  IF e = "client" THEN (IF ssl[e].flight < 2 THEN 0 ELSE 1)
                  ELSE (IF ssl[e].flight = 0 THEN 0 ELSE IF ssl[e].flight = 3 THEN 2 ELSE 1)

One(b) == IF b THEN 1 ELSE 0

\* Every record is accounted for.
Counts(e, o) ==
  ~engine[e].failed =>
    /\ ssl[e].sealed = SealedFlights(e) + wrote[e] + One(o.kind = "write" /\ o.sealed)
                       + One(engine[e].shut \/ (o.kind = "shutdown" /\ o.sealed))
    /\ ssl[e].opened = OpenedFlights(e) + got[e] + One(Flushing(o, {"complete"}) /\ o.kind = "read")
                       + One(engine[e].eof)

EndSound(e, o) == Stands(e, o) /\ Sends(e, o) /\ Counts(e, o)

\* Each end, with the operation that uses it or none.
EndsSound ==
  \A e \in Ends :
    /\ Received(e)
    /\ ~active[e] => EndSound(e, NoOp)
    /\ \A t \in Tasks : EndOf[t] = e /\ op[t].at # "none" => EndSound(e, op[t])

\* Nothing is read or written before the handshake is over.
Begun(e) ==
  /\ engine[e].ready => ssl[e].flight = 3
  /\ ~engine[e].ready => got[e] = 0 /\ wrote[e] = 0 /\ ~engine[e].eof /\ ~engine[e].shut
  /\ got[e] <= MaxWrites /\ wrote[e] <= MaxWrites
  /\ engine[e].shut => ssl[e].sealed = Flights(e) + wrote[e] + 1
Early == \A e \in Ends : Begun(e)

\* The units that e sent and that its peer has not opened; those past its buffers.
Elems(q) == {q[k] : k \in 1 .. Len(q)}
Drained(e) == UNION {Elems(op[t].out) : t \in {s \in Tasks : EndOf[s] = e}}
Away(e) ==
  Drained(e) \cup Elems(pipe[Peer(e)]) \cup Elems(bioIn[Peer(e)]) \cup Elems(ssl[Peer(e)].in)
Units(e) == Elems(ssl[e].out) \cup Elems(bioOut[e]) \cup Away(e)

\* Whether an engine may still be sent for, and whether its close_notify has been sealed.
Able(e) == ~engine[e].failed \/ \E t \in Tasks : EndOf[t] = e /\ Flushing(op[t], {"fatal"})
Closing(e) == engine[e].shut \/ \E t \in Tasks : EndOf[t] = e /\ op[t].kind = "shutdown" /\ op[t].sealed

\* The number of a record tells its kind.
Marked(e) ==
  /\ \A u \in Units(e) :
       /\ u[1] = "alert" => rejected /\ engine[e].failed
       /\ u[1] = "flight" => u[2] <= Flights(e)
       /\ u[1] \in {"data", "close"} => u[2] > Flights(e)
       /\ u[1] # "alert" => u[2] <= ssl[e].sealed
       /\ u[1] = "data" => u[2] <= Flights(e) + MaxWrites
       /\ u[1] = "close" => u[2] = ssl[e].sealed /\ (Able(e) => Closing(e))
  /\ \A u, v \in Units(e) : u[2] = v[2] => u[1] = v[1]
  /\ \A u \in Away(e) : u[1] = "close" /\ u[3] = 2 => engine[e].shut

\* A clean end is the end of everything that was written.
Clean ==
  \A e \in Ends :
    /\ engine[e].eof => engine[Peer(e)].shut /\ got[e] = wrote[Peer(e)]
    /\ "eof" \in errors[e] => engine[e].eof

\* The inductive invariant.
StreamInv ==
  /\ Shape /\ Bounded /\ Alone /\ EndsSound /\ Early /\ (\A e \in Ends : Marked(e)) /\ Clean
  /\ NoSpuriousErrors

-----------------------------------------------------------------------------
(* What a step leaves alone.                                               *)

\* What the operations of the other end rest on is left alone.
LEMMA PeerKept ==
  ASSUME NEW p \in Ends, NEW e \in Ends, e = Peer(p), NEW u \in Tasks,
         engine'[p] = engine[p], ssl'[p] = ssl[p], bioIn'[p] = bioIn[p], bioOut'[p] = bioOut[p],
         got'[p] = got[p], wrote'[p] = wrote[p], PipeEnd(e)' = PipeEnd(e), op'[u] = op[u], EndSound(p, op[u])
  PROVE  EndSound(p, op[u])'
<1>1. Stands(p, op[u]) => Stands(p, op[u])'
  <2>1. /\ Usable(p, op[u].kind)' <=> Usable(p, op[u].kind)
        /\ Known(p, op[u].kind)' <=> Known(p, op[u].kind)
    BY Zenon DEF Usable, Known
  <2>2. /\ Flushing(op[u], {"want_output", "want_input"})' <=> Flushing(op[u], {"want_output", "want_input"})
        /\ Flushing(op[u], {"complete", "eof"})' <=> Flushing(op[u], {"complete", "eof"})
        /\ Flushing(op[u], {"fatal"})' <=> Flushing(op[u], {"fatal"})
        /\ Flushing(op[u], {"complete"})' <=> Flushing(op[u], {"complete"})
        /\ Flushing(op[u], {"eof"})' <=> Flushing(op[u], {"eof"})
        /\ Flushing(op[u], {"want_output"})' <=> Flushing(op[u], {"want_output"})
        /\ Flushing(op[u], {"want_input"})' <=> Flushing(op[u], {"want_input"})
    BY Zenon DEF Flushing
  <2> QED  BY <2>1, <2>2 DEF Stands
<1>2. Sends(p, op[u]) => Sends(p, op[u])'
  BY Zenon DEF Sends, Sending, Flushing
<1>3. Counts(p, op[u]) => Counts(p, op[u])'
  BY DEF Counts, Flushing, SealedFlights, OpenedFlights, One
<1> QED  BY <1>1, <1>2, <1>3, Zenon DEF EndSound

\* Counts do not depend on the queues, nor on where the operation stands unless a read is complete.
LEMMA CountsSame ==
  ASSUME NEW t \in Tasks, NEW e \in Ends, Counts(e, op[t]),
         engine'[e].failed = engine[e].failed, engine'[e].shut = engine[e].shut, engine'[e].eof = engine[e].eof,
         ssl'[e].sealed = ssl[e].sealed, ssl'[e].opened = ssl[e].opened, ssl'[e].flight = ssl[e].flight,
         got'[e] = got[e], wrote'[e] = wrote[e], op'[t].kind = op[t].kind, op'[t].sealed = op[t].sealed,
         op[t].kind = "read" =>
           (op'[t].at = "flush" /\ op'[t].step = "complete" <=> op[t].at = "flush" /\ op[t].step = "complete")
  PROVE  Counts(e, op[t])'
<1>1. SealedFlights(e)' = SealedFlights(e) /\ OpenedFlights(e)' = OpenedFlights(e)
  BY Zenon DEF SealedFlights, OpenedFlights
<1>2. One(op'[t].kind = "write" /\ op'[t].sealed) = One(op[t].kind = "write" /\ op[t].sealed)
  BY Zenon DEF One
<1>3. One(engine'[e].shut \/ (op'[t].kind = "shutdown" /\ op'[t].sealed))
        = One(engine[e].shut \/ (op[t].kind = "shutdown" /\ op[t].sealed))
  BY Zenon DEF One
<1>4. One(Flushing(op[t], {"complete"})' /\ op'[t].kind = "read")
        = One(Flushing(op[t], {"complete"}) /\ op[t].kind = "read")
  <2>1. Flushing(op[t], {"complete"})' <=> op'[t].at = "flush" /\ op'[t].step = "complete"
    BY Zenon DEF Flushing
  <2>2. Flushing(op[t], {"complete"}) <=> op[t].at = "flush" /\ op[t].step = "complete"
    BY Zenon DEF Flushing
  <2>3. Flushing(op[t], {"complete"})' /\ op'[t].kind = "read" <=> Flushing(op[t], {"complete"}) /\ op[t].kind = "read"
    BY <2>1, <2>2, Zenon
  <2> QED  BY <2>3, Zenon DEF One
<1>5. One(engine'[e].eof) = One(engine[e].eof)
  BY Zenon DEF One
<1> QED  BY <1>1, <1>2, <1>3, <1>4, <1>5, Zenon DEF Counts

\* Nor where an operation stands that goes on flushing.
LEMMA StandsSame ==
  ASSUME NEW t \in Tasks, NEW e \in Ends, engine'[e] = engine[e], ssl'[e] = ssl[e], bioIn'[e] = bioIn[e],
         got'[e] = got[e], wrote'[e] = wrote[e], op[t].at = "flush", op'[t].at = "flush",
         op'[t].step = op[t].step, op'[t].kind = op[t].kind, op'[t].sealed = op[t].sealed, Stands(e, op[t])
  PROVE  Stands(e, op[t])'
<1>1. /\ Usable(e, op[t].kind)' <=> Usable(e, op[t].kind)
      /\ Known(e, op[t].kind)' <=> Known(e, op[t].kind)
  BY Zenon DEF Usable, Known
<1>2. /\ Flushing(op[t], {"want_output", "want_input"})' <=> Flushing(op[t], {"want_output", "want_input"})
      /\ Flushing(op[t], {"complete", "eof"})' <=> Flushing(op[t], {"complete", "eof"})
      /\ Flushing(op[t], {"fatal"})' <=> Flushing(op[t], {"fatal"})
      /\ Flushing(op[t], {"complete"})' <=> Flushing(op[t], {"complete"})
      /\ Flushing(op[t], {"eof"})' <=> Flushing(op[t], {"eof"})
      /\ Flushing(op[t], {"want_output"})' <=> Flushing(op[t], {"want_output"})
      /\ Flushing(op[t], {"want_input"})' <=> Flushing(op[t], {"want_input"})
  BY Zenon DEF Flushing
<1> QED  BY <1>1, <1>2, ZenonT(40) DEF Stands

\* The same of an end that nobody uses.
LEMMA IdleKept ==
  ASSUME NEW p \in Ends, NEW e \in Ends, e = Peer(p),
         engine'[p] = engine[p], ssl'[p] = ssl[p], bioIn'[p] = bioIn[p], bioOut'[p] = bioOut[p],
         got'[p] = got[p], wrote'[p] = wrote[p], PipeEnd(e)' = PipeEnd(e), EndSound(p, NoOp)
  PROVE  EndSound(p, NoOp)'
<1>1. Stands(p, NoOp) => Stands(p, NoOp)'
  <2>1. NoOp.at = "none" /\ NoOp.out = <<>> /\ NoOp.kind = "none" /\ NoOp.sealed = FALSE
    BY DEF NoOp
  <2>2. Stands(p, NoOp) => (~engine'[p].failed => bioOut'[p] = <<>> /\ ssl'[p].out = <<>>)
    BY <2>1, ZenonT(40) DEF Stands
  <2>3. (~engine'[p].failed => bioOut'[p] = <<>> /\ ssl'[p].out = <<>>) => Stands(p, NoOp)'
    BY <2>1, ZenonT(40) DEF Stands, Flushing
  <2> QED  BY <2>2, <2>3, ZenonT(40)
<1>2. Sends(p, NoOp) => Sends(p, NoOp)'
  BY Zenon DEF Sends, Sending, Flushing
<1>3. Counts(p, NoOp) => Counts(p, NoOp)'
  BY DEF Counts, Flushing, SealedFlights, OpenedFlights, One
<1> QED  BY <1>1, <1>2, <1>3 DEF EndSound

\* An end whose task has left is one that nobody uses.
LEMMA Freed ==
  ASSUME NEW e \in Ends, NEW t \in Tasks, op'[t] = NoOp, EndSound(e, op[t])'
  PROVE  EndSound(e, NoOp)'
<1>1. Stands(e, op[t])' => Stands(e, NoOp)'
  <2>1. NoOp.at = "none" /\ NoOp.out = <<>> /\ NoOp.kind = "none" /\ NoOp.sealed = FALSE
    BY DEF NoOp
  <2>2. Stands(e, op[t])' => (~engine'[e].failed => bioOut'[e] = <<>> /\ ssl'[e].out = <<>>)
    BY <2>1, Zenon DEF Stands
  <2>3. (~engine'[e].failed => bioOut'[e] = <<>> /\ ssl'[e].out = <<>>) => Stands(e, NoOp)'
    BY <2>1, Zenon DEF Stands, Flushing
  <2> QED  BY <2>2, <2>3, Zenon
<1>2. Sends(e, op[t])' => Sends(e, NoOp)'
  BY DEF Sends, Sending, Flushing
<1>3. Counts(e, op[t])' => Counts(e, NoOp)'
  BY DEF Counts, Flushing, SealedFlights, OpenedFlights, One
<1> QED  BY <1>1, <1>2, <1>3 DEF EndSound

-----------------------------------------------------------------------------
(* Queues of units.                                                        *)

\* There are two ends.
LEMMA PeerFacts == \A e \in Ends : Peer(e) \in Ends /\ Peer(e) # e /\ Peer(Peer(e)) = e
BY DEF Ends, Peer

\* The end that is not this one is its peer.
LEMMA TwoEnds == \A e, f \in Ends : f = e \/ f = Peer(e)
BY DEF Ends, Peer

\* What flush appends to the pipe, and receive to the BIO.
LEMMA Joined ==
  ASSUME NEW q \in Seq(Unit), NEW r \in Seq(Unit), NEW a \in Nat, Run(q, a), Run(r, a + Len(q))
  PROVE  /\ q \o r \in Seq(Unit) /\ Len(q \o r) = Len(q) + Len(r)
         /\ Run(q \o r, a) /\ Elems(q \o r) = Elems(q) \cup Elems(r)
<1>1. /\ q \o r \in Seq(Unit) /\ Len(q \o r) = Len(q) + Len(r) /\ Len(q) \in Nat /\ Len(r) \in Nat
      /\ \A k \in 1 .. Len(q) + Len(r) : (q \o r)[k] = IF k <= Len(q) THEN q[k] ELSE r[k - Len(q)]
  OBVIOUS
<1>2. \A k \in 1 .. Len(q) : k \in 1 .. Len(q) + Len(r) /\ (q \o r)[k] = q[k]
  BY <1>1
<1>3. \A k \in 1 .. Len(r) : Len(q) + k \in 1 .. Len(q) + Len(r) /\ (q \o r)[Len(q) + k] = r[k]
  BY <1>1
<1>4. \A k \in 1 .. Len(q) + Len(r) : k \in 1 .. Len(q) \/ (k - Len(q) \in 1 .. Len(r) /\ (q \o r)[k] = r[k - Len(q)])
  BY <1>1
<1>5. Run(q \o r, a)
  <2> SUFFICES ASSUME NEW k \in 1 .. Len(q) + Len(r) PROVE Place((q \o r)[k]) = a + k
    BY <1>1 DEF Run
  <2>1. CASE k \in 1 .. Len(q)
    BY <1>2, <2>1 DEF Run
  <2>2. CASE k - Len(q) \in 1 .. Len(r) /\ (q \o r)[k] = r[k - Len(q)]
    <3>1. Place(r[k - Len(q)]) = (a + Len(q)) + (k - Len(q))
      BY <2>2 DEF Run
    <3> QED  BY <1>1, <2>2, <3>1
  <2> QED  BY <1>4, <2>1, <2>2
<1>6. Elems(q \o r) = Elems(q) \cup Elems(r)
  <2>1. ASSUME NEW k \in 1 .. Len(q) + Len(r) PROVE (q \o r)[k] \in Elems(q) \cup Elems(r)
    BY <1>2, <1>4, Zenon DEF Elems
  <2>2. ASSUME NEW k \in 1 .. Len(q) PROVE q[k] \in Elems(q \o r)
    BY <1>1, <1>2 DEF Elems
  <2>3. ASSUME NEW k \in 1 .. Len(r) PROVE r[k] \in Elems(q \o r)
    BY <1>1, <1>3 DEF Elems
  <2> QED  BY <1>1, <2>1, <2>2, <2>3, Zenon DEF Elems
<1> QED  BY <1>1, <1>5, <1>6

\* What a transfer of n units takes and what it leaves.
LEMMA Torn ==
  ASSUME NEW q \in Seq(Unit), NEW n \in 0 .. Len(q), NEW a \in Nat, Run(q, a)
  PROVE  /\ SubSeq(q, 1, n) \in Seq(Unit) /\ Len(SubSeq(q, 1, n)) = n
         /\ Run(SubSeq(q, 1, n), a) /\ Elems(SubSeq(q, 1, n)) \subseteq Elems(q)
         /\ SubSeq(q, n + 1, Len(q)) \in Seq(Unit) /\ Len(SubSeq(q, n + 1, Len(q))) = Len(q) - n
         /\ Run(SubSeq(q, n + 1, Len(q)), a + n) /\ Elems(SubSeq(q, n + 1, Len(q))) \subseteq Elems(q)
<1>1. Len(q) \in Nat /\ n \in Nat /\ n <= Len(q)
  OBVIOUS
<1>2. /\ SubSeq(q, 1, n) \in Seq(Unit) /\ Len(SubSeq(q, 1, n)) = n
      /\ \A k \in 1 .. n : k \in 1 .. Len(q) /\ SubSeq(q, 1, n)[k] = q[k]
  BY <1>1
<1>3. /\ SubSeq(q, n + 1, Len(q)) \in Seq(Unit) /\ Len(SubSeq(q, n + 1, Len(q))) = Len(q) - n
      /\ \A k \in 1 .. Len(q) - n : n + k \in 1 .. Len(q) /\ SubSeq(q, n + 1, Len(q))[k] = q[n + k]
  BY <1>1
<1>4. Run(SubSeq(q, 1, n), a) /\ Elems(SubSeq(q, 1, n)) \subseteq Elems(q)
  BY <1>2, Zenon DEF Run, Elems
<1>5. Run(SubSeq(q, n + 1, Len(q)), a + n)
  <2> SUFFICES ASSUME NEW k \in 1 .. Len(q) - n PROVE Place(q[n + k]) = a + n + k
    BY <1>3 DEF Run
  <2>1. Place(q[n + k]) = a + (n + k)
    BY <1>3 DEF Run
  <2> QED  BY <1>1, <2>1
<1>6. Elems(SubSeq(q, n + 1, Len(q))) \subseteq Elems(q)
  BY <1>3, Zenon DEF Elems
<1> QED  BY <1>2, <1>3, <1>4, <1>5, <1>6

\* What OpenSSL moves a unit at a time.
LEMMA Shifted ==
  ASSUME NEW q \in Seq(Unit), q # <<>>, NEW a \in Nat, Run(q, a)
  PROVE  /\ Head(q) \in Unit /\ Place(Head(q)) = a + 1 /\ Head(q) \in Elems(q)
         /\ Tail(q) \in Seq(Unit) /\ Len(Tail(q)) = Len(q) - 1 /\ Len(q) > 0
         /\ Run(Tail(q), a + 1) /\ Elems(Tail(q)) \subseteq Elems(q)
<1>1. /\ Len(q) \in Nat /\ Len(q) > 0 /\ Head(q) = q[1] /\ q[1] \in Unit
      /\ Tail(q) \in Seq(Unit) /\ Len(Tail(q)) = Len(q) - 1
      /\ \A k \in 1 .. Len(q) - 1 : k + 1 \in 1 .. Len(q) /\ Tail(q)[k] = q[k + 1]
  OBVIOUS
<1>2. 1 \in 1 .. Len(q)
  BY <1>1
<1>3. Place(q[1]) = a + 1 /\ Head(q) \in Elems(q)
  BY <1>1, <1>2 DEF Run, Elems
<1>4. Run(Tail(q), a + 1)
  <2> SUFFICES ASSUME NEW k \in 1 .. Len(q) - 1 PROVE Place(q[k + 1]) = a + 1 + k
    BY <1>1 DEF Run
  <2>1. Place(q[k + 1]) = a + (k + 1)
    BY <1>1 DEF Run
  <2> QED  BY <2>1
<1>5. Elems(Tail(q)) \subseteq Elems(q)
  BY <1>1 DEF Elems
<1> QED  BY <1>1, <1>3, <1>4, <1>5

\* ... to the end of another queue.
LEMMA Extended ==
  ASSUME NEW q \in Seq(Unit), NEW u \in Unit, NEW a \in Nat, Run(q, a), Place(u) = a + Len(q) + 1
  PROVE  /\ Append(q, u) \in Seq(Unit) /\ Len(Append(q, u)) = Len(q) + 1
         /\ Run(Append(q, u), a) /\ Elems(Append(q, u)) = Elems(q) \cup {u}
<1>1. /\ Append(q, u) \in Seq(Unit) /\ Len(Append(q, u)) = Len(q) + 1 /\ Len(q) \in Nat
      /\ Append(q, u)[Len(q) + 1] = u /\ Len(q) + 1 \in 1 .. Len(q) + 1
      /\ \A k \in 1 .. Len(q) : k \in 1 .. Len(q) + 1 /\ Append(q, u)[k] = q[k]
      /\ \A k \in 1 .. Len(q) + 1 : k \in 1 .. Len(q) \/ k = Len(q) + 1
  OBVIOUS
<1>2. \A k \in 1 .. Len(q) + 1 : Place(Append(q, u)[k]) = a + k
  BY <1>1 DEF Run
<1>3. Elems(Append(q, u)) = Elems(q) \cup {u}
  BY <1>1, Zenon DEF Elems
<1> QED  BY <1>1, <1>2, <1>3 DEF Run

\* An empty queue.
LEMMA Nothing ==
  <<>> \in Seq(Unit) /\ Len(<<>>) = 0 /\ Elems(<<>>) = {} /\ \A a : Run(<<>>, a)
BY DEF Run, Elems

\* A record that is sealed or an alert follows the records sealed before.
LEMMA Records ==
  ASSUME NEW e \in Ends, ssl[e].sealed \in Nat, NEW what \in Whats
  PROVE  /\ Record(e, what) \in Seq(Unit) /\ Len(Record(e, what)) = 2
         /\ Run(Record(e, what), 2 * ssl[e].sealed)
         /\ \A u \in Elems(Record(e, what)) : u[1] = what /\ u[2] = ssl[e].sealed + 1
<1>1. PICK n \in Nat \ {0} : n = ssl[e].sealed + 1
  OBVIOUS
<1>2. PICK x, y : x = <<what, n, 1>> /\ y = <<what, n, 2>>
  BY Zenon
<1>3. /\ x \in Unit /\ x[1] = what /\ x[2] = n /\ x[3] = 1
      /\ y \in Unit /\ y[1] = what /\ y[2] = n /\ y[3] = 2
  BY <1>2 DEF Unit
<1>4. Record(e, what) = <<x, y>>
  BY <1>1, <1>2 DEF Record
<1>5. <<x, y>> \in Seq(Unit) /\ Len(<<x, y>>) = 2 /\ <<x, y>>[1] = x /\ <<x, y>>[2] = y
  BY <1>3
<1>6. \A k \in 1 .. 2 : k = 1 \/ k = 2
  OBVIOUS
<1>7. Run(<<x, y>>, 2 * ssl[e].sealed)
  BY <1>1, <1>3, <1>5, <1>6 DEF Run, Place
<1>8. \A u \in Elems(<<x, y>>) : u = x \/ u = y
  BY <1>5, <1>6 DEF Elems
<1> QED  BY <1>1, <1>3, <1>4, <1>5, <1>7, <1>8

-----------------------------------------------------------------------------
(* What the actions do.                                                    *)

\* A task leaves the other tasks, and the end they use, alone.
OthersKept(t) ==
  /\ \A u \in Tasks : u # t => op'[u] = op[u]
  /\ \A f \in Ends : f # EndOf[t] =>
       /\ engine'[f] = engine[f] /\ active'[f] = active[f] /\ ssl'[f] = ssl[f]
       /\ bioIn'[f] = bioIn[f] /\ bioOut'[f] = bioOut[f]
       /\ got'[f] = got[f] /\ wrote'[f] = wrote[f] /\ errors'[f] = errors[f]

\* The stream of a task that leaves is free again.
Left(t) == op'[t] = NoOp /\ active'[EndOf[t]] = FALSE

\* The state has its shape, one field at a time.
LEMMA Typed ==
  ASSUME Shape, NEW t \in Tasks, NEW e \in Ends
  PROVE  /\ op[t] \in OpType /\ op[t].out \in Seq(Unit)
         /\ engine[e] \in EngineType
         /\ ssl[e] \in SslType
         /\ ssl[e].out \in Seq(Unit) /\ ssl[e].in \in Seq(Unit)
         /\ ssl[e].flight \in 0 .. 3 /\ ssl[e].sealed \in Nat /\ ssl[e].opened \in Nat
         /\ bioIn[e] \in Seq(Unit) /\ bioOut[e] \in Seq(Unit) /\ pipe[e] \in Seq(Unit)
         /\ got[e] \in Nat /\ wrote[e] \in Nat /\ EndOf[t] \in Ends
         /\ InEnd(e) \in Nat /\ BioEnd(e) \in Nat /\ PipeEnd(e) \in Nat
<1>1. /\ op[t] \in OpType
      /\ engine[e] \in EngineType
      /\ ssl[e] \in SslType
      /\ bioIn[e] \in Seq(Unit) /\ bioOut[e] \in Seq(Unit) /\ pipe[e] \in Seq(Unit)
      /\ got[e] \in Nat /\ wrote[e] \in Nat /\ EndOf[t] \in Ends
  BY TasksAssumption, Zenon DEF Shape
<1>2. op[t].out \in Seq(Unit)
  BY <1>1 DEF OpType
<1>3. /\ ssl[e].out \in Seq(Unit) /\ ssl[e].in \in Seq(Unit)
      /\ ssl[e].flight \in 0 .. 3 /\ ssl[e].sealed \in Nat /\ ssl[e].opened \in Nat
  BY <1>1 DEF SslType
<1>4. Len(ssl[e].in) \in Nat /\ Len(bioIn[e]) \in Nat /\ Len(pipe[e]) \in Nat
  BY <1>1, <1>3
<1>5. InEnd(e) \in Nat
  BY <1>3, <1>4 DEF InEnd
<1>6. BioEnd(e) \in Nat
  BY <1>4, <1>5 DEF BioEnd
<1>7. PipeEnd(e) \in Nat
  BY <1>4, <1>6 DEF PipeEnd
<1> QED  BY <1>1, <1>2, <1>3, <1>5, <1>6, <1>7

\* run() takes the guard.
LEMMA BeginEffect ==
  ASSUME Shape, NEW t \in Tasks, NEW e \in Ends, e = EndOf[t], Begin(t)
  PROVE  /\ Shape' /\ OthersKept(t) /\ op[t].at = "none" /\ ~active[e] /\ active'[e] = TRUE
         /\ op'[t].at = "call" /\ op'[t].kind # "none" /\ op'[t].out = <<>> /\ ~op'[t].sealed
         /\ op'[t].step = "none"
         /\ op'[t].kind = "write" => wrote[e] < MaxWrites
         /\ UNCHANGED <<engine, ssl, bioIn, bioOut, pipe, got, wrote, errors, rejected>>
<1>1. /\ op[t].at = "none" /\ ~active[e] /\ active' = [active EXCEPT ![e] = TRUE]
      /\ engine' = engine /\ ssl' = ssl /\ bioIn' = bioIn /\ bioOut' = bioOut /\ pipe' = pipe
      /\ got' = got /\ wrote' = wrote /\ errors' = errors /\ rejected' = rejected /\ closed' = closed
  BY DEF Begin, Busy, world
<1>2. PICK kind \in {"handshake", "read", "write", "shutdown"} :
        /\ kind = "write" => wrote[e] < MaxWrites
        /\ op' = [op EXCEPT ![t] = [NoOp EXCEPT !.at = "call", !.kind = kind]]
  BY Zenon DEF Begin
<1>3. PICK o : o = [NoOp EXCEPT !.at = "call", !.kind = kind]
  OBVIOUS
<1>4. o \in OpType /\ o.at = "call" /\ o.kind = kind /\ o.out = <<>> /\ ~o.sealed /\ o.step = "none"
  BY <1>3, Nothing, Zenon DEF NoOp, OpType, Kinds
<1>5. op \in [Tasks -> OpType] /\ active \in [Ends -> BOOLEAN]
  BY Zenon DEF Shape
<1>6. op' = [op EXCEPT ![t] = o]
  BY <1>2, <1>3
<1>7. op'[t] = o /\ op' \in [Tasks -> OpType] /\ \A u \in Tasks : u # t => op'[u] = op[u]
  BY <1>4, <1>5, <1>6
<1>8. active'[e] = TRUE /\ active' \in [Ends -> BOOLEAN] /\ \A f \in Ends : f # e => active'[f] = active[f]
  BY <1>1, <1>5
<1>9. Shape'
  BY <1>1, <1>7, <1>8, Zenon DEF Shape
<1>10. OthersKept(t)
  BY <1>1, <1>7, <1>8, Zenon DEF OthersKept
<1> QED  BY <1>1, <1>2, <1>4, <1>7, <1>8, <1>9, <1>10, Zenon

\* A task changes its operation and its stream's guard only.
OpStep(t) ==
  /\ op' \in [Tasks -> OpType] /\ \A u \in Tasks : u # t => op'[u] = op[u]
  /\ active' \in [Ends -> BOOLEAN] /\ \A f \in Ends : f # EndOf[t] => active'[f] = active[f]
Fields(t, at, step) ==
  /\ op'[t].at = at /\ op'[t].step = step
  /\ op'[t].kind = op[t].kind /\ op'[t].out = op[t].out /\ op'[t].sealed = op[t].sealed

\* An operation is replaced by another.
LEMMA OpReplaced ==
  ASSUME Shape, NEW t \in Tasks, NEW o \in OpType, op' = [op EXCEPT ![t] = o], active' = active
  PROVE  OpStep(t) /\ op'[t] = o
<1>1. op \in [Tasks -> OpType] /\ active \in [Ends -> BOOLEAN]
  BY Zenon DEF Shape
<1> QED  BY <1>1 DEF OpStep

\* Leave, Report and To.
LEMMA Leaves ==
  ASSUME Shape, NEW t \in Tasks, Leave(t)
  PROVE  OpStep(t) /\ Left(t)
<1>1. op \in [Tasks -> OpType] /\ active \in [Ends -> BOOLEAN] /\ EndOf[t] \in Ends
  BY TasksAssumption, Zenon DEF Shape
<1>2. NoOp \in OpType
  BY Nothing DEF NoOp, OpType, Kinds
<1> QED  BY <1>1, <1>2 DEF OpStep, Left, Leave

\* The engine reports (drive() flushes next).
LEMMA Reports ==
  ASSUME Shape, NEW t \in Tasks, NEW step \in {"complete", "eof", "want_output", "want_input", "fatal"},
         Report(t, step)
  PROVE  OpStep(t) /\ Fields(t, "flush", step) /\ active' = active
<1>1. op \in [Tasks -> OpType] /\ op[t] \in OpType
  BY Zenon DEF Shape
<1>2. PICK o : o = [op[t] EXCEPT !.at = "flush", !.step = step]
  OBVIOUS
<1>3. /\ o \in OpType /\ o.at = "flush" /\ o.step = step
      /\ o.kind = op[t].kind /\ o.out = op[t].out /\ o.sealed = op[t].sealed
  BY <1>1, <1>2, Zenon DEF OpType
<1>4. op' = [op EXCEPT ![t] = o] /\ active' = active
  BY <1>1, <1>2, Zenon DEF Report
<1>5. OpStep(t) /\ op'[t] = o
  BY <1>3, <1>4, OpReplaced, Zenon
<1> QED  BY <1>3, <1>4, <1>5 DEF Fields

\* An operation moves on.
LEMMA Goes ==
  ASSUME Shape, NEW t \in Tasks, NEW place \in {"call", "receive"}, To(t, place)
  PROVE  OpStep(t) /\ Fields(t, place, op[t].step) /\ active' = active
<1>1. op \in [Tasks -> OpType] /\ op[t] \in OpType
  BY Zenon DEF Shape
<1>2. PICK o : o = [op[t] EXCEPT !.at = place]
  BY Zenon
<1>3. /\ o \in OpType /\ o.at = place /\ o.step = op[t].step
      /\ o.kind = op[t].kind /\ o.out = op[t].out /\ o.sealed = op[t].sealed
  BY <1>1, <1>2 DEF OpType
<1>4. op' = [op EXCEPT ![t] = o] /\ active' = active
  BY <1>1, <1>2 DEF To
<1>5. OpStep(t) /\ op'[t] = o
  BY <1>3, <1>4, OpReplaced, Zenon
<1> QED  BY <1>3, <1>4, <1>5 DEF Fields

\* The engine is invalidated.
EngineFails(e) ==
  /\ engine'[e].failed /\ engine'[e].ready = engine[e].ready
  /\ engine'[e].shut = engine[e].shut /\ engine'[e].eof = engine[e].eof

\* invalidate() marks one engine, and nothing else of it.
LEMMA Invalidates ==
  ASSUME Shape, NEW e \in Ends, engine' = Invalidated(e)
  PROVE  /\ engine' \in [Ends -> EngineType]
         /\ EngineFails(e) /\ \A f \in Ends : f # e => engine'[f] = engine[f]
<1>1. engine \in [Ends -> EngineType]
  BY Zenon DEF Shape
<1>2. engine[e] \in EngineType
  BY <1>1
<1>3. PICK x : x = [engine[e] EXCEPT !.failed = TRUE]
  BY Zenon
<1>4. /\ x \in EngineType
      /\ x.failed /\ x.ready = engine[e].ready /\ x.shut = engine[e].shut /\ x.eof = engine[e].eof
  BY <1>2, <1>3, Zenon DEF EngineType
<1>5. engine' = [engine EXCEPT ![e] = x]
  BY <1>1, <1>3 DEF Invalidated
<1>6. engine'[e] = x /\ engine' \in [Ends -> EngineType]
      /\ \A f \in Ends : f # e => engine'[f] = engine[f]
  BY <1>1, <1>4, <1>5
<1> QED  BY <1>4, <1>6 DEF EngineFails

\* One queue is replaced.
LEMMA QueueReplaced ==
  ASSUME NEW f \in [Ends -> Seq(Unit)], NEW e \in Ends, NEW q \in Seq(Unit), NEW g, g = [f EXCEPT ![e] = q]
  PROVE  g \in [Ends -> Seq(Unit)] /\ g[e] = q /\ \A d \in Ends : d # e => g[d] = f[d]
OBVIOUS

\* One engine's OpenSSL is replaced.
LEMMA SslReplaced ==
  ASSUME Shape, NEW e \in Ends, NEW x \in SslType, ssl' = [ssl EXCEPT ![e] = x]
  PROVE  ssl' \in [Ends -> SslType] /\ ssl'[e] = x /\ \A f \in Ends : f # e => ssl'[f] = ssl[f]
BY DEF Shape

\* The engine is called: what it answers without OpenSSL, and what it refuses.
LEMMA CallEffect ==
  ASSUME Shape, NEW t \in Tasks, NEW e \in Ends, e = EndOf[t], CallEngine(t)
  PROVE  /\ Shape' /\ OthersKept(t) /\ op[t].at = "call"
         /\ UNCHANGED <<engine, ssl, bioIn, bioOut, pipe, got, wrote, errors, rejected>>
         /\ \/ ~Usable(e, op[t].kind) /\ Left(t)
            \/ /\ Usable(e, op[t].kind) /\ active' = active
               /\ \/ Known(e, op[t].kind) /\ Fields(t, "flush", IF op[t].kind = "read" THEN "eof" ELSE "complete")
                  \/ ~Known(e, op[t].kind) /\ Fields(t, "ssl", IF op[t].kind = "read" THEN "eof" ELSE "complete")
<1>1. /\ op[t].at = "call"
      /\ engine' = engine /\ ssl' = ssl /\ bioIn' = bioIn /\ bioOut' = bioOut /\ pipe' = pipe
      /\ got' = got /\ wrote' = wrote /\ errors' = errors /\ rejected' = rejected /\ closed' = closed
  BY DEF CallEngine, world
<1>2. op \in [Tasks -> OpType] /\ op[t] \in OpType
  BY Zenon DEF Shape
<1>3. CASE ~Usable(e, op[t].kind)
  <2>1. Leave(t)
    BY <1>3 DEF CallEngine
  <2>2. OpStep(t) /\ Left(t)
    BY <2>1, Leaves
  <2> QED  BY <1>1, <1>3, <2>2 DEF Shape, OthersKept, OpStep
<1>4. CASE Usable(e, op[t].kind)
  <2>1. PICK at, step : /\ at = IF Known(e, op[t].kind) THEN "flush" ELSE "ssl"
                        /\ step = IF op[t].kind = "read" THEN "eof" ELSE "complete"
    OBVIOUS
  <2>2. PICK o : o = [op[t] EXCEPT !.at = at, !.step = step]
    OBVIOUS
  <2>3. /\ o \in OpType /\ o.at = at /\ o.step = step
        /\ o.kind = op[t].kind /\ o.out = op[t].out /\ o.sealed = op[t].sealed
    BY <1>2, <2>1, <2>2, Zenon DEF OpType
  <2>4. op' = [op EXCEPT ![t] = o] /\ active' = active
    BY <1>2, <1>4, <2>1, <2>2, Zenon DEF CallEngine, Known
  <2>5. OpStep(t) /\ op'[t] = o
    BY <2>3, <2>4, OpReplaced, Zenon
  <2>6. Fields(t, at, step)
    BY <2>3, <2>5 DEF Fields
  <2>7. Shape' /\ OthersKept(t)
    BY <1>1, <2>5, Zenon DEF Shape, OthersKept, OpStep
  <2> QED  BY <1>1, <1>4, <2>1, <2>4, <2>6, <2>7
<1> QED  BY <1>3, <1>4

\* OpenSSL pushes a unit to the BIO, or wants room.
LEMMA PushEffect ==
  ASSUME Shape, NEW t \in Tasks, NEW e \in Ends, e = EndOf[t], SslPush(t)
  PROVE  /\ Shape' /\ OthersKept(t) /\ op[t].at = "ssl" /\ ssl[e].out # <<>> /\ active' = active
         /\ UNCHANGED <<engine, bioIn, pipe, got, wrote, errors, rejected>>
         /\ \/ /\ op' = op /\ bioOut'[e] = Append(bioOut[e], Head(ssl[e].out))
               /\ ssl'[e].out = Tail(ssl[e].out) /\ ssl'[e].in = ssl[e].in /\ ssl'[e].flight = ssl[e].flight
               /\ ssl'[e].sealed = ssl[e].sealed /\ ssl'[e].opened = ssl[e].opened
            \/ Fields(t, "flush", "want_output") /\ ssl' = ssl /\ bioOut' = bioOut
<1>1. /\ op[t].at = "ssl" /\ ssl[e].out # <<>>
      /\ engine' = engine /\ bioIn' = bioIn /\ pipe' = pipe
      /\ got' = got /\ wrote' = wrote /\ errors' = errors /\ rejected' = rejected /\ closed' = closed
  BY Zenon DEF SslPush, world
<1>2. CASE Len(bioOut[e]) < BioSize
  <2>1. /\ bioOut' = [bioOut EXCEPT ![e] = Append(bioOut[e], Head(ssl[e].out))]
        /\ ssl' = [ssl EXCEPT ![e].out = Tail(ssl[e].out)] /\ op' = op /\ active' = active
    BY <1>2 DEF SslPush
  <2>2. PICK x : x = [ssl[e] EXCEPT !.out = Tail(ssl[e].out)]
    BY Zenon
  <2>3. ssl[e] \in SslType /\ ssl[e].out \in Seq(Unit) /\ bioOut[e] \in Seq(Unit) /\ ssl \in [Ends -> SslType]
        /\ bioOut \in [Ends -> Seq(Unit)]
    BY Typed, Zenon DEF Shape
  <2>4. Tail(ssl[e].out) \in Seq(Unit) /\ Append(bioOut[e], Head(ssl[e].out)) \in Seq(Unit)
    BY <1>1, <2>3
  <2>5. /\ x \in SslType /\ x.out = Tail(ssl[e].out) /\ x.in = ssl[e].in /\ x.flight = ssl[e].flight
        /\ x.sealed = ssl[e].sealed /\ x.opened = ssl[e].opened
    BY <2>2, <2>3, <2>4, Zenon DEF SslType
  <2>6. ssl' = [ssl EXCEPT ![e] = x]
    BY <2>1, <2>2, <2>3
  <2>7. ssl' \in [Ends -> SslType] /\ ssl'[e] = x /\ \A f \in Ends : f # e => ssl'[f] = ssl[f]
    BY <2>5, <2>6, SslReplaced, Zenon
  <2>8. /\ bioOut' \in [Ends -> Seq(Unit)] /\ bioOut'[e] = Append(bioOut[e], Head(ssl[e].out))
        /\ \A f \in Ends : f # e => bioOut'[f] = bioOut[f]
    BY <2>1, <2>3, <2>4, QueueReplaced
  <2>9. Shape' /\ OthersKept(t)
    BY <1>1, <2>1, <2>7, <2>8, ZenonT(40) DEF Shape, OthersKept
  <2> QED  BY <1>1, <2>1, <2>5, <2>7, <2>8, <2>9
<1>3. CASE ~(Len(bioOut[e]) < BioSize)
  <2>1. Report(t, "want_output") /\ ssl' = ssl /\ bioOut' = bioOut
    BY <1>3 DEF SslPush
  <2>2. OpStep(t) /\ Fields(t, "flush", "want_output") /\ active' = active
    BY <2>1, Reports
  <2>3. Shape' /\ OthersKept(t)
    BY <1>1, <2>1, <2>2, Zenon DEF Shape, OthersKept, OpStep
  <2> QED  BY <1>1, <2>1, <2>2, <2>3
<1> QED  BY <1>2, <1>3

\* OpenSSL seals a record.
LEMMA SealEffect ==
  ASSUME Shape, NEW t \in Tasks, NEW e \in Ends, e = EndOf[t], SslSeal(t)
  PROVE  /\ Shape' /\ OthersKept(t) /\ op[t].at = "ssl" /\ ssl[e].out = <<>>
         /\ UNCHANGED <<engine, active, bioIn, bioOut, pipe, got, wrote, errors, rejected>>
         /\ op'[t].at = "ssl" /\ op'[t].step = op[t].step /\ op'[t].kind = op[t].kind /\ op'[t].out = op[t].out
         /\ ssl'[e].sealed = ssl[e].sealed + 1 /\ ssl'[e].opened = ssl[e].opened /\ ssl'[e].in = ssl[e].in
         /\ \E what \in {"flight", "data", "close"} :
              /\ ssl'[e].out = Record(e, what) /\ op'[t].sealed = (what # "flight")
              /\ what = "flight" => /\ op[t].kind = "handshake" /\ ssl[e].flight < 3 /\ Mine(e)
                                    /\ ssl'[e].flight = ssl[e].flight + 1
              /\ what = "data" => op[t].kind = "write"
              /\ what = "close" => op[t].kind = "shutdown"
              /\ what # "flight" => ~op[t].sealed /\ ssl'[e].flight = ssl[e].flight
<1>1. /\ op[t].at = "ssl" /\ ssl[e].out = <<>>
      /\ engine' = engine /\ active' = active /\ bioIn' = bioIn /\ bioOut' = bioOut /\ pipe' = pipe
      /\ got' = got /\ wrote' = wrote /\ errors' = errors /\ rejected' = rejected /\ closed' = closed
  BY DEF SslSeal, world
<1>2. PICK what : what = CASE op[t].kind = "write" -> "data" [] op[t].kind = "shutdown" -> "close" [] OTHER -> "flight"
  OBVIOUS
<1>3. /\ what \in {"flight", "data", "close"} /\ what \in Whats
      /\ what = "data" => op[t].kind = "write"
      /\ what = "close" => op[t].kind = "shutdown"
  BY <1>2 DEF Whats
<1>4. /\ ssl' = [ssl EXCEPT ![e].out = Record(e, what), ![e].sealed = ssl[e].sealed + 1,
                            ![e].flight = IF what = "flight" THEN ssl[e].flight + 1 ELSE ssl[e].flight]
      /\ op' = [op EXCEPT ![t].sealed = what # "flight"]
      /\ IF what = "flight" THEN op[t].kind = "handshake" /\ ssl[e].flight < 3 /\ Mine(e) ELSE ~op[t].sealed
  BY <1>2 DEF SslSeal
<1>5. /\ op \in [Tasks -> OpType] /\ op[t] \in OpType /\ ssl \in [Ends -> SslType] /\ ssl[e] \in SslType
      /\ ssl[e].flight \in 0 .. 3 /\ ssl[e].sealed \in Nat
  BY Typed, Zenon DEF Shape
<1>6. PICK n \in 0 .. 3 : n = IF what = "flight" THEN ssl[e].flight + 1 ELSE ssl[e].flight
  BY <1>4, <1>5
<1>7. PICK r \in Seq(Unit) : r = Record(e, what)
  BY <1>3, <1>5, Records
<1>19. PICK m \in Nat : m = ssl[e].sealed + 1
  BY <1>5
<1>8. PICK x : x = [ssl[e] EXCEPT !.out = r, !.sealed = m, !.flight = n]
  OBVIOUS
<1>9. /\ x \in SslType /\ x.out = r /\ x.in = ssl[e].in /\ x.flight = n
      /\ x.sealed = m /\ x.opened = ssl[e].opened
  BY <1>5, <1>8, Zenon DEF SslType
<1>10. ssl' = [ssl EXCEPT ![e] = x]
  BY <1>4, <1>5, <1>6, <1>7, <1>8, <1>19, Zenon
<1>11. ssl' \in [Ends -> SslType] /\ ssl'[e] = x /\ \A f \in Ends : f # e => ssl'[f] = ssl[f]
  BY <1>9, <1>10, SslReplaced, Zenon
<1>12. PICK b \in BOOLEAN : b = (what # "flight")
  BY Zenon
<1>13. PICK o : o = [op[t] EXCEPT !.sealed = b]
  BY Zenon
<1>14. /\ o \in OpType /\ o.at = op[t].at /\ o.step = op[t].step
       /\ o.kind = op[t].kind /\ o.out = op[t].out /\ o.sealed = b
  BY <1>5, <1>13, Zenon DEF OpType
<1>15. op' = [op EXCEPT ![t] = o]
  BY <1>4, <1>5, <1>12, <1>13
<1>16. OpStep(t) /\ op'[t] = o
  BY <1>1, <1>14, <1>15, OpReplaced, Zenon
<1>17. Shape' /\ OthersKept(t)
  BY <1>1, <1>11, <1>16, Zenon DEF Shape, OthersKept, OpStep
<1>18. /\ ssl'[e].out = Record(e, what) /\ op'[t].sealed = (what # "flight")
       /\ what = "flight" => /\ op[t].kind = "handshake" /\ ssl[e].flight < 3 /\ Mine(e)
                             /\ ssl'[e].flight = ssl[e].flight + 1
       /\ what # "flight" => ~op[t].sealed /\ ssl'[e].flight = ssl[e].flight
  BY <1>4, <1>6, <1>7, <1>9, <1>11, <1>12, <1>14, <1>16, Zenon
<1> QED  BY <1>1, <1>3, <1>9, <1>11, <1>14, <1>16, <1>17, <1>18, <1>19, Zenon

\* The call of OpenSSL succeeds.
LEMMA DoneEffect ==
  ASSUME Shape, NEW t \in Tasks, NEW e \in Ends, e = EndOf[t], SslDone(t)
  PROVE  /\ Shape' /\ OthersKept(t) /\ op[t].at = "ssl" /\ ssl[e].out = <<>>
         /\ IF op[t].kind = "handshake" THEN ssl[e].flight = 3 ELSE op[t].sealed
         /\ UNCHANGED <<active, ssl, bioIn, bioOut, pipe, got, wrote, errors, rejected>>
         /\ Fields(t, "flush", "complete")
         /\ engine'[e].ready /\ engine'[e].shut = (engine[e].shut \/ op[t].kind = "shutdown")
         /\ engine'[e].failed = engine[e].failed /\ engine'[e].eof = engine[e].eof
<1>1. /\ op[t].at = "ssl" /\ ssl[e].out = <<>> /\ Report(t, "complete")
      /\ IF op[t].kind = "handshake" THEN ssl[e].flight = 3 ELSE op[t].sealed
      /\ ssl' = ssl /\ bioIn' = bioIn /\ bioOut' = bioOut /\ pipe' = pipe
      /\ got' = got /\ wrote' = wrote /\ errors' = errors /\ rejected' = rejected /\ closed' = closed
      /\ engine' = [engine EXCEPT ![e].ready = TRUE, ![e].shut = engine[e].shut \/ op[t].kind = "shutdown"]
  BY DEF SslDone, world
<1>2. engine \in [Ends -> EngineType] /\ engine[e] \in EngineType
  BY Zenon DEF Shape
<1>3. PICK b \in BOOLEAN : b = (engine[e].shut \/ op[t].kind = "shutdown")
  BY Zenon
<1>4. PICK x : x = [engine[e] EXCEPT !.ready = TRUE, !.shut = b]
  OBVIOUS
<1>5. x \in EngineType /\ x.ready /\ x.shut = b /\ x.failed = engine[e].failed /\ x.eof = engine[e].eof
  BY <1>2, <1>4, Zenon DEF EngineType
<1>6. engine' = [engine EXCEPT ![e] = x]
  BY <1>1, <1>2, <1>3, <1>4, Zenon
<1>7. /\ engine'[e] = x /\ engine' \in [Ends -> EngineType]
      /\ \A f \in Ends : f # e => engine'[f] = engine[f]
  BY <1>2, <1>5, <1>6
<1>8. OpStep(t) /\ Fields(t, "flush", "complete") /\ active' = active
  BY <1>1, Reports
<1>9. Shape' /\ OthersKept(t)
  BY <1>1, <1>7, <1>8, Zenon DEF Shape, OthersKept, OpStep
<1> QED  BY <1>1, <1>3, <1>5, <1>7, <1>8, <1>9

\* OpenSSL takes a unit from the BIO, or wants input.
LEMMA PullEffect ==
  ASSUME Shape, NEW t \in Tasks, NEW e \in Ends, e = EndOf[t], SslPull(t)
  PROVE  /\ Shape' /\ OthersKept(t) /\ op[t].at = "ssl" /\ ssl[e].out = <<>> /\ WantsRecord(t) /\ active' = active
         /\ UNCHANGED <<engine, bioOut, pipe, got, wrote, errors, rejected>>
         /\ \/ /\ op' = op /\ bioIn[e] # <<>> /\ bioIn'[e] = Tail(bioIn[e])
               /\ ssl'[e].in = Append(ssl[e].in, Head(bioIn[e])) /\ ssl'[e].out = ssl[e].out
               /\ ssl'[e].flight = ssl[e].flight
               /\ ssl'[e].sealed = ssl[e].sealed /\ ssl'[e].opened = ssl[e].opened
            \/ Fields(t, "flush", "want_input") /\ bioIn[e] = <<>> /\ ssl' = ssl /\ bioIn' = bioIn
<1>1. /\ op[t].at = "ssl" /\ ssl[e].out = <<>> /\ WantsRecord(t)
      /\ engine' = engine /\ bioOut' = bioOut /\ pipe' = pipe
      /\ got' = got /\ wrote' = wrote /\ errors' = errors /\ rejected' = rejected /\ closed' = closed
  BY DEF SslPull, world
<1>2. CASE bioIn[e] # <<>>
  <2>1. /\ bioIn' = [bioIn EXCEPT ![e] = Tail(bioIn[e])]
        /\ ssl' = [ssl EXCEPT ![e].in = Append(ssl[e].in, Head(bioIn[e]))] /\ op' = op /\ active' = active
    BY <1>2 DEF SslPull
  <2>2. PICK r : r = Append(ssl[e].in, Head(bioIn[e]))
    BY Zenon
  <2>3. ssl[e] \in SslType /\ ssl[e].in \in Seq(Unit) /\ bioIn[e] \in Seq(Unit) /\ ssl \in [Ends -> SslType]
        /\ bioIn \in [Ends -> Seq(Unit)]
    BY Typed, Zenon DEF Shape
  <2>4. Tail(bioIn[e]) \in Seq(Unit) /\ r \in Seq(Unit)
    BY <1>2, <2>2, <2>3
  <2>5. PICK x : x = [ssl[e] EXCEPT !.in = r]
    BY Zenon
  <2>6. /\ x \in SslType /\ x.in = r /\ x.out = ssl[e].out /\ x.flight = ssl[e].flight
        /\ x.sealed = ssl[e].sealed /\ x.opened = ssl[e].opened
    BY <2>3, <2>4, <2>5, Zenon DEF SslType
  <2>7. ssl' = [ssl EXCEPT ![e] = x]
    BY <2>1, <2>2, <2>3, <2>5
  <2>8. ssl' \in [Ends -> SslType] /\ ssl'[e] = x /\ \A f \in Ends : f # e => ssl'[f] = ssl[f]
    BY <2>6, <2>7, SslReplaced, Zenon
  <2>9. /\ bioIn' \in [Ends -> Seq(Unit)] /\ bioIn'[e] = Tail(bioIn[e])
        /\ \A f \in Ends : f # e => bioIn'[f] = bioIn[f]
    BY <2>1, <2>3, <2>4, QueueReplaced
  <2>10. Shape' /\ OthersKept(t)
    BY <1>1, <2>1, <2>8, <2>9, Zenon DEF Shape, OthersKept
  <2> QED  BY <1>1, <1>2, <2>1, <2>2, <2>6, <2>8, <2>9, <2>10, Zenon
<1>3. CASE bioIn[e] = <<>>
  <2>1. Report(t, "want_input") /\ ssl' = ssl /\ bioIn' = bioIn
    BY <1>3 DEF SslPull
  <2>2. OpStep(t) /\ Fields(t, "flush", "want_input") /\ active' = active
    BY <2>1, Reports
  <2>3. Shape' /\ OthersKept(t)
    BY <1>1, <2>1, <2>2, Zenon DEF Shape, OthersKept, OpStep
  <2> QED  BY <1>1, <1>3, <2>1, <2>2, <2>3
<1> QED  BY <1>2, <1>3, Zenon

\* A fatal failure leaves an alert to be flushed.
LEMMA FatalEffect ==
  ASSUME Shape, NEW t \in Tasks, NEW e \in Ends, e = EndOf[t], Fatal(t, e)
  PROVE  /\ OpStep(t) /\ Fields(t, "flush", "fatal") /\ active' = active
         /\ engine' \in [Ends -> EngineType] /\ EngineFails(e) /\ \A f \in Ends : f # e => engine'[f] = engine[f]
         /\ bioOut' \in [Ends -> Seq(Unit)] /\ bioOut'[e] = bioOut[e] \o Record(e, "alert")
         /\ \A f \in Ends : f # e => bioOut'[f] = bioOut[f]
<1>1. /\ engine' = Invalidated(e) /\ Report(t, "fatal")
      /\ bioOut' = [bioOut EXCEPT ![e] = bioOut[e] \o Record(e, "alert")]
  BY DEF Fatal
<1>2. OpStep(t) /\ Fields(t, "flush", "fatal") /\ active' = active
  BY <1>1, Reports
<1>3. engine' \in [Ends -> EngineType] /\ EngineFails(e) /\ \A f \in Ends : f # e => engine'[f] = engine[f]
  BY <1>1, Invalidates
<1>4. bioOut \in [Ends -> Seq(Unit)] /\ bioOut[e] \in Seq(Unit) /\ ssl[e].sealed \in Nat
  BY Typed, Zenon DEF Shape
<1>5. Record(e, "alert") \in Seq(Unit)
  BY <1>4, Records DEF Whats
<1>6. bioOut[e] \o Record(e, "alert") \in Seq(Unit)
  BY <1>4, <1>5
<1> QED  BY <1>1, <1>2, <1>3, <1>4, <1>6, QueueReplaced, Zenon

\* OpenSSL opens a record that fits.
Fits(t, e) ==
  Opens(e) /\ ssl[e].in[1][1] \in (IF op[t].kind = "read" THEN {"data", "close"} ELSE {"flight"})
Opened(t, e) ==
  /\ Fits(t, e) /\ bioOut' = bioOut /\ rejected' = rejected /\ errors' = errors /\ active' = active
  /\ ssl'[e].in = SubSeq(ssl[e].in, 3, Len(ssl[e].in)) /\ ssl'[e].opened = ssl[e].opened + 1
  /\ ssl'[e].out = ssl[e].out /\ ssl'[e].sealed = ssl[e].sealed
  /\ engine'[e].ready = engine[e].ready /\ engine'[e].failed = engine[e].failed /\ engine'[e].shut = engine[e].shut
  /\ \/ /\ ssl[e].in[1][1] = "data" /\ op[t].kind = "read" /\ Fields(t, "flush", "complete")
        /\ ssl'[e].flight = ssl[e].flight /\ engine'[e].eof = engine[e].eof
     \/ /\ ssl[e].in[1][1] = "close" /\ op[t].kind = "read" /\ Fields(t, "flush", "eof")
        /\ ssl'[e].flight = ssl[e].flight /\ engine'[e].eof
     \/ /\ ssl[e].in[1][1] = "flight" /\ op[t].kind = "handshake" /\ op' = op
        /\ ssl'[e].flight = ssl[e].flight + 1 /\ engine'[e].eof = engine[e].eof
        /\ ssl[e].flight < 3 /\ ~Mine(e)

\* OpenSSL rejects a record, or the certificate in it.
Refuses(t, e) ==
  /\ Fields(t, "flush", "fatal") /\ active' = active /\ EngineFails(e) /\ ssl' = ssl
  /\ bioOut'[e] = bioOut[e] \o Record(e, "alert")
  /\ \/ rejected' = TRUE /\ errors'[e] = errors[e] \cup {"certificate_verify_failed"}
     \/ ~Fits(t, e) /\ rejected' = rejected /\ errors'[e] = errors[e] \cup {"protocol_error"}

\* What an end is told of its peer.
LEMMA Told ==
  ASSUME Shape, NEW e \in Ends,
         NEW error \in {"eof", "truncated", "protocol_error", "certificate_verify_failed"}, Fails(e, error)
  PROVE  /\ errors' \in [Ends -> SUBSET {"eof", "truncated", "protocol_error", "certificate_verify_failed"}]
         /\ errors'[e] = errors[e] \cup {error} /\ \A f \in Ends : f # e => errors'[f] = errors[f]
<1>1. errors \in [Ends -> SUBSET {"eof", "truncated", "protocol_error", "certificate_verify_failed"}]
  BY Zenon DEF Shape
<1>2. errors' = [errors EXCEPT ![e] = errors[e] \cup {error}]
  BY DEF Fails
<1> QED  BY <1>1, <1>2

\* OpenSSL opens the next record, or rejects it.
LEMMA OpenEffect ==
  ASSUME Shape, NEW t \in Tasks, NEW e \in Ends, e = EndOf[t], SslOpen(t)
  PROVE  /\ Shape' /\ OthersKept(t) /\ op[t].at = "ssl" /\ ssl[e].out = <<>> /\ WantsRecord(t) /\ HasRecord(e)
         /\ UNCHANGED <<bioIn, pipe, got, wrote>>
         /\ Opened(t, e) \/ Refuses(t, e)
<1>1. /\ op[t].at = "ssl" /\ ssl[e].out = <<>> /\ WantsRecord(t) /\ HasRecord(e)
      /\ bioIn' = bioIn /\ pipe' = pipe /\ got' = got /\ wrote' = wrote /\ closed' = closed
  BY Zenon DEF SslOpen
<1>2. /\ op \in [Tasks -> OpType] /\ op[t] \in OpType /\ ssl \in [Ends -> SslType] /\ ssl[e] \in SslType
      /\ ssl[e].flight \in 0 .. 3 /\ ssl[e].opened \in Nat /\ ssl[e].in \in Seq(Unit)
      /\ engine \in [Ends -> EngineType] /\ engine[e] \in EngineType
  BY Typed, Zenon DEF Shape
<1>3. PICK what : what = ssl[e].in[1][1]
  OBVIOUS
<1>4. \/ /\ Fits(t, e)
         /\ ssl' = [ssl EXCEPT ![e].in = SubSeq(ssl[e].in, 3, Len(ssl[e].in)), ![e].opened = ssl[e].opened + 1,
                               ![e].flight = IF what = "flight" THEN ssl[e].flight + 1 ELSE ssl[e].flight]
         /\ engine' = [engine EXCEPT ![e].eof = engine[e].eof \/ what = "close"]
         /\ CASE what = "data" -> Report(t, "complete")
              [] what = "close" -> Report(t, "eof")
              [] OTHER -> op' = op /\ active' = active
         /\ bioOut' = bioOut /\ rejected' = rejected /\ errors' = errors
      \/ rejected' = TRUE /\ Fails(e, "certificate_verify_failed") /\ Fatal(t, e) /\ ssl' = ssl
      \/ ~Fits(t, e) /\ Fails(e, "protocol_error") /\ Fatal(t, e) /\ ssl' = ssl /\ rejected' = rejected
  BY <1>3, Zenon DEF SslOpen, Fits
<1>5. CASE rejected' = TRUE /\ Fails(e, "certificate_verify_failed") /\ Fatal(t, e) /\ ssl' = ssl
  <2>1. /\ errors' \in [Ends -> SUBSET {"eof", "truncated", "protocol_error", "certificate_verify_failed"}]
        /\ errors'[e] = errors[e] \cup {"certificate_verify_failed"} /\ \A f \in Ends : f # e => errors'[f] = errors[f]
    BY <1>5, Told
  <2>2. Refuses(t, e)
    BY <1>5, <2>1, FatalEffect, Zenon DEF Refuses
  <2>3. /\ OpStep(t) /\ active' = active
        /\ engine' \in [Ends -> EngineType] /\ \A f \in Ends : f # e => engine'[f] = engine[f]
        /\ bioOut' \in [Ends -> Seq(Unit)] /\ \A f \in Ends : f # e => bioOut'[f] = bioOut[f]
    BY <1>5, FatalEffect
  <2>4. Shape' /\ OthersKept(t)
    BY <1>1, <1>5, <2>1, <2>3, Zenon DEF Shape, OthersKept, OpStep
  <2> QED  BY <1>1, <2>2, <2>4, Zenon
<1>6. CASE ~Fits(t, e) /\ Fails(e, "protocol_error") /\ Fatal(t, e) /\ ssl' = ssl /\ rejected' = rejected
  <2>1. /\ errors' \in [Ends -> SUBSET {"eof", "truncated", "protocol_error", "certificate_verify_failed"}]
        /\ errors'[e] = errors[e] \cup {"protocol_error"} /\ \A f \in Ends : f # e => errors'[f] = errors[f]
    BY <1>6, Told
  <2>2. Refuses(t, e)
    BY <1>6, <2>1, FatalEffect, Zenon DEF Refuses
  <2>3. /\ OpStep(t) /\ active' = active
        /\ engine' \in [Ends -> EngineType] /\ \A f \in Ends : f # e => engine'[f] = engine[f]
        /\ bioOut' \in [Ends -> Seq(Unit)] /\ \A f \in Ends : f # e => bioOut'[f] = bioOut[f]
    BY <1>6, FatalEffect
  <2>4. Shape' /\ OthersKept(t)
    BY <1>1, <1>6, <2>1, <2>3, Zenon DEF Shape, OthersKept, OpStep
  <2> QED  BY <1>1, <2>2, <2>4
<1>7. CASE /\ Fits(t, e)
           /\ ssl' = [ssl EXCEPT ![e].in = SubSeq(ssl[e].in, 3, Len(ssl[e].in)), ![e].opened = ssl[e].opened + 1,
                                 ![e].flight = IF what = "flight" THEN ssl[e].flight + 1 ELSE ssl[e].flight]
           /\ engine' = [engine EXCEPT ![e].eof = engine[e].eof \/ what = "close"]
           /\ CASE what = "data" -> Report(t, "complete")
                [] what = "close" -> Report(t, "eof")
                [] OTHER -> op' = op /\ active' = active
           /\ bioOut' = bioOut /\ rejected' = rejected /\ errors' = errors
  <2>1. /\ op[t].kind = "read" => what = "data" \/ what = "close"
        /\ op[t].kind # "read" => what = "flight"
    BY <1>3, <1>7, Zenon DEF Fits
  <2>2. op[t].kind # "read" => op[t].kind = "handshake" /\ ssl[e].flight < 3 /\ ~Mine(e)
    BY <1>1 DEF WantsRecord
  <2>3. PICK q \in Seq(Unit) : q = SubSeq(ssl[e].in, 3, Len(ssl[e].in))
    <3>1. Len(ssl[e].in) \in Nat /\ Len(ssl[e].in) >= 2
      BY <1>1, <1>2 DEF HasRecord
    <3>2. SubSeq(ssl[e].in, 3, Len(ssl[e].in)) \in Seq(Unit)
      BY <1>2, <3>1
    <3> QED  BY <3>2, Zenon
  <2>4. PICK n \in Nat : n = ssl[e].opened + 1
    BY <1>2
  <2>5. PICK m \in 0 .. 3 : m = IF what = "flight" THEN ssl[e].flight + 1 ELSE ssl[e].flight
    BY <1>2, <2>1, <2>2
  <2>6. PICK x : x = [ssl[e] EXCEPT !.in = q, !.opened = n, !.flight = m]
    OBVIOUS
  <2>7. /\ x \in SslType /\ x.in = q /\ x.out = ssl[e].out /\ x.flight = m
        /\ x.sealed = ssl[e].sealed /\ x.opened = n
    BY <1>2, <2>6, Zenon DEF SslType
  <2>8. ssl' = [ssl EXCEPT ![e] = x]
    BY <1>2, <1>7, <2>3, <2>4, <2>5, <2>6, Zenon
  <2>9. ssl' \in [Ends -> SslType] /\ ssl'[e] = x /\ \A f \in Ends : f # e => ssl'[f] = ssl[f]
    BY <2>7, <2>8, SslReplaced, Zenon
  <2>10. PICK b \in BOOLEAN : b = (engine[e].eof \/ what = "close")
    BY Zenon
  <2>11. PICK y : y = [engine[e] EXCEPT !.eof = b]
    BY Zenon
  <2>12. y \in EngineType /\ y.ready = engine[e].ready /\ y.shut = engine[e].shut /\ y.failed = engine[e].failed /\ y.eof = b
    BY <1>2, <2>11, ZenonT(40) DEF EngineType
  <2>13. engine' = [engine EXCEPT ![e] = y]
    BY <1>2, <1>7, <2>10, <2>11, Zenon
  <2>14. /\ engine'[e] = y /\ engine' \in [Ends -> EngineType]
         /\ \A f \in Ends : f # e => engine'[f] = engine[f]
    BY <1>2, <2>12, <2>13
  <2>15. engine[e].eof \in BOOLEAN
    BY <1>2, Zenon DEF EngineType
  <2>16. CASE what = "data"
    <3>1. OpStep(t) /\ Fields(t, "flush", "complete") /\ active' = active
      BY <1>7, <2>16, Reports
    <3>2. Shape' /\ OthersKept(t)
      BY <1>1, <1>7, <2>9, <2>14, <3>1, ZenonT(40) DEF Shape, OthersKept, OpStep
    <3>3. op[t].kind = "read" /\ ssl'[e].flight = ssl[e].flight /\ engine'[e].eof = engine[e].eof
      BY <2>1, <2>5, <2>7, <2>9, <2>10, <2>12, <2>14, <2>15, <2>16, Zenon
    <3>4. Opened(t, e)
      BY <1>3, <1>7, <2>3, <2>4, <2>7, <2>9, <2>12, <2>14, <2>16, <3>1, <3>3, ZenonT(40) DEF Opened
    <3> QED  BY <1>1, <3>2, <3>4, Zenon
  <2>17. CASE what = "close"
    <3>1. OpStep(t) /\ Fields(t, "flush", "eof") /\ active' = active
      BY <1>7, <2>17, Reports
    <3>2. Shape' /\ OthersKept(t)
      BY <1>1, <1>7, <2>9, <2>14, <3>1, Zenon DEF Shape, OthersKept, OpStep
    <3>3. op[t].kind = "read" /\ ssl'[e].flight = ssl[e].flight /\ engine'[e].eof
      BY <2>1, <2>5, <2>7, <2>9, <2>10, <2>12, <2>14, <2>17, Zenon
    <3>4. Opened(t, e)
      BY <1>3, <1>7, <2>3, <2>4, <2>7, <2>9, <2>12, <2>14, <2>17, <3>1, <3>3, ZenonT(40) DEF Opened
    <3> QED  BY <1>1, <3>2, <3>4, Zenon
  <2>18. CASE what = "flight"
    <3>1. op' = op /\ active' = active
      BY <1>7, <2>18
    <3>2. Shape' /\ OthersKept(t)
      BY <1>1, <1>7, <2>9, <2>14, <3>1, ZenonT(40) DEF Shape, OthersKept
    <3>3. /\ op[t].kind = "handshake" /\ ssl'[e].flight = ssl[e].flight + 1 /\ engine'[e].eof = engine[e].eof
          /\ ssl[e].flight < 3 /\ ~Mine(e)
      BY <2>1, <2>2, <2>5, <2>7, <2>9, <2>10, <2>12, <2>14, <2>15, <2>18, Zenon
    <3>4. Opened(t, e)
      BY <1>3, <1>7, <2>3, <2>4, <2>7, <2>9, <2>12, <2>14, <2>18, <3>1, <3>3, ZenonT(40) DEF Opened
    <3> QED  BY <1>1, <3>2, <3>4, Zenon
  <2> QED  BY <2>1, <2>16, <2>17, <2>18, Zenon
<1> QED  BY <1>4, <1>5, <1>6, <1>7, Zenon

\* flush() drains the BIO.
LEMMA DrainEffect ==
  ASSUME Shape, NEW t \in Tasks, NEW e \in Ends, e = EndOf[t], Drain(t)
  PROVE  /\ Shape' /\ OthersKept(t) /\ op[t].at = "flush" /\ op[t].out = <<>>
         /\ UNCHANGED <<engine, active, ssl, bioIn, pipe, got, wrote, errors, rejected>>
         /\ op'[t].at = "flush" /\ op'[t].step = op[t].step /\ op'[t].kind = op[t].kind
         /\ op'[t].sealed = op[t].sealed /\ op'[t].out = bioOut[e] /\ bioOut'[e] = <<>>
<1>1. /\ op[t].at = "flush" /\ op[t].out = <<>>
      /\ engine' = engine /\ active' = active /\ ssl' = ssl /\ bioIn' = bioIn /\ pipe' = pipe
      /\ got' = got /\ wrote' = wrote /\ errors' = errors /\ rejected' = rejected /\ closed' = closed
      /\ op' = [op EXCEPT ![t].out = bioOut[e]] /\ bioOut' = [bioOut EXCEPT ![e] = <<>>]
  BY DEF Drain, world
<1>2. /\ op \in [Tasks -> OpType] /\ op[t] \in OpType
      /\ bioOut \in [Ends -> Seq(Unit)] /\ bioOut[e] \in Seq(Unit)
  BY Zenon DEF Shape
<1>3. PICK o : o = [op[t] EXCEPT !.out = bioOut[e]]
  BY Zenon
<1>4. /\ o \in OpType /\ o.at = op[t].at /\ o.step = op[t].step
      /\ o.kind = op[t].kind /\ o.out = bioOut[e] /\ o.sealed = op[t].sealed
  BY <1>2, <1>3 DEF OpType
<1>5. op' = [op EXCEPT ![t] = o]
  BY <1>1, <1>2, <1>3
<1>6. OpStep(t) /\ op'[t] = o
  BY <1>1, <1>4, <1>5, OpReplaced, Zenon
<1>7. bioOut' \in [Ends -> Seq(Unit)] /\ bioOut'[e] = <<>> /\ \A f \in Ends : f # e => bioOut'[f] = bioOut[f]
  BY <1>1, <1>2, Nothing, QueueReplaced
<1>8. Shape' /\ OthersKept(t)
  BY <1>1, <1>6, <1>7, Zenon DEF Shape, OthersKept, OpStep
<1> QED  BY <1>1, <1>4, <1>6, <1>7, <1>8

\* The underlying stream takes n units.
LEMMA WriteEffect ==
  ASSUME Shape, NEW t \in Tasks, NEW e \in Ends, NEW p \in Ends, e = EndOf[t], p = Peer(e), WriteSome(t)
  PROVE  /\ Shape' /\ OthersKept(t) /\ op[t].at = "flush"
         /\ UNCHANGED <<engine, active, ssl, bioIn, bioOut, got, wrote, errors, rejected>>
         /\ op'[t].at = "flush" /\ op'[t].step = op[t].step /\ op'[t].kind = op[t].kind
         /\ op'[t].sealed = op[t].sealed /\ pipe'[e] = pipe[e]
         /\ \E n \in 1 .. Len(op[t].out) :
              /\ n <= PipeSize - Len(pipe[p])
              /\ pipe'[p] = pipe[p] \o SubSeq(op[t].out, 1, n)
              /\ op'[t].out = SubSeq(op[t].out, n + 1, Len(op[t].out))
<1>1. /\ op[t].at = "flush"
      /\ engine' = engine /\ active' = active /\ ssl' = ssl /\ bioIn' = bioIn /\ bioOut' = bioOut
      /\ got' = got /\ wrote' = wrote /\ errors' = errors /\ rejected' = rejected /\ closed' = closed
  BY DEF WriteSome
<1>2. PICK n \in 1 .. Len(op[t].out) :
        /\ n <= PipeSize - Len(pipe[p])
        /\ pipe' = [pipe EXCEPT ![p] = pipe[p] \o SubSeq(op[t].out, 1, n)]
        /\ op' = [op EXCEPT ![t].out = SubSeq(op[t].out, n + 1, Len(op[t].out))]
  BY Zenon DEF WriteSome, Unsent
<1>3. /\ op \in [Tasks -> OpType] /\ op[t] \in OpType /\ op[t].out \in Seq(Unit)
      /\ pipe \in [Ends -> Seq(Unit)] /\ pipe[p] \in Seq(Unit)
  BY Typed, Zenon DEF Shape
<1>4. PICK m : m = Len(op[t].out)
  OBVIOUS
<1>5. m \in Nat /\ n \in 1 .. m
  BY <1>2, <1>3, <1>4
<1>6. PICK q \in Seq(Unit) : q = SubSeq(op[t].out, n + 1, m)
  <2>1. SubSeq(op[t].out, n + 1, m) \in Seq(Unit)
    BY <1>3, <1>4, <1>5
  <2> QED  BY <2>1, Zenon
<1>7. SubSeq(op[t].out, 1, n) \in Seq(Unit)
  BY <1>3, <1>4, <1>5
<1>8. pipe[p] \o SubSeq(op[t].out, 1, n) \in Seq(Unit)
  BY <1>3, <1>7
<1>9. PICK o : o = [op[t] EXCEPT !.out = q]
  BY Zenon
<1>10. /\ o \in OpType /\ o.at = op[t].at /\ o.step = op[t].step
       /\ o.kind = op[t].kind /\ o.out = q /\ o.sealed = op[t].sealed
  BY <1>3, <1>9, Zenon DEF OpType
<1>11. op' = [op EXCEPT ![t] = o]
  BY <1>2, <1>3, <1>4, <1>6, <1>9
<1>12. OpStep(t) /\ op'[t] = o
  BY <1>1, <1>10, <1>11, OpReplaced, Zenon
<1>13. /\ pipe' \in [Ends -> Seq(Unit)] /\ pipe'[p] = pipe[p] \o SubSeq(op[t].out, 1, n)
       /\ \A f \in Ends : f # p => pipe'[f] = pipe[f]
  BY <1>2, <1>3, <1>8, QueueReplaced, ZenonT(40)
<1>14. Shape' /\ OthersKept(t)
  BY <1>1, <1>12, <1>13, Zenon DEF Shape, OthersKept, OpStep
<1>15. pipe'[e] = pipe[e]
  BY <1>13, PeerFacts
<1> QED  BY <1>1, <1>2, <1>4, <1>6, <1>10, <1>12, <1>13, <1>14, <1>15, Zenon

\* Nothing is left to flush.
LEMMA AfterFlushEffect ==
  ASSUME Shape, NEW t \in Tasks, NEW e \in Ends, e = EndOf[t], AfterFlush(t)
  PROVE  /\ Shape' /\ OthersKept(t) /\ op[t].at = "flush" /\ op[t].out = <<>> /\ bioOut[e] = <<>>
         /\ UNCHANGED <<engine, ssl, bioIn, bioOut, pipe, rejected>>
         /\ \/ op[t].step = "want_output" /\ Fields(t, "call", op[t].step) /\ active' = active
            \/ op[t].step = "want_input" /\ Fields(t, "receive", op[t].step) /\ active' = active
            \/ op[t].step \notin {"want_output", "want_input"} /\ Left(t)
         /\ got'[e] = IF op[t].step = "complete" /\ op[t].kind = "read" THEN got[e] + 1 ELSE got[e]
         /\ wrote'[e] = IF op[t].step = "complete" /\ op[t].kind = "write" THEN wrote[e] + 1 ELSE wrote[e]
         /\ errors'[e] = IF op[t].step = "eof" THEN errors[e] \cup {"eof"} ELSE errors[e]
<1>1. /\ op[t].at = "flush" /\ op[t].out = <<>> /\ bioOut[e] = <<>>
      /\ engine' = engine /\ ssl' = ssl /\ bioIn' = bioIn /\ bioOut' = bioOut /\ pipe' = pipe
      /\ rejected' = rejected /\ closed' = closed
  BY DEF AfterFlush, Flushed
<1>2. /\ got' = [got EXCEPT ![e] = IF op[t].step = "complete" /\ op[t].kind = "read" THEN got[e] + 1 ELSE got[e]]
      /\ wrote' = [wrote EXCEPT ![e] = IF op[t].step = "complete" /\ op[t].kind = "write"
                                       THEN wrote[e] + 1 ELSE wrote[e]]
      /\ errors' = [errors EXCEPT ![e] = IF op[t].step = "eof" THEN errors[e] \cup {"eof"} ELSE errors[e]]
  BY DEF AfterFlush
<1>3. /\ got \in [Ends -> Nat] /\ got[e] \in Nat /\ wrote \in [Ends -> Nat] /\ wrote[e] \in Nat
      /\ errors \in [Ends -> SUBSET {"eof", "truncated", "protocol_error", "certificate_verify_failed"}]
  BY Zenon DEF Shape
<1>4. PICK n \in Nat : n = IF op[t].step = "complete" /\ op[t].kind = "read" THEN got[e] + 1 ELSE got[e]
  BY <1>3
<1>5. PICK m \in Nat : m = IF op[t].step = "complete" /\ op[t].kind = "write" THEN wrote[e] + 1 ELSE wrote[e]
  BY <1>3
<1>6. got' \in [Ends -> Nat] /\ got'[e] = n /\ \A f \in Ends : f # e => got'[f] = got[f]
  BY <1>2, <1>3, <1>4, Zenon
<1>7. wrote' \in [Ends -> Nat] /\ wrote'[e] = m /\ \A f \in Ends : f # e => wrote'[f] = wrote[f]
  BY <1>2, <1>3, <1>5, Zenon
<1>8. /\ errors' \in [Ends -> SUBSET {"eof", "truncated", "protocol_error", "certificate_verify_failed"}]
      /\ errors'[e] = IF op[t].step = "eof" THEN errors[e] \cup {"eof"} ELSE errors[e]
      /\ \A f \in Ends : f # e => errors'[f] = errors[f]
  BY <1>2, <1>3, Zenon
<1>9. /\ OpStep(t)
      /\ \/ op[t].step = "want_output" /\ Fields(t, "call", op[t].step) /\ active' = active
         \/ op[t].step = "want_input" /\ Fields(t, "receive", op[t].step) /\ active' = active
         \/ op[t].step \notin {"want_output", "want_input"} /\ Left(t)
  <2>1. CASE op[t].step = "want_output"
    <3>1. To(t, "call")
      BY <2>1 DEF AfterFlush
    <3> QED  BY <2>1, <3>1, Goes
  <2>2. CASE op[t].step = "want_input"
    <3>1. To(t, "receive")
      BY <2>2 DEF AfterFlush
    <3> QED  BY <2>2, <3>1, Goes
  <2>3. CASE op[t].step \notin {"want_output", "want_input"}
    <3>1. Leave(t)
      BY <2>3 DEF AfterFlush
    <3> QED  BY <2>3, <3>1, Leaves
  <2> QED  BY <2>1, <2>2, <2>3, Zenon
<1>10. Shape' /\ OthersKept(t)
  BY <1>1, <1>6, <1>7, <1>8, <1>9, Zenon DEF Shape, OthersKept, OpStep
<1> QED  BY <1>1, <1>4, <1>5, <1>6, <1>7, <1>8, <1>9, <1>10, Zenon

\* Some ciphertext arrives, or there is no room for it.
LEMMA ReceiveEffect ==
  ASSUME Shape, NEW t \in Tasks, NEW e \in Ends, e = EndOf[t], Receive(t)
  PROVE  /\ Shape' /\ OthersKept(t) /\ op[t].at = "receive"
         /\ UNCHANGED <<ssl, bioOut, got, wrote, rejected>> /\ pipe'[Peer(e)] = pipe[Peer(e)]
         /\ \/ InputCapacity(e) = 0 /\ Left(t)
            \/ /\ engine' = engine /\ errors' = errors /\ active' = active /\ Fields(t, "call", op[t].step)
               /\ \E n \in 1 .. Len(pipe[e]) :
                    /\ n <= InputCapacity(e)
                    /\ bioIn'[e] = bioIn[e] \o SubSeq(pipe[e], 1, n)
                    /\ pipe'[e] = SubSeq(pipe[e], n + 1, Len(pipe[e]))
<1>1. /\ op[t].at = "receive"
      /\ ssl' = ssl /\ bioOut' = bioOut /\ got' = got /\ wrote' = wrote /\ rejected' = rejected /\ closed' = closed
  BY Zenon DEF Receive
<1>2. CASE InputCapacity(e) = 0
  <2>1. engine' = Invalidated(e) /\ Fails(e, "protocol_error") /\ Leave(t) /\ bioIn' = bioIn /\ pipe' = pipe
    BY <1>2 DEF Receive
  <2>2. /\ errors' \in [Ends -> SUBSET {"eof", "truncated", "protocol_error", "certificate_verify_failed"}]
        /\ \A f \in Ends : f # e => errors'[f] = errors[f]
    BY <2>1, Told, Zenon
  <2>3. engine' \in [Ends -> EngineType] /\ \A f \in Ends : f # e => engine'[f] = engine[f]
    BY <2>1, Invalidates
  <2>4. OpStep(t) /\ Left(t)
    BY <2>1, Leaves
  <2>5. Shape' /\ OthersKept(t)
    BY <1>1, <2>1, <2>2, <2>3, <2>4, Zenon DEF Shape, OthersKept, OpStep
  <2> QED  BY <1>1, <1>2, <2>1, <2>4, <2>5, Zenon
<1>3. CASE InputCapacity(e) # 0
  <2>1. PICK n \in 1 .. Len(pipe[e]) :
          /\ n <= InputCapacity(e)
          /\ bioIn' = [bioIn EXCEPT ![e] = bioIn[e] \o SubSeq(pipe[e], 1, n)]
          /\ pipe' = [pipe EXCEPT ![e] = SubSeq(pipe[e], n + 1, Len(pipe[e]))]
    BY <1>3, Zenon DEF Receive, Fed
  <2>2. To(t, "call") /\ engine' = engine /\ errors' = errors
    BY <1>3 DEF Receive
  <2>3. /\ bioIn \in [Ends -> Seq(Unit)] /\ bioIn[e] \in Seq(Unit)
        /\ pipe \in [Ends -> Seq(Unit)] /\ pipe[e] \in Seq(Unit)
    BY Zenon DEF Shape
  <2>4. Len(pipe[e]) \in Nat
    BY <2>3
  <2>5. SubSeq(pipe[e], 1, n) \in Seq(Unit) /\ SubSeq(pipe[e], n + 1, Len(pipe[e])) \in Seq(Unit)
    BY <2>1, <2>3, <2>4
  <2>6. bioIn[e] \o SubSeq(pipe[e], 1, n) \in Seq(Unit)
    BY <2>3, <2>5
  <2>7. /\ bioIn' \in [Ends -> Seq(Unit)] /\ bioIn'[e] = bioIn[e] \o SubSeq(pipe[e], 1, n)
        /\ \A f \in Ends : f # e => bioIn'[f] = bioIn[f]
    BY <2>1, <2>3, <2>6, QueueReplaced, Zenon
  <2>8. /\ pipe' \in [Ends -> Seq(Unit)] /\ pipe'[e] = SubSeq(pipe[e], n + 1, Len(pipe[e]))
        /\ \A f \in Ends : f # e => pipe'[f] = pipe[f]
    BY <2>1, <2>3, <2>5, QueueReplaced, Zenon
  <2>9. OpStep(t) /\ Fields(t, "call", op[t].step) /\ active' = active
    BY <2>2, Goes
  <2>10. Shape' /\ OthersKept(t)
    BY <1>1, <2>2, <2>7, <2>8, <2>9, Zenon DEF Shape, OthersKept, OpStep
  <2>11. pipe'[Peer(e)] = pipe[Peer(e)]
    BY <2>8, PeerFacts, Zenon
  <2> QED  BY <1>1, <2>1, <2>2, <2>7, <2>8, <2>9, <2>10, <2>11, Zenon
<1> QED  BY <1>2, <1>3, Zenon

\* A task that gives up its wait, or whose stream ends or fails under it.
LEMMA AbandonEffect ==
  ASSUME Shape, NEW t \in Tasks, NEW e \in Ends, e = EndOf[t],
         Truncated(t) \/ UnderlyingFails(t) \/ Destroy(t)
  PROVE  /\ Shape' /\ OthersKept(t) /\ op[t].at # "none" /\ EngineFails(e) /\ Left(t)
         /\ UNCHANGED <<ssl, bioIn, bioOut, pipe, got, wrote, rejected>>
         /\ errors[e] \subseteq errors'[e] /\ errors'[e] \subseteq errors[e] \cup {"truncated"}
<1>1. /\ op[t].at # "none" /\ engine' = Invalidated(e) /\ Leave(t)
      /\ ssl' = ssl /\ bioIn' = bioIn /\ bioOut' = bioOut /\ pipe' = pipe /\ closed' = closed
      /\ got' = got /\ wrote' = wrote /\ rejected' = rejected
      /\ errors' = errors \/ Fails(e, "truncated")
  BY DEF Truncated, UnderlyingFails, Destroy, Waiting, EndOfStream, world
<1>2. OpStep(t) /\ Left(t)
  BY <1>1, Leaves, ZenonT(40)
<1>3. engine' \in [Ends -> EngineType] /\ EngineFails(e) /\ \A f \in Ends : f # e => engine'[f] = engine[f]
  BY <1>1, Invalidates, Zenon
<1>4. /\ errors' \in [Ends -> SUBSET {"eof", "truncated", "protocol_error", "certificate_verify_failed"}]
      /\ errors[e] \subseteq errors'[e] /\ errors'[e] \subseteq errors[e] \cup {"truncated"}
      /\ \A f \in Ends : f # e => errors'[f] = errors[f]
  <2>1. CASE errors' = errors
    BY <2>1 DEF Shape
  <2>2. CASE Fails(e, "truncated")
    BY <2>2, Told
  <2> QED  BY <1>1, <2>1, <2>2
<1>5. Shape' /\ OthersKept(t)
  BY <1>1, <1>2, <1>3, <1>4, ZenonT(40) DEF Shape, OthersKept, OpStep
<1> QED  BY <1>1, <1>2, <1>3, <1>4, <1>5, Zenon

-----------------------------------------------------------------------------
(* The end that a step is about, and its peer.                             *)

\* A step of one task keeps both ends sound when it keeps its own end sound, and what lies
\* between the ends.
LEMMA Assembled ==
  ASSUME Alone, EndsSound, NEW t \in Tasks, NEW e \in Ends, e = EndOf[t], OthersKept(t),
         active' \in [Ends -> BOOLEAN], active'[e] = (op'[t].at # "none"), op[t].at # "none" \/ ~active[e],
         EndSound(e, op[t])', Received(e)', Received(Peer(e))', PipeEnd(e)' = PipeEnd(e)
  PROVE  Alone' /\ EndsSound'
<1> DEFINE p == Peer(e)
<1>1. p \in Ends /\ p # e /\ e = Peer(p) /\ \A f \in Ends : f = e \/ f = p
  BY PeerFacts, TwoEnds, Zenon
<1>2. \A u \in Tasks : EndOf[u] \in Ends
  BY TasksAssumption
<1>0. /\ \A u \in Tasks : op[u].at = "none" => op[u] = NoOp
      /\ \A u, v \in Tasks : EndOf[u] = EndOf[v] /\ op[u].at # "none" /\ op[v].at # "none" => u = v
      /\ \A f \in Ends : active[f] = (\E u \in Tasks : EndOf[u] = f /\ op[u].at # "none")
      /\ \A u \in Tasks : u # t => op'[u] = op[u]
  BY Zenon DEF Alone, OthersKept
<1>3. \A u \in Tasks : u # t /\ EndOf[u] = e => op[u].at = "none" /\ op'[u].at = "none"
  <2> SUFFICES ASSUME NEW u \in Tasks, u # t, EndOf[u] = e PROVE op[u].at = "none" /\ op'[u].at = "none"
    BY Zenon
  <2>1. op'[u] = op[u]
    BY Zenon DEF OthersKept
  <2>2. op[u].at # "none" /\ op[t].at # "none" => FALSE
    <3>1. \A v \in Tasks : EndOf[u] = EndOf[v] /\ op[u].at # "none" /\ op[v].at # "none" => u = v
      BY <1>0, Zenon
    <3>2. EndOf[u] = EndOf[t]
      BY Zenon
    <3> QED  BY <3>1, <3>2, Zenon
  <2>3. op[u].at # "none" => active[e]
    BY <1>0, ZenonT(40)
  <2> QED  BY <2>1, <2>2, <2>3, Zenon
<1>4. op'[t].at = "none" => op'[t] = NoOp
  BY Zenon DEF EndSound, Stands
<1>5. Alone'
  <2>1. \A u \in Tasks : op'[u].at = "none" => op'[u] = NoOp
    <3> SUFFICES ASSUME NEW u \in Tasks, op'[u].at = "none" PROVE op'[u] = NoOp
      OBVIOUS
    <3>1. CASE u = t
      BY <1>4, <3>1, Zenon
    <3>2. CASE u # t
      BY <1>0, <3>2
    <3> QED  BY <3>1, <3>2, Zenon
  <2>2. \A u, v \in Tasks : EndOf[u] = EndOf[v] /\ op'[u].at # "none" /\ op'[v].at # "none" => u = v
    <3> SUFFICES ASSUME NEW u \in Tasks, NEW v \in Tasks, EndOf[u] = EndOf[v],
                        op'[u].at # "none", op'[v].at # "none", u # v
                 PROVE  FALSE
      BY Zenon
    <3>1. EndOf[u] # e
      BY <1>3, Zenon
    <3>2. u # t /\ v # t
      BY <3>1, Zenon
    <3>3. op'[u] = op[u] /\ op'[v] = op[v]
      BY <3>2 DEF OthersKept
    <3> QED  BY <3>3, Zenon DEF Alone
  <2>3. active'[e] = (\E u \in Tasks : EndOf[u] = e /\ op'[u].at # "none")
    BY <1>3, Zenon
  <2>4. active'[p] = (\E u \in Tasks : EndOf[u] = p /\ op'[u].at # "none")
    <3>1. active[p] = (\E u \in Tasks : EndOf[u] = p /\ op[u].at # "none") /\ active'[p] = active[p]
      BY <1>1, Zenon DEF Alone, OthersKept
    <3>2. \A u \in Tasks : EndOf[u] = p => op'[u] = op[u]
      BY <1>1, Zenon DEF OthersKept
    <3> QED  BY <3>1, <3>2, Zenon
  <2>5. \A f \in Ends : active'[f] = (\E u \in Tasks : EndOf[u] = f /\ op'[u].at # "none")
    BY <1>1, <2>3, <2>4, Zenon
  <2> QED  BY <2>1, <2>2, <2>5, ZenonT(40) DEF Alone
<1>6. /\ engine'[p] = engine[p] /\ ssl'[p] = ssl[p] /\ bioIn'[p] = bioIn[p] /\ bioOut'[p] = bioOut[p]
      /\ got'[p] = got[p] /\ wrote'[p] = wrote[p] /\ active'[p] = active[p]
  BY <1>1, ZenonT(40) DEF OthersKept
<1>7. ASSUME NEW u \in Tasks, EndOf[u] = p, op'[u].at # "none" PROVE EndSound(p, op[u])'
  <2>1. op'[u] = op[u]
    BY <1>1, <1>7, Zenon DEF OthersKept
  <2>2. EndSound(p, op[u])
    BY <1>1, <1>7, <2>1, ZenonT(40) DEF EndsSound
  <2> HIDE DEF p
  <2> QED  BY <1>1, <1>6, <2>1, <2>2, PeerKept
<1>8. ASSUME ~active'[p] PROVE EndSound(p, NoOp)'
  <2>1. EndSound(p, NoOp)
    BY <1>1, <1>6, <1>8, Zenon DEF EndsSound
  <2> HIDE DEF p
  <2> QED  BY <1>1, <1>6, <2>1, IdleKept
<1>9. ASSUME ~active'[e] PROVE EndSound(e, NoOp)'
  BY <1>4, <1>9, Freed, Zenon
<1>10. ASSUME NEW u \in Tasks, EndOf[u] = e, op'[u].at # "none" PROVE EndSound(e, op[u])'
  <2>1. u = t
    BY <1>3, <1>10, Zenon
  <2> QED  BY <2>1, Zenon
<1>11. ASSUME NEW f \in Ends
       PROVE  /\ Received(f)'
              /\ ~active'[f] => EndSound(f, NoOp)'
              /\ \A u \in Tasks : EndOf[u] = f /\ op'[u].at # "none" => EndSound(f, op[u])'
  <2>1. CASE f = e
    BY <1>9, <1>10, <2>1, Zenon
  <2>2. CASE f = p
    BY <1>7, <1>8, <2>2
  <2> QED  BY <1>1, <2>1, <2>2
<1>12. EndsSound'
  BY <1>11, Zenon DEF EndsSound
<1> QED  BY <1>5, <1>12, Zenon

\* Where an operation stands when it takes a step.
LEMMA InUse ==
  ASSUME Alone, EndsSound, NEW t \in Tasks, NEW e \in Ends, e = EndOf[t]
  PROVE  /\ Received(e) /\ Received(Peer(e))
         /\ op[t].at # "none" => active[e] = TRUE /\ EndSound(e, op[t])
         /\ ~active[e] => op[t] = NoOp /\ EndSound(e, NoOp)
<1>1. Received(e) /\ Received(Peer(e))
  BY PeerFacts, Zenon DEF EndsSound
<1>2. op[t].at # "none" => active[e] = TRUE /\ EndSound(e, op[t])
  BY Zenon DEF EndsSound, Alone
<1>3. ~active[e] => op[t] = NoOp /\ EndSound(e, NoOp)
  BY Zenon DEF EndsSound, Alone
<1> QED  BY <1>1, <1>2, <1>3

\* What lies on the way to an end is left alone.
LEMMA Still ==
  ASSUME NEW f \in Ends, ssl'[f].in = ssl[f].in, ssl'[f].opened = ssl[f].opened, bioIn'[f] = bioIn[f],
         pipe'[f] = pipe[f], Received(f)
  PROVE  Received(f)' /\ PipeEnd(f)' = PipeEnd(f)
<1>1. InEnd(f)' = InEnd(f)
  BY DEF InEnd
<1>2. BioEnd(f)' = BioEnd(f)
  BY <1>1 DEF BioEnd
<1>3. PipeEnd(f)' = PipeEnd(f)
  BY <1>2 DEF PipeEnd
<1> QED  BY <1>1, <1>2, <1>3 DEF Received, Run, Place

\* What a step of a task owes.
Kept(t, e) ==
  /\ active'[e] = (op'[t].at # "none") /\ (op[t].at # "none" \/ ~active[e])
  /\ EndSound(e, op[t])' /\ Received(e)' /\ Received(Peer(e))' /\ PipeEnd(e)' = PipeEnd(e)

\* Both ways are left alone.
LEMMA BothStill ==
  ASSUME Alone, EndsSound, NEW t \in Tasks, NEW e \in Ends, e = EndOf[t], OthersKept(t),
         ssl'[e].in = ssl[e].in, ssl'[e].opened = ssl[e].opened, bioIn'[e] = bioIn[e], pipe' = pipe
  PROVE  /\ Received(e)' /\ Received(Peer(e))'
         /\ PipeEnd(e)' = PipeEnd(e) /\ PipeEnd(Peer(e))' = PipeEnd(Peer(e))
<1> DEFINE p == Peer(e)
<1>1. p \in Ends /\ p # e
  BY PeerFacts
<1>2. ssl'[p] = ssl[p] /\ bioIn'[p] = bioIn[p]
  BY <1>1, Zenon DEF OthersKept
<1>3. Received(e) /\ Received(p)
  BY InUse, Zenon
<1>4. Received(e)' /\ PipeEnd(e)' = PipeEnd(e)
  BY <1>3, Still, ZenonT(40)
<1> HIDE DEF p
<1>5. Received(p)' /\ PipeEnd(p)' = PipeEnd(p)
  BY <1>1, <1>2, <1>3, Still
<1> QED  BY <1>4, <1>5, Zenon DEF p

\* The guard is taken.
LEMMA BeginKeeps ==
  ASSUME Shape, Alone, EndsSound, NEW t \in Tasks, NEW e \in Ends, e = EndOf[t], Begin(t)
  PROVE  Kept(t, e)
<1>1. /\ OthersKept(t) /\ op[t].at = "none" /\ ~active[e] /\ active'[e] = TRUE
      /\ op'[t].at = "call" /\ op'[t].kind # "none" /\ op'[t].out = <<>> /\ ~op'[t].sealed
      /\ op'[t].step = "none"
      /\ op'[t].kind = "write" => wrote[e] < MaxWrites
      /\ engine' = engine /\ ssl' = ssl /\ bioIn' = bioIn /\ bioOut' = bioOut /\ pipe' = pipe
      /\ got' = got /\ wrote' = wrote
  BY BeginEffect, ZenonT(40)
<1>2. /\ Received(e)' /\ Received(Peer(e))'
      /\ PipeEnd(e)' = PipeEnd(e) /\ PipeEnd(Peer(e))' = PipeEnd(Peer(e))
  BY <1>1, BothStill, Zenon
<1>3. Stands(e, NoOp) /\ Sends(e, NoOp) /\ Counts(e, NoOp)
  BY <1>1, InUse, Zenon DEF EndSound
<1>4. Stands(e, op[t])'
  BY <1>1, <1>3, ZenonT(40) DEF Stands, Flushing, Usable, Known, NoOp
<1>5. Sends(e, op[t])'
  BY <1>1, <1>2, <1>3, Zenon DEF Sends, Sending, Flushing, NoOp
<1>6. Counts(e, op[t])'
  BY <1>1, <1>3, Zenon DEF Counts, Flushing, SealedFlights, OpenedFlights, One, NoOp
<1> QED  BY <1>1, <1>2, <1>4, <1>5, <1>6, Zenon DEF Kept, EndSound

\* The fields of an operation that is none.
LEMMA NoOpFields ==
  NoOp.at = "none" /\ NoOp.kind = "none" /\ NoOp.out = <<>> /\ NoOp.step = "none" /\ NoOp.sealed = FALSE
BY DEF NoOp

\* A task that leaves a usable stream has flushed it.
LEMMA LeaveKeeps ==
  ASSUME Shape', NEW t \in Tasks, NEW e \in Ends, e = EndOf[t], Left(t),
         ~engine'[e].failed =>
           /\ bioOut'[e] = <<>> /\ ssl'[e].out = <<>> /\ PipeEnd(Peer(e))' = 2 * ssl'[e].sealed
           /\ ssl'[e].sealed = SealedFlights(e)' + wrote'[e] + One(engine'[e].shut)
           /\ ssl'[e].opened = OpenedFlights(e)' + got'[e] + One(engine'[e].eof)
  PROVE  EndSound(e, op[t])' /\ active'[e] = (op'[t].at # "none")
<1>1. /\ op'[t] = NoOp /\ active'[e] = FALSE
      /\ op'[t].at = "none" /\ op'[t].kind = "none" /\ op'[t].out = <<>> /\ op'[t].sealed = FALSE
  BY NoOpFields, Zenon DEF Left
<1>2. ssl'[e].sealed \in Nat /\ wrote'[e] \in Nat /\ got'[e] \in Nat /\ ssl'[e].flight \in 0 .. 3
  <2>1. ssl'[e] \in SslType /\ wrote'[e] \in Nat /\ got'[e] \in Nat
    BY ZenonT(40) DEF Shape
  <2> QED  BY <2>1 DEF SslType
<1>3. Stands(e, op[t])'
  BY <1>1, ZenonT(40) DEF Stands, Flushing
<1>4. Sends(e, op[t])'
  <2>1. ~Flushing(op[t], {"fatal"})'
    BY <1>1, Zenon DEF Flushing
  <2>2. ASSUME ~engine'[e].failed PROVE Sending(e, op[t].out, 2 * ssl[e].sealed)'
    <3>1. PICK a \in Nat : a = 2 * ssl'[e].sealed
      BY <1>2
    <3>2. a + 0 = a
      OBVIOUS
    <3> QED  BY <1>1, <2>2, <3>1, <3>2, Nothing, ZenonT(40) DEF Sending
  <2> QED  BY <2>1, <2>2, Zenon DEF Sends
<1>5. SealedFlights(e)' \in Nat /\ OpenedFlights(e)' \in Nat
  BY DEF SealedFlights, OpenedFlights
<1>6. Counts(e, op[t])'
  <2>1. /\ One(op'[t].kind = "write" /\ op'[t].sealed) = 0
        /\ One(engine'[e].shut \/ (op'[t].kind = "shutdown" /\ op'[t].sealed)) = One(engine'[e].shut)
    BY <1>1, Zenon DEF One
  <2>2. One(Flushing(op[t], {"complete"})' /\ op'[t].kind = "read") = 0
    BY <1>1, ZenonT(40) DEF One, Flushing
  <2>3. /\ SealedFlights(e)' + wrote'[e] + 0 = SealedFlights(e)' + wrote'[e]
        /\ OpenedFlights(e)' + got'[e] + 0 = OpenedFlights(e)' + got'[e]
    BY <1>2, <1>5
  <2> QED  BY <2>1, <2>2, <2>3, Zenon DEF Counts
<1> QED  BY <1>1, <1>3, <1>4, <1>6, ZenonT(40) DEF EndSound

\* With nothing left to flush, all that was sealed has left.
LEMMA Settled ==
  ASSUME Shape, NEW t \in Tasks, NEW e \in Ends, ~engine[e].failed, Sends(e, op[t]), Counts(e, op[t]),
         op[t].out = <<>>, bioOut[e] = <<>>, ssl[e].out = <<>>
  PROVE  /\ PipeEnd(Peer(e)) = 2 * ssl[e].sealed
         /\ ~op[t].sealed => ssl[e].sealed = SealedFlights(e) + wrote[e] + One(engine[e].shut)
         /\ ~Flushing(op[t], {"complete"}) => ssl[e].opened = OpenedFlights(e) + got[e] + One(engine[e].eof)
<1>1. PipeEnd(Peer(e)) \in Nat /\ ssl[e].sealed \in Nat /\ wrote[e] \in Nat /\ got[e] \in Nat
  BY Typed, PeerFacts, ZenonT(40)
<1>2. PipeEnd(Peer(e)) = 2 * ssl[e].sealed
  BY <1>1, Nothing DEF Sends, Sending
<1>3. SealedFlights(e) \in Nat /\ OpenedFlights(e) \in Nat
  BY Zenon DEF SealedFlights, OpenedFlights
<1>4. ~op[t].sealed => ssl[e].sealed = SealedFlights(e) + wrote[e] + One(engine[e].shut)
  BY <1>1, <1>3 DEF Counts, One
<1>5. ~Flushing(op[t], {"complete"}) => ssl[e].opened = OpenedFlights(e) + got[e] + One(engine[e].eof)
  BY <1>1, <1>3 DEF Counts, One
<1> QED  BY <1>2, <1>4, <1>5, Zenon

\* The engine is called.
LEMMA CallKeeps ==
  ASSUME Shape, Alone, EndsSound, NEW t \in Tasks, NEW e \in Ends, e = EndOf[t], CallEngine(t)
  PROVE  Kept(t, e)
<1>1. /\ OthersKept(t) /\ op[t].at = "call"
      /\ engine' = engine /\ ssl' = ssl /\ bioIn' = bioIn /\ bioOut' = bioOut /\ pipe' = pipe
      /\ got' = got /\ wrote' = wrote
      /\ \/ ~Usable(e, op[t].kind) /\ Left(t)
         \/ /\ Usable(e, op[t].kind) /\ active' = active
            /\ \/ Known(e, op[t].kind) /\ Fields(t, "flush", IF op[t].kind = "read" THEN "eof" ELSE "complete")
               \/ ~Known(e, op[t].kind) /\ Fields(t, "ssl", IF op[t].kind = "read" THEN "eof" ELSE "complete")
  BY CallEffect, ZenonT(40)
<1>2. /\ Received(e)' /\ Received(Peer(e))'
      /\ PipeEnd(e)' = PipeEnd(e) /\ PipeEnd(Peer(e))' = PipeEnd(Peer(e))
  BY <1>1, BothStill
<1>3. active[e] = TRUE /\ Stands(e, op[t]) /\ Sends(e, op[t]) /\ Counts(e, op[t])
  BY <1>1, InUse, ZenonT(40) DEF EndSound
<1>4. CASE ~Usable(e, op[t].kind) /\ Left(t)
  <2>1. op[t].out = <<>> /\ (~engine[e].failed => ssl[e].out = <<>> /\ bioOut[e] = <<>> /\ ~op[t].sealed)
    BY <1>1, <1>3, <1>4, Zenon DEF Stands
  <2>2. op[t].at # "flush" /\ Shape'
    BY <1>1, CallEffect, ZenonT(40)
  <2>3. ~engine[e].failed =>
           /\ PipeEnd(Peer(e)) = 2 * ssl[e].sealed
           /\ ssl[e].sealed = SealedFlights(e) + wrote[e] + One(engine[e].shut)
           /\ ssl[e].opened = OpenedFlights(e) + got[e] + One(engine[e].eof)
    BY <1>3, <2>1, <2>2, Settled, ZenonT(40) DEF Flushing
  <2>4. SealedFlights(e)' = SealedFlights(e) /\ OpenedFlights(e)' = OpenedFlights(e)
    BY <1>1 DEF SealedFlights, OpenedFlights
  <2>5. EndSound(e, op[t])' /\ active'[e] = (op'[t].at # "none")
    BY <1>1, <1>2, <1>4, <2>1, <2>2, <2>3, <2>4, LeaveKeeps, Zenon
  <2> QED  BY <1>1, <1>2, <2>5 DEF Kept
<1>5. CASE /\ Usable(e, op[t].kind) /\ active' = active
           /\ Known(e, op[t].kind) /\ Fields(t, "flush", IF op[t].kind = "read" THEN "eof" ELSE "complete")
  <2>1. /\ op'[t].at = "flush" /\ op'[t].step = IF op[t].kind = "read" THEN "eof" ELSE "complete"
        /\ op'[t].kind = op[t].kind /\ op'[t].out = op[t].out /\ op'[t].sealed = op[t].sealed
    BY <1>5 DEF Fields
  <2>2. ssl[e].out = <<>> /\ bioOut[e] = <<>> /\ ~op[t].sealed
    BY <1>1, <1>3, <1>5, Zenon DEF Stands, Usable
  <2>3. Stands(e, op[t])'
    BY <1>1, <1>3, <1>5, <2>1, <2>2, Zenon DEF Stands, Flushing, Usable, Known
  <2>4. Sends(e, op[t])'
    BY <1>1, <1>2, <1>3, <2>1, <2>2, Zenon DEF Sends, Sending, Flushing
  <2>5. Counts(e, op[t])'
    BY <1>1, <1>3, <2>1, <2>2, CountsSame, Zenon
  <2>6. active'[e] = (op'[t].at # "none")
    BY <1>3, <1>5, <2>1, Zenon
  <2> QED  BY <1>1, <1>2, <2>3, <2>4, <2>5, <2>6, ZenonT(40) DEF Kept, EndSound
<1>6. CASE /\ Usable(e, op[t].kind) /\ active' = active
           /\ ~Known(e, op[t].kind) /\ Fields(t, "ssl", IF op[t].kind = "read" THEN "eof" ELSE "complete")
  <2>1. /\ op'[t].at = "ssl"
        /\ op'[t].kind = op[t].kind /\ op'[t].out = op[t].out /\ op'[t].sealed = op[t].sealed
    BY <1>6 DEF Fields
  <2>3. Stands(e, op[t])'
    BY <1>1, <1>3, <1>6, <2>1, Zenon DEF Stands, Flushing, Usable, Known
  <2>4. Sends(e, op[t])'
    BY <1>1, <1>2, <1>3, <2>1, Zenon DEF Sends, Sending, Flushing
  <2>5. Counts(e, op[t])'
    BY <1>1, <1>3, <2>1, CountsSame, Zenon
  <2>6. active'[e] = (op'[t].at # "none")
    BY <1>3, <1>6, <2>1, Zenon
  <2> QED  BY <1>1, <1>2, <2>3, <2>4, <2>5, <2>6, ZenonT(40) DEF Kept, EndSound
<1> QED  BY <1>1, <1>4, <1>5, <1>6, Zenon

\* What is still to be sent, after a step.
LEMMA SentNow ==
  ASSUME NEW t \in Tasks, NEW e \in Ends, NEW z, NEW x,
         z = PipeEnd(Peer(e))' + Len(op'[t].out),
         Run(op'[t].out, PipeEnd(Peer(e))'), Run(bioOut'[e], z), Run(ssl'[e].out, z + Len(bioOut'[e])),
         z + Len(bioOut'[e]) + Len(ssl'[e].out) = x,
         ~engine'[e].failed => x = 2 * ssl'[e].sealed,
         op'[t].at = "flush" /\ op'[t].step = "fatal" => x = 2 * ssl'[e].sealed + 2
  PROVE  Sends(e, op[t])'
BY ZenonT(40) DEF Sends, Sending, Flushing, Run, Place

\* OpenSSL pushes.
LEMMA PushKeeps ==
  ASSUME Shape, Alone, EndsSound, NEW t \in Tasks, NEW e \in Ends, e = EndOf[t], SslPush(t)
  PROVE  Kept(t, e)
<1>1. /\ OthersKept(t) /\ op[t].at = "ssl" /\ ssl[e].out # <<>> /\ active' = active
      /\ engine' = engine /\ bioIn' = bioIn /\ pipe' = pipe /\ got' = got /\ wrote' = wrote
      /\ \/ /\ op' = op /\ bioOut'[e] = Append(bioOut[e], Head(ssl[e].out))
            /\ ssl'[e].out = Tail(ssl[e].out) /\ ssl'[e].in = ssl[e].in /\ ssl'[e].flight = ssl[e].flight
            /\ ssl'[e].sealed = ssl[e].sealed /\ ssl'[e].opened = ssl[e].opened
         \/ Fields(t, "flush", "want_output") /\ ssl' = ssl /\ bioOut' = bioOut
  BY PushEffect, ZenonT(40)
<1>2. /\ Received(e)' /\ Received(Peer(e))'
      /\ PipeEnd(e)' = PipeEnd(e) /\ PipeEnd(Peer(e))' = PipeEnd(Peer(e))
  BY <1>1, BothStill, Zenon
<1>3. active[e] = TRUE /\ Stands(e, op[t]) /\ Sends(e, op[t]) /\ Counts(e, op[t])
  BY <1>1, InUse, Zenon DEF EndSound
<1>4. CASE /\ op' = op /\ bioOut'[e] = Append(bioOut[e], Head(ssl[e].out))
           /\ ssl'[e].out = Tail(ssl[e].out) /\ ssl'[e].in = ssl[e].in /\ ssl'[e].flight = ssl[e].flight
           /\ ssl'[e].sealed = ssl[e].sealed /\ ssl'[e].opened = ssl[e].opened
  <2>1. Stands(e, op[t])'
    BY <1>1, <1>3, <1>4, ZenonT(40) DEF Stands, Flushing, Usable, Known
  <2>2. PICK a \in Nat : a = PipeEnd(Peer(e)) + Len(op[t].out)
    <3>1. PipeEnd(Peer(e)) \in Nat /\ op[t].out \in Seq(Unit)
      BY Typed, PeerFacts, Zenon
    <3> QED  BY <3>1
  <2>3. bioOut[e] \in Seq(Unit) /\ ssl[e].out \in Seq(Unit) /\ ssl[e].sealed \in Nat
    BY Typed
  <2>4. Len(bioOut[e]) \in Nat /\ Len(ssl[e].out) \in Nat
    BY <2>3
  <2>5. ~engine[e].failed
    BY <1>1, <1>3, Zenon DEF Stands, Flushing
  <2>6. /\ Run(op[t].out, PipeEnd(Peer(e))) /\ Run(bioOut[e], a) /\ Run(ssl[e].out, a + Len(bioOut[e]))
        /\ a + Len(bioOut[e]) + Len(ssl[e].out) = 2 * ssl[e].sealed
    BY <1>3, <2>2, <2>5, Zenon DEF Sends, Sending
  <2>7. PICK b \in Nat : b = a + Len(bioOut[e])
    BY <2>2, <2>4
  <2>8. /\ Head(ssl[e].out) \in Unit /\ Place(Head(ssl[e].out)) = b + 1 /\ Len(ssl[e].out) > 0
        /\ Len(Tail(ssl[e].out)) = Len(ssl[e].out) - 1 /\ Run(Tail(ssl[e].out), b + 1)
    BY <1>1, <2>3, <2>6, <2>7, Shifted, Zenon
  <2>9. /\ Len(Append(bioOut[e], Head(ssl[e].out))) = Len(bioOut[e]) + 1
        /\ Run(Append(bioOut[e], Head(ssl[e].out)), a)
    BY <2>3, <2>6, <2>7, <2>8, Extended, Zenon
  <2>10. /\ Run(bioOut'[e], a) /\ Run(ssl'[e].out, a + Len(bioOut'[e]))
         /\ a + Len(bioOut'[e]) + Len(ssl'[e].out) = 2 * ssl'[e].sealed
    <3>1. PICK m \in Nat, n \in Nat : m = Len(bioOut[e]) /\ n = Len(ssl[e].out)
      BY <2>4, ZenonT(40)
    <3>2. Len(bioOut'[e]) = m + 1 /\ Len(ssl'[e].out) = n - 1 /\ b + 1 = a + Len(bioOut'[e])
      BY <1>4, <2>7, <2>8, <2>9, <3>1
    <3>3. Run(bioOut'[e], a) /\ Run(ssl'[e].out, a + Len(bioOut'[e]))
      BY <1>4, <2>8, <2>9, <3>2
    <3>4. a + m + n = 2 * ssl'[e].sealed
      BY <1>4, <2>6, <3>1, Zenon
    <3>5. a + Len(bioOut'[e]) + Len(ssl'[e].out) = 2 * ssl'[e].sealed
      BY <3>2, <3>4
    <3> QED  BY <3>3, <3>5, Zenon
  <2>11. Sends(e, op[t])'
    BY <1>1, <1>2, <1>4, <2>2, <2>6, <2>10, SentNow, ZenonT(40)
  <2>12. Counts(e, op[t])'
    BY <1>1, <1>3, <1>4, CountsSame, Zenon
  <2> QED  BY <1>1, <1>2, <1>3, <1>4, <2>1, <2>11, <2>12, Zenon DEF Kept, EndSound
<1>5. CASE Fields(t, "flush", "want_output") /\ ssl' = ssl /\ bioOut' = bioOut
  <2>1. /\ op'[t].at = "flush" /\ op'[t].step = "want_output"
        /\ op'[t].kind = op[t].kind /\ op'[t].out = op[t].out /\ op'[t].sealed = op[t].sealed
    BY <1>5 DEF Fields
  <2>3. Stands(e, op[t])'
    BY <1>1, <1>3, <1>5, <2>1, Zenon DEF Stands, Flushing, Usable, Known
  <2>4. Sends(e, op[t])'
    BY <1>1, <1>2, <1>3, <1>5, <2>1, Zenon DEF Sends, Sending, Flushing
  <2>5. Counts(e, op[t])'
    BY <1>1, <1>3, <1>5, <2>1, CountsSame, Zenon
  <2>6. active'[e] = (op'[t].at # "none")
    BY <1>1, <1>3, <2>1, ZenonT(40)
  <2> QED  BY <1>1, <1>2, <2>3, <2>4, <2>5, <2>6, ZenonT(40) DEF Kept, EndSound
<1> QED  BY <1>1, <1>4, <1>5, ZenonT(40)

\* Whose flight it is.
LEMMA FlightTurns ==
  ASSUME Shape, NEW e \in Ends, ssl[e].flight < 3, ssl'[e].flight = ssl[e].flight + 1
  PROVE  /\ Mine(e) => SealedFlights(e)' = SealedFlights(e) + 1 /\ OpenedFlights(e)' = OpenedFlights(e)
         /\ ~Mine(e) => SealedFlights(e)' = SealedFlights(e) /\ OpenedFlights(e)' = OpenedFlights(e) + 1
<1>1. ssl[e].flight \in 0 .. 3
  BY Zenon DEF Shape, SslType
<1>2. PICK n \in {0, 1, 2} : n = ssl[e].flight
  BY <1>1
<1>3. e = "client" \/ e = "server"
  BY DEF Ends
<1>4. Mine(e) <=> ((n = 0 \/ n = 2) <=> e = "client")
  BY <1>2 DEF Mine
<1>5. ssl'[e].flight = n + 1
  BY <1>2, Zenon
<1>6. CASE e = "client"
  BY <1>2, <1>4, <1>5, <1>6 DEF SealedFlights, OpenedFlights
<1>7. CASE e = "server"
  BY <1>2, <1>4, <1>5, <1>7 DEF SealedFlights, OpenedFlights
<1> QED  BY <1>3, <1>6, <1>7, Zenon

\* What is in the output BIO when nothing is being flushed and OpenSSL has pushed its record.
LEMMA LastSent ==
  ASSUME NEW t \in Tasks, NEW e \in Ends, Sends(e, op[t]), ~engine[e].failed, op[t].out = <<>>, ssl[e].out = <<>>,
         PipeEnd(Peer(e)) \in Nat, Len(bioOut[e]) \in Nat
  PROVE  Run(bioOut[e], PipeEnd(Peer(e))) /\ PipeEnd(Peer(e)) + Len(bioOut[e]) = 2 * ssl[e].sealed
<1>0. PICK a \in Nat, m \in Nat : a = PipeEnd(Peer(e)) /\ m = Len(bioOut[e])
  BY Zenon
<1>1. Sending(e, op[t].out, 2 * ssl[e].sealed)
  BY Zenon DEF Sends
<1>2. /\ Run(bioOut[e], PipeEnd(Peer(e)) + Len(op[t].out))
      /\ PipeEnd(Peer(e)) + Len(op[t].out) + Len(bioOut[e]) + Len(ssl[e].out) = 2 * ssl[e].sealed
  BY <1>1, Zenon DEF Sending
<1>3. Len(op[t].out) = 0 /\ Len(ssl[e].out) = 0
  BY Nothing, Zenon
<1>4. Run(bioOut[e], a + 0) /\ a + 0 + m + 0 = 2 * ssl[e].sealed
  BY <1>0, <1>2, <1>3, ZenonT(40)
<1>5. a + 0 = a /\ a + 0 + m + 0 = a + m
  OBVIOUS
<1> QED  BY <1>0, <1>4, <1>5, Zenon

\* OpenSSL seals.
LEMMA SealKeeps ==
  ASSUME Shape, Alone, EndsSound, NEW t \in Tasks, NEW e \in Ends, e = EndOf[t], SslSeal(t)
  PROVE  Kept(t, e)
<1>1. /\ OthersKept(t) /\ op[t].at = "ssl" /\ ssl[e].out = <<>>
      /\ engine' = engine /\ active' = active /\ bioIn' = bioIn /\ bioOut' = bioOut /\ pipe' = pipe
      /\ got' = got /\ wrote' = wrote
      /\ op'[t].at = "ssl" /\ op'[t].kind = op[t].kind /\ op'[t].out = op[t].out
      /\ ssl'[e].sealed = ssl[e].sealed + 1 /\ ssl'[e].opened = ssl[e].opened /\ ssl'[e].in = ssl[e].in
  BY SealEffect, ZenonT(40)
<1>2. PICK what \in {"flight", "data", "close"} :
        /\ ssl'[e].out = Record(e, what) /\ op'[t].sealed = (what # "flight")
        /\ what = "flight" => /\ op[t].kind = "handshake" /\ ssl[e].flight < 3 /\ Mine(e)
                              /\ ssl'[e].flight = ssl[e].flight + 1
        /\ what = "data" => op[t].kind = "write"
        /\ what = "close" => op[t].kind = "shutdown"
        /\ what # "flight" => ~op[t].sealed /\ ssl'[e].flight = ssl[e].flight
  BY SealEffect, ZenonT(40)
<1>3. /\ Received(e)' /\ Received(Peer(e))'
      /\ PipeEnd(e)' = PipeEnd(e) /\ PipeEnd(Peer(e))' = PipeEnd(Peer(e))
  BY <1>1, BothStill
<1>4. active[e] = TRUE /\ Stands(e, op[t]) /\ Sends(e, op[t]) /\ Counts(e, op[t])
  BY <1>1, InUse, Zenon DEF EndSound
<1>5. Stands(e, op[t])'
  BY <1>1, <1>2, <1>4, Zenon DEF Stands, Flushing, Usable, Known
<1>6. /\ ~engine[e].failed /\ op[t].out = <<>> /\ (op[t].sealed => op[t].kind \in {"write", "shutdown"})
      /\ op[t].kind = "shutdown" => ~engine[e].shut
  BY <1>1, <1>4, Zenon DEF Stands, Usable, Known
<1>7. /\ PipeEnd(Peer(e)) \in Nat /\ bioOut[e] \in Seq(Unit) /\ ssl[e].sealed \in Nat
      /\ wrote[e] \in Nat /\ got[e] \in Nat
  BY Typed, PeerFacts, Zenon
<1>8. Sends(e, op[t])'
  <2>1. PICK a \in Nat, m \in Nat, n \in Nat : a = PipeEnd(Peer(e)) /\ m = Len(bioOut[e]) /\ n = ssl[e].sealed
    BY <1>7
  <2>2. Run(bioOut[e], a) /\ a + m = 2 * n
    <3>1. op[t].out = <<>> /\ ssl[e].out = <<>> /\ ~engine[e].failed /\ Sends(e, op[t])
      BY <1>1, <1>4, <1>6, Zenon
    <3>2. PipeEnd(Peer(e)) \in Nat /\ Len(bioOut[e]) \in Nat
      BY <2>1, Zenon
    <3>3. Run(bioOut[e], PipeEnd(Peer(e))) /\ PipeEnd(Peer(e)) + Len(bioOut[e]) = 2 * ssl[e].sealed
      BY <3>1, <3>2, LastSent, ZenonT(40)
    <3> QED  BY <2>1, <3>3, Zenon
  <2>3. Run(Record(e, what), 2 * n) /\ Len(Record(e, what)) = 2
    BY <1>7, <2>1, Records DEF Whats
  <2>4. Len(op'[t].out) = 0 /\ Run(op'[t].out, PipeEnd(Peer(e))')
    BY <1>1, <1>6, Nothing, ZenonT(40)
  <2>5. a = PipeEnd(Peer(e))' + Len(op'[t].out)
    BY <1>3, <2>1, <2>4
  <2>6. Run(bioOut'[e], a) /\ Run(ssl'[e].out, a + Len(bioOut'[e]))
    BY <1>1, <1>2, <2>1, <2>2, <2>3, Zenon
  <2>7. a + Len(bioOut'[e]) + Len(ssl'[e].out) = 2 * n + 2 /\ 2 * n + 2 = 2 * ssl'[e].sealed
    <3>1. Len(bioOut'[e]) = m /\ Len(ssl'[e].out) = 2 /\ ssl'[e].sealed = n + 1
      BY <1>1, <1>2, <2>1, <2>3, ZenonT(40)
    <3>2. a + m = 2 * n /\ a + m + 2 = 2 * n + 2 /\ 2 * (n + 1) = 2 * n + 2
      BY <2>1, <2>2
    <3> QED  BY <3>1, <3>2
  <2> QED  BY <1>1, <2>4, <2>5, <2>6, <2>7, SentNow, ZenonT(40)
<1>9. Counts(e, op[t])'
  <2>1. SealedFlights(e) \in Nat /\ OpenedFlights(e) \in Nat
    BY Zenon DEF SealedFlights, OpenedFlights
  <2>2. PICK x \in {0, 1}, y \in {0, 1}, z \in {0, 1} :
          /\ x = One(op[t].kind = "write" /\ op[t].sealed)
          /\ y = One(engine[e].shut \/ (op[t].kind = "shutdown" /\ op[t].sealed)) /\ z = One(engine[e].eof)
    BY DEF One
  <2>3. ssl[e].sealed = SealedFlights(e) + wrote[e] + x + y /\ ssl[e].opened = OpenedFlights(e) + got[e] + z
    <3>1. One(Flushing(op[t], {"complete"}) /\ op[t].kind = "read") = 0
      BY <1>1, Zenon DEF One, Flushing
    <3>2. /\ ssl[e].sealed = SealedFlights(e) + wrote[e] + x + y
          /\ ssl[e].opened = OpenedFlights(e) + got[e] + 0 + z
      BY <1>4, <1>6, <2>2, <3>1, Zenon DEF Counts
    <3>3. PICK o \in Nat, g \in Nat : o = OpenedFlights(e) /\ g = got[e]
      BY <1>7, <2>1, Zenon
    <3>4. o + g + 0 + z = o + g + z
      OBVIOUS
    <3> QED  BY <3>2, <3>3, <3>4, Zenon
  <2>4. PICK v \in {0, 1}, w \in {0, 1} :
          /\ v = One(op'[t].kind = "write" /\ op'[t].sealed)
          /\ w = One(engine'[e].shut \/ (op'[t].kind = "shutdown" /\ op'[t].sealed))
    BY DEF One
  <2>5. /\ what = "flight" => v = x /\ w = y
        /\ what = "data" => v = 1 /\ x = 0 /\ w = y
        /\ what = "close" => v = x /\ w = 1 /\ y = 0
    BY <1>1, <1>2, <1>6, <2>2, <2>4, ZenonT(40) DEF One
  <2>6. /\ OpenedFlights(e)' = OpenedFlights(e)
        /\ SealedFlights(e)' = IF what = "flight" THEN SealedFlights(e) + 1 ELSE SealedFlights(e)
    <3>1. CASE what = "flight"
      BY <1>2, <3>1, FlightTurns, ZenonT(40)
    <3>2. CASE what # "flight"
      BY <1>2, <3>2 DEF SealedFlights, OpenedFlights
    <3> QED  BY <3>1, <3>2
  <2>7. ssl'[e].sealed = SealedFlights(e)' + wrote'[e] + v + w
    <3>1. PICK f \in Nat, n \in Nat, s \in Nat : f = SealedFlights(e) /\ n = wrote[e] /\ s = ssl[e].sealed
      BY <1>7, <2>1
    <3>2. s = f + n + x + y /\ ssl'[e].sealed = s + 1 /\ wrote'[e] = n
      BY <1>1, <2>3, <3>1, ZenonT(40)
    <3>3. SealedFlights(e)' = IF what = "flight" THEN f + 1 ELSE f
      BY <2>6, <3>1, Zenon
    <3>4. CASE what = "flight"
      BY <2>5, <3>2, <3>3, <3>4
    <3>5. CASE what = "data"
      BY <2>5, <3>2, <3>3, <3>5
    <3>6. CASE what = "close"
      BY <2>5, <3>2, <3>3, <3>6
    <3> QED  BY <1>2, <3>4, <3>5, <3>6, ZenonT(40)
  <2>8. ssl'[e].opened = OpenedFlights(e)' + got'[e] + 0 + One(engine'[e].eof)
    <3>1. PICK o \in Nat, g \in Nat : o = OpenedFlights(e) /\ g = got[e]
      BY <1>7, <2>1, Zenon
    <3>2. /\ ssl'[e].opened = o + g + z
          /\ OpenedFlights(e)' = o /\ got'[e] = g /\ One(engine'[e].eof) = z
      BY <1>1, <2>2, <2>3, <2>6, <3>1, Zenon
    <3>3. o + g + 0 + z = o + g + z
      OBVIOUS
    <3> QED  BY <3>2, <3>3, Zenon
  <2>9. One(Flushing(op[t], {"complete"})' /\ op'[t].kind = "read") = 0
    BY <1>1 DEF One, Flushing
  <2> QED  BY <2>4, <2>7, <2>8, <2>9, ZenonT(40) DEF Counts
<1> QED  BY <1>1, <1>3, <1>4, <1>5, <1>8, <1>9, Zenon DEF Kept, EndSound

\* The call succeeds.
LEMMA DoneKeeps ==
  ASSUME Shape, Alone, EndsSound, NEW t \in Tasks, NEW e \in Ends, e = EndOf[t], SslDone(t)
  PROVE  Kept(t, e)
<1>1. /\ OthersKept(t) /\ op[t].at = "ssl" /\ ssl[e].out = <<>>
      /\ IF op[t].kind = "handshake" THEN ssl[e].flight = 3 ELSE op[t].sealed
      /\ active' = active /\ ssl' = ssl /\ bioIn' = bioIn /\ bioOut' = bioOut /\ pipe' = pipe
      /\ got' = got /\ wrote' = wrote
      /\ engine'[e].ready /\ engine'[e].shut = (engine[e].shut \/ op[t].kind = "shutdown")
      /\ engine'[e].failed = engine[e].failed /\ engine'[e].eof = engine[e].eof
  BY DoneEffect, Zenon
<1>2. /\ op'[t].at = "flush" /\ op'[t].step = "complete"
      /\ op'[t].kind = op[t].kind /\ op'[t].out = op[t].out /\ op'[t].sealed = op[t].sealed
  BY DoneEffect, ZenonT(40) DEF Fields
<1>3. /\ Received(e)' /\ Received(Peer(e))'
      /\ PipeEnd(e)' = PipeEnd(e) /\ PipeEnd(Peer(e))' = PipeEnd(Peer(e))
  BY <1>1, BothStill
<1>4. active[e] = TRUE /\ Stands(e, op[t]) /\ Sends(e, op[t]) /\ Counts(e, op[t])
  BY <1>1, InUse, Zenon DEF EndSound
<1>5. /\ ~engine[e].failed /\ (op[t].sealed => op[t].kind \in {"write", "shutdown"})
      /\ op[t].kind \in {"handshake", "write", "shutdown"} /\ op[t].out = <<>>
      /\ (op[t].kind # "shutdown" => ~engine[e].shut) /\ (op[t].kind \in {"handshake", "write"} => ~engine[e].eof)
      /\ op[t].kind = "write" => wrote[e] < MaxWrites
  BY <1>1, <1>4, Zenon DEF Stands, Usable, Known
<1>6. Stands(e, op[t])'
  BY <1>1, <1>2, <1>5, Zenon DEF Stands, Flushing, Usable, Known
<1>7. Sends(e, op[t])'
  BY <1>1, <1>2, <1>3, <1>4, Zenon DEF Sends, Sending, Flushing
<1>8. Counts(e, op[t])'
  BY <1>1, <1>2, <1>4, <1>5, Zenon DEF Counts, Flushing, SealedFlights, OpenedFlights, One
<1> QED  BY <1>1, <1>2, <1>3, <1>4, <1>6, <1>7, <1>8, Zenon DEF Kept, EndSound

\* What is still to be sent while an operation flushes.
LEMMA SendingNow ==
  ASSUME NEW t \in Tasks, NEW e \in Ends, op[t].at = "flush", Stands(e, op[t]), Sends(e, op[t]),
         NEW a, a = PipeEnd(Peer(e)) + Len(op[t].out), NEW x, x = a + Len(bioOut[e]) + Len(ssl[e].out)
  PROVE  /\ ~engine[e].failed => x = 2 * ssl[e].sealed
         /\ op[t].step = "fatal" => x = 2 * ssl[e].sealed + 2
         /\ Run(op[t].out, PipeEnd(Peer(e))) /\ Run(bioOut[e], a) /\ Run(ssl[e].out, a + Len(bioOut[e]))
<1>1. engine[e].failed <=> op[t].step = "fatal"
  BY Zenon DEF Stands, Flushing
<1>2. CASE engine[e].failed
  <2>1. Sending(e, op[t].out, 2 * ssl[e].sealed + 2)
    BY <1>1, <1>2, Zenon DEF Sends, Flushing
  <2> QED  BY <1>2, <2>1, Zenon DEF Sending
<1>3. CASE ~engine[e].failed
  <2>1. Sending(e, op[t].out, 2 * ssl[e].sealed)
    BY <1>3, Zenon DEF Sends
  <2> QED  BY <1>1, <1>3, <2>1, Zenon DEF Sending
<1> QED  BY <1>2, <1>3, Zenon

\* OpenSSL pulls.
LEMMA PullKeeps ==
  ASSUME Shape, Alone, EndsSound, NEW t \in Tasks, NEW e \in Ends, e = EndOf[t], SslPull(t)
  PROVE  Kept(t, e)
<1> DEFINE p == Peer(e)
<1>1. /\ OthersKept(t) /\ op[t].at = "ssl" /\ ssl[e].out = <<>> /\ WantsRecord(t) /\ active' = active
      /\ engine' = engine /\ bioOut' = bioOut /\ pipe' = pipe /\ got' = got /\ wrote' = wrote
      /\ \/ /\ op' = op /\ bioIn[e] # <<>> /\ bioIn'[e] = Tail(bioIn[e])
            /\ ssl'[e].in = Append(ssl[e].in, Head(bioIn[e])) /\ ssl'[e].out = ssl[e].out
            /\ ssl'[e].flight = ssl[e].flight
            /\ ssl'[e].sealed = ssl[e].sealed /\ ssl'[e].opened = ssl[e].opened
         \/ Fields(t, "flush", "want_input") /\ bioIn[e] = <<>> /\ ssl' = ssl /\ bioIn' = bioIn
  BY PullEffect, Zenon
<1>2. active[e] = TRUE /\ Stands(e, op[t]) /\ Sends(e, op[t]) /\ Counts(e, op[t])
  BY <1>1, InUse, Zenon DEF EndSound
<1>3. Received(e) /\ Received(p) /\ p \in Ends /\ p # e
  BY InUse, PeerFacts, ZenonT(40)
<1>4. Received(p)' /\ PipeEnd(p)' = PipeEnd(p)
  <2>1. ssl'[p] = ssl[p] /\ bioIn'[p] = bioIn[p] /\ pipe'[p] = pipe[p]
    BY <1>1, <1>3, Zenon DEF OthersKept
  <2> HIDE DEF p
  <2> QED  BY <1>3, <2>1, Still
<1>5. CASE /\ op' = op /\ bioIn[e] # <<>> /\ bioIn'[e] = Tail(bioIn[e])
           /\ ssl'[e].in = Append(ssl[e].in, Head(bioIn[e])) /\ ssl'[e].out = ssl[e].out
           /\ ssl'[e].flight = ssl[e].flight
           /\ ssl'[e].sealed = ssl[e].sealed /\ ssl'[e].opened = ssl[e].opened
  <2>1. /\ bioIn[e] \in Seq(Unit) /\ ssl[e].in \in Seq(Unit) /\ ssl[e].opened \in Nat
        /\ InEnd(e) \in Nat /\ pipe[e] \in Seq(Unit)
    BY Typed
  <2>2. PICK a \in Nat, m \in Nat, n \in Nat, l \in Nat :
          a = 2 * ssl[e].opened /\ m = Len(ssl[e].in) /\ n = Len(bioIn[e]) /\ l = Len(pipe[e])
    <3>1. 2 * ssl[e].opened \in Nat
      BY <2>1
    <3>2. Len(ssl[e].in) \in Nat /\ Len(bioIn[e]) \in Nat /\ Len(pipe[e]) \in Nat
      BY <2>1
    <3> QED  BY <3>1, <3>2, ZenonT(40)
  <2>3. Run(ssl[e].in, a) /\ Run(bioIn[e], a + m) /\ Run(pipe[e], a + m + n)
    BY <1>3, <2>2, Zenon DEF Received, InEnd, BioEnd
  <2>13. PICK b \in Nat : b = a + m
    OBVIOUS
  <2>14. Run(bioIn[e], b)
    BY <2>3, <2>13
  <2>15. /\ Head(bioIn[e]) \in Unit /\ Place(Head(bioIn[e])) = b + 1
         /\ Len(Tail(bioIn[e])) = Len(bioIn[e]) - 1 /\ Run(Tail(bioIn[e]), b + 1)
    BY <1>5, <2>1, <2>14, Shifted, Zenon
  <2>4. /\ Place(Head(bioIn[e])) = a + m + 1
        /\ Len(bioIn'[e]) = n - 1 /\ Run(bioIn'[e], a + m + 1)
    BY <1>5, <2>2, <2>13, <2>15, Zenon
  <2>5. Len(ssl'[e].in) = m + 1 /\ Run(ssl'[e].in, a)
    <3>1. Place(Head(bioIn[e])) = a + Len(ssl[e].in) + 1
      BY <2>2, <2>4
    <3>2. /\ Len(Append(ssl[e].in, Head(bioIn[e]))) = Len(ssl[e].in) + 1
          /\ Run(Append(ssl[e].in, Head(bioIn[e])), a)
      BY <2>1, <2>3, <2>15, <3>1, Extended, Zenon
    <3> QED  BY <1>5, <2>2, <3>2, Zenon
  <2>6. InEnd(e)' = a + m + 1
    <3>1. InEnd(e)' = 2 * ssl'[e].opened + Len(ssl'[e].in)
      BY Zenon DEF InEnd
    <3>2. 2 * ssl'[e].opened = a
      BY <1>5, <2>2, Zenon
    <3>3. InEnd(e)' = a + (m + 1)
      BY <2>5, <3>1, <3>2
    <3> QED  BY <3>3
  <2>7. BioEnd(e)' = a + m + n
    <3>1. BioEnd(e)' = InEnd(e)' + Len(bioIn'[e])
      BY DEF BioEnd
    <3>2. BioEnd(e)' = (a + m + 1) + (n - 1)
      BY <2>4, <2>6, <3>1
    <3> QED  BY <3>2
  <2>8. PipeEnd(e)' = PipeEnd(e)
    BY <1>1, <2>2, <2>7, Zenon DEF PipeEnd, BioEnd, InEnd
  <2>9. Received(e)'
    <3>1. Run(ssl'[e].in, 2 * ssl'[e].opened) /\ Run(bioIn'[e], InEnd(e)') /\ Run(pipe'[e], BioEnd(e)')
      BY <1>1, <1>5, <2>2, <2>3, <2>4, <2>5, <2>6, <2>7, ZenonT(40)
    <3> QED  BY <3>1, Zenon DEF Received, Run, Place
  <2>10. Stands(e, op[t])'
    BY <1>1, <1>2, <1>5, Zenon DEF Stands, Flushing, Usable, Known
  <2>11. Sends(e, op[t])'
    BY <1>1, <1>2, <1>4, <1>5, Zenon DEF Sends, Sending, Flushing
  <2>12. Counts(e, op[t])'
    BY <1>1, <1>2, <1>5, CountsSame, Zenon
  <2> QED  BY <1>1, <1>2, <1>4, <1>5, <2>8, <2>9, <2>10, <2>11, <2>12, ZenonT(40) DEF Kept, EndSound
<1>6. CASE Fields(t, "flush", "want_input") /\ bioIn[e] = <<>> /\ ssl' = ssl /\ bioIn' = bioIn
  <2>1. /\ op'[t].at = "flush" /\ op'[t].step = "want_input"
        /\ op'[t].kind = op[t].kind /\ op'[t].out = op[t].out /\ op'[t].sealed = op[t].sealed
    BY <1>6 DEF Fields
  <2>2. Received(e)' /\ PipeEnd(e)' = PipeEnd(e)
    BY <1>1, <1>3, <1>6, Still, Zenon
  <2>3. op[t].kind \in {"handshake", "read"}
    BY <1>1, Zenon DEF WantsRecord
  <2>4. Stands(e, op[t])'
    BY <1>1, <1>2, <1>6, <2>1, <2>3, Zenon DEF Stands, Flushing, Usable, Known
  <2>5. Sends(e, op[t])'
    BY <1>1, <1>2, <1>4, <1>6, <2>1, Zenon DEF Sends, Sending, Flushing
  <2>6. Counts(e, op[t])'
    BY <1>1, <1>2, <1>6, <2>1, CountsSame, Zenon
  <2>7. active'[e] = (op'[t].at # "none")
    BY <1>1, <1>2, <2>1, Zenon
  <2> QED  BY <1>1, <1>4, <2>2, <2>4, <2>5, <2>6, <2>7, ZenonT(40) DEF Kept, EndSound
<1> QED  BY <1>1, <1>5, <1>6, Zenon

\* flush() drains.
LEMMA DrainKeeps ==
  ASSUME Shape, Alone, EndsSound, NEW t \in Tasks, NEW e \in Ends, e = EndOf[t], Drain(t)
  PROVE  Kept(t, e)
<1>1. /\ OthersKept(t) /\ op[t].at = "flush" /\ op[t].out = <<>>
      /\ engine' = engine /\ active' = active /\ ssl' = ssl /\ bioIn' = bioIn /\ pipe' = pipe
      /\ got' = got /\ wrote' = wrote
      /\ op'[t].at = "flush" /\ op'[t].step = op[t].step /\ op'[t].kind = op[t].kind
      /\ op'[t].sealed = op[t].sealed /\ op'[t].out = bioOut[e] /\ bioOut'[e] = <<>>
  BY DrainEffect, Zenon
<1>2. /\ Received(e)' /\ Received(Peer(e))'
      /\ PipeEnd(e)' = PipeEnd(e) /\ PipeEnd(Peer(e))' = PipeEnd(Peer(e))
  BY <1>1, BothStill
<1>3. active[e] = TRUE /\ Stands(e, op[t]) /\ Sends(e, op[t]) /\ Counts(e, op[t])
  BY <1>1, InUse, Zenon DEF EndSound
<1>4. Stands(e, op[t])'
  BY <1>1, <1>3, StandsSame, Zenon
<1>5. Counts(e, op[t])'
  BY <1>1, <1>3, CountsSame, Zenon
<1>6. Sends(e, op[t])'
  <2>1. /\ PipeEnd(Peer(e)) \in Nat /\ bioOut[e] \in Seq(Unit) /\ ssl[e].sealed \in Nat /\ ssl[e].out \in Seq(Unit)
    BY Typed, PeerFacts, ZenonT(40)
  <2>2. PICK a \in Nat, m \in Nat, n \in Nat : a = PipeEnd(Peer(e)) /\ m = Len(bioOut[e]) /\ n = Len(ssl[e].out)
    BY <2>1
  <2>3. PICK x : /\ ~engine[e].failed => x = 2 * ssl[e].sealed
                 /\ op[t].step = "fatal" => x = 2 * ssl[e].sealed + 2
                 /\ Run(bioOut[e], a) /\ Run(ssl[e].out, a + m) /\ a + m + n = x
    <3>1. a = PipeEnd(Peer(e)) + Len(op[t].out)
      BY <1>1, <2>2, Nothing
    <3>2. PICK x : x = a + Len(bioOut[e]) + Len(ssl[e].out)
      BY Zenon
    <3>3. op[t].at = "flush" /\ Stands(e, op[t]) /\ Sends(e, op[t])
      BY <1>1, <1>3, Zenon
    <3>4. /\ ~engine[e].failed => x = 2 * ssl[e].sealed
          /\ op[t].step = "fatal" => x = 2 * ssl[e].sealed + 2
          /\ Run(bioOut[e], a) /\ Run(ssl[e].out, a + Len(bioOut[e]))
      BY <3>1, <3>2, <3>3, SendingNow, Zenon
    <3> QED  BY <2>2, <3>2, <3>4, ZenonT(40)
  <2>4. Len(op'[t].out) = m /\ Len(bioOut'[e]) = 0 /\ Len(ssl'[e].out) = n
    BY <1>1, <2>2, Nothing, Zenon
  <2>5. /\ Run(op'[t].out, PipeEnd(Peer(e))') /\ Run(bioOut'[e], a + m) /\ Run(ssl'[e].out, a + m + Len(bioOut'[e]))
        /\ a + m = PipeEnd(Peer(e))' + Len(op'[t].out)
        /\ a + m + Len(bioOut'[e]) + Len(ssl'[e].out) = x
    <3>1. a + m + 0 = a + m
      OBVIOUS
    <3>2. a + m + Len(bioOut'[e]) = a + m /\ a + m + Len(bioOut'[e]) + Len(ssl'[e].out) = a + m + n
      BY <2>4, <3>1, Zenon
    <3>3. PipeEnd(Peer(e))' = a /\ a + m = PipeEnd(Peer(e))' + Len(op'[t].out)
      BY <1>2, <2>2, <2>4, Zenon
    <3>4. Run(op'[t].out, PipeEnd(Peer(e))') /\ Run(bioOut'[e], a + m)
      BY <1>1, <2>3, <3>3, Nothing, Zenon
    <3>5. Run(ssl'[e].out, a + m + Len(bioOut'[e])) /\ a + m + Len(bioOut'[e]) + Len(ssl'[e].out) = x
      BY <1>1, <2>3, <3>2, Zenon
    <3> QED  BY <3>3, <3>4, <3>5, Zenon
  <2> QED  BY <1>1, <2>3, <2>5, SentNow, Zenon
<1> QED  BY <1>1, <1>2, <1>3, <1>4, <1>5, <1>6, ZenonT(40) DEF Kept, EndSound

\* The underlying stream takes some of it.
LEMMA WriteKeeps ==
  ASSUME Shape, Alone, EndsSound, NEW t \in Tasks, NEW e \in Ends, e = EndOf[t], WriteSome(t)
  PROVE  Kept(t, e)
<1>0. PICK p \in Ends : p = Peer(e) /\ p # e
  BY PeerFacts
<1>1. /\ OthersKept(t) /\ op[t].at = "flush"
      /\ engine' = engine /\ active' = active /\ ssl' = ssl /\ bioIn' = bioIn /\ bioOut' = bioOut
      /\ got' = got /\ wrote' = wrote
      /\ op'[t].at = "flush" /\ op'[t].step = op[t].step /\ op'[t].kind = op[t].kind
      /\ op'[t].sealed = op[t].sealed /\ pipe'[e] = pipe[e]
  BY <1>0, WriteEffect, Zenon
<1>2. PICK n \in 1 .. Len(op[t].out) :
        /\ pipe'[p] = pipe[p] \o SubSeq(op[t].out, 1, n)
        /\ op'[t].out = SubSeq(op[t].out, n + 1, Len(op[t].out))
  BY <1>0, WriteEffect, Zenon
<1>3. active[e] = TRUE /\ Stands(e, op[t]) /\ Sends(e, op[t]) /\ Counts(e, op[t])
  BY <1>1, InUse, Zenon DEF EndSound
<1>4. Received(e) /\ Received(p)
  BY <1>0, InUse, Zenon
<1>5. Received(e)' /\ PipeEnd(e)' = PipeEnd(e)
  BY <1>1, <1>4, Still, Zenon
<1>6. Stands(e, op[t])'
  BY <1>1, <1>3, StandsSame, Zenon
<1>7. Counts(e, op[t])'
  BY <1>1, <1>3, CountsSame, Zenon
<1>8. /\ PipeEnd(p) \in Nat /\ BioEnd(p) \in Nat /\ pipe[p] \in Seq(Unit) /\ op[t].out \in Seq(Unit)
      /\ Len(pipe[p]) \in Nat /\ Len(op[t].out) \in Nat
  <2>1. PipeEnd(p) \in Nat /\ BioEnd(p) \in Nat /\ pipe[p] \in Seq(Unit) /\ op[t].out \in Seq(Unit)
    BY Typed, Zenon
  <2> QED  BY <2>1
<1>9. PICK a \in Nat : a = PipeEnd(p) + Len(op[t].out)
  BY <1>8
<1>10. PICK x : /\ ~engine[e].failed => x = 2 * ssl[e].sealed
                /\ op[t].step = "fatal" => x = 2 * ssl[e].sealed + 2
                /\ Run(op[t].out, PipeEnd(p)) /\ Run(bioOut[e], a) /\ Run(ssl[e].out, a + Len(bioOut[e]))
                /\ a + Len(bioOut[e]) + Len(ssl[e].out) = x
  <2>1. op[t].at = "flush" /\ Stands(e, op[t]) /\ Sends(e, op[t]) /\ a = PipeEnd(Peer(e)) + Len(op[t].out)
    BY <1>0, <1>1, <1>3, <1>9, Zenon
  <2>2. PICK x : x = a + Len(bioOut[e]) + Len(ssl[e].out)
    BY Zenon
  <2>3. /\ ~engine[e].failed => x = 2 * ssl[e].sealed
        /\ op[t].step = "fatal" => x = 2 * ssl[e].sealed + 2
        /\ Run(op[t].out, PipeEnd(p)) /\ Run(bioOut[e], a) /\ Run(ssl[e].out, a + Len(bioOut[e]))
    BY <1>0, <2>1, <2>2, SendingNow, ZenonT(40)
  <2> QED  BY <2>2, <2>3, Zenon
<1>11. n \in 0 .. Len(op[t].out) /\ n \in Nat
  BY <1>2, <1>8
<1>12. /\ SubSeq(op[t].out, 1, n) \in Seq(Unit) /\ Len(SubSeq(op[t].out, 1, n)) = n
       /\ Run(SubSeq(op[t].out, 1, n), PipeEnd(p))
       /\ Len(SubSeq(op[t].out, n + 1, Len(op[t].out))) = Len(op[t].out) - n
       /\ Run(SubSeq(op[t].out, n + 1, Len(op[t].out)), PipeEnd(p) + n)
  BY <1>8, <1>10, <1>11, Torn, Zenon
<1>13. Run(pipe[p], BioEnd(p)) /\ PipeEnd(p) = BioEnd(p) + Len(pipe[p])
  BY <1>4, ZenonT(40) DEF Received, PipeEnd
<1>14. Len(pipe'[p]) = Len(pipe[p]) + n /\ Run(pipe'[p], BioEnd(p))
  <2>1. Run(SubSeq(op[t].out, 1, n), BioEnd(p) + Len(pipe[p]))
    BY <1>12, <1>13
  <2>2. PICK s \in Seq(Unit) : s = SubSeq(op[t].out, 1, n)
    BY <1>12, Zenon
  <2>3. Len(pipe[p] \o s) = Len(pipe[p]) + Len(s) /\ Run(pipe[p] \o s, BioEnd(p))
    BY <1>8, <1>13, <2>1, <2>2, Joined, ZenonT(40)
  <2> QED  BY <1>2, <1>12, <2>2, <2>3, ZenonT(40)
<1>15. InEnd(p)' = InEnd(p) /\ BioEnd(p)' = BioEnd(p)
  BY <1>1, Zenon DEF InEnd, BioEnd
<1>16. PipeEnd(p)' = PipeEnd(p) + n
  <2>1. PipeEnd(p)' = BioEnd(p)' + Len(pipe'[p])
    BY DEF PipeEnd
  <2> QED  BY <1>8, <1>11, <1>13, <1>14, <1>15, <2>1
<1>17. Received(p)'
  <2>1. Run(ssl'[p].in, 2 * ssl'[p].opened) /\ Run(bioIn'[p], InEnd(p)') /\ Run(pipe'[p], BioEnd(p)')
    BY <1>1, <1>4, <1>14, <1>15, Zenon DEF Received
  <2> QED  BY <2>1, Zenon DEF Received, Run, Place
<1>18. Sends(e, op[t])'
  <2>1. Len(op'[t].out) = Len(op[t].out) - n /\ Run(op'[t].out, PipeEnd(p)')
    BY <1>2, <1>12, <1>16, Zenon
  <2>2. a = PipeEnd(p)' + Len(op'[t].out)
    <3>1. PICK b \in Nat, l \in Nat : b = PipeEnd(p) /\ l = Len(op[t].out)
      BY <1>8, Zenon
    <3>2. b + l = (b + n) + (l - n)
      BY <1>11
    <3> QED  BY <1>9, <1>16, <2>1, <3>1, <3>2, Zenon
  <2> QED  BY <1>0, <1>1, <1>10, <2>1, <2>2, SentNow, Zenon
<1> QED  BY <1>0, <1>1, <1>3, <1>5, <1>6, <1>7, <1>17, <1>18, ZenonT(40) DEF Kept, EndSound

\* Nothing is left to flush.
LEMMA AfterFlushKeeps ==
  ASSUME Shape, Alone, EndsSound, NEW t \in Tasks, NEW e \in Ends, e = EndOf[t], AfterFlush(t)
  PROVE  Kept(t, e)
<1>1. /\ Shape' /\ OthersKept(t) /\ op[t].at = "flush" /\ op[t].out = <<>> /\ bioOut[e] = <<>>
      /\ engine' = engine /\ ssl' = ssl /\ bioIn' = bioIn /\ bioOut' = bioOut /\ pipe' = pipe
      /\ \/ op[t].step = "want_output" /\ Fields(t, "call", op[t].step) /\ active' = active
         \/ op[t].step = "want_input" /\ Fields(t, "receive", op[t].step) /\ active' = active
         \/ op[t].step \notin {"want_output", "want_input"} /\ Left(t)
  BY AfterFlushEffect, Zenon
<1>2. /\ got'[e] = IF op[t].step = "complete" /\ op[t].kind = "read" THEN got[e] + 1 ELSE got[e]
      /\ wrote'[e] = IF op[t].step = "complete" /\ op[t].kind = "write" THEN wrote[e] + 1 ELSE wrote[e]
  BY AfterFlushEffect, Zenon
<1>3. /\ Received(e)' /\ Received(Peer(e))'
      /\ PipeEnd(e)' = PipeEnd(e) /\ PipeEnd(Peer(e))' = PipeEnd(Peer(e))
  BY <1>1, BothStill, Zenon
<1>4. active[e] = TRUE /\ Stands(e, op[t]) /\ Sends(e, op[t]) /\ Counts(e, op[t])
  BY <1>1, InUse, Zenon DEF EndSound
<1>5. CASE op[t].step \in {"want_output", "want_input"}
  <2>1. /\ op'[t].at = IF op[t].step = "want_output" THEN "call" ELSE "receive"
        /\ op'[t].step = op[t].step /\ active' = active
        /\ op'[t].kind = op[t].kind /\ op'[t].out = op[t].out /\ op'[t].sealed = op[t].sealed
    BY <1>1, <1>5, Zenon DEF Fields
  <2>2. got'[e] = got[e] /\ wrote'[e] = wrote[e]
    BY <1>2, <1>5
  <2>3. Stands(e, op[t])'
    BY <1>1, <1>4, <1>5, <2>1, <2>2, Zenon DEF Stands, Flushing, Usable, Known
  <2>4. Sends(e, op[t])'
    BY <1>1, <1>3, <1>4, <1>5, <2>1, Zenon DEF Sends, Sending, Flushing
  <2>5. Counts(e, op[t])'
    BY <1>1, <1>4, <1>5, <2>1, <2>2, CountsSame, Zenon
  <2>6. active'[e] = (op'[t].at # "none")
    BY <1>4, <2>1, Zenon
  <2> QED  BY <1>1, <1>3, <2>3, <2>4, <2>5, <2>6, ZenonT(40) DEF Kept, EndSound
<1>6. CASE op[t].step \notin {"want_output", "want_input"}
  <2>1. Left(t)
    BY <1>1, <1>6, Zenon
  <2>2. op[t].step \in {"complete", "eof", "fatal"} /\ (op[t].step = "fatal" => engine[e].failed)
    <3>1. op[t] \in OpType
      BY Typed
    <3>2. op[t].step \in {"none", "complete", "eof", "want_output", "want_input", "fatal"}
      BY <3>1 DEF OpType
    <3> QED  BY <1>1, <1>4, <1>6, <3>2, ZenonT(40) DEF Stands, Flushing
  <2>3. ASSUME ~engine[e].failed
        PROVE  /\ bioOut'[e] = <<>> /\ ssl'[e].out = <<>> /\ PipeEnd(Peer(e))' = 2 * ssl'[e].sealed
               /\ ssl'[e].sealed = SealedFlights(e)' + wrote'[e] + One(engine'[e].shut)
               /\ ssl'[e].opened = OpenedFlights(e)' + got'[e] + One(engine'[e].eof)
    <3>1. /\ ssl[e].out = <<>> /\ (op[t].sealed => op[t].kind \in {"write", "shutdown"})
          /\ op[t].kind = "write" => op[t].step = "complete" /\ op[t].sealed
          /\ op[t].kind = "shutdown" => engine[e].shut
          /\ op[t].step = "eof" => op[t].kind = "read"
      BY <1>1, <1>4, <2>2, <2>3, Zenon DEF Stands, Flushing, Known
    <3>2. PipeEnd(Peer(e)) = 2 * ssl[e].sealed
      BY <1>1, <1>4, <2>3, <3>1, Settled, Zenon
    <3>3. SealedFlights(e)' = SealedFlights(e) /\ OpenedFlights(e)' = OpenedFlights(e)
      BY <1>1, Zenon DEF SealedFlights, OpenedFlights
    <3>4. SealedFlights(e) \in Nat /\ OpenedFlights(e) \in Nat
      BY Zenon DEF SealedFlights, OpenedFlights
    <3>5. wrote[e] \in Nat /\ got[e] \in Nat
      BY Typed, ZenonT(40)
    <3>6. PICK x \in {0, 1}, y \in {0, 1}, z \in {0, 1}, w \in {0, 1} :
            /\ x = One(op[t].kind = "write" /\ op[t].sealed)
            /\ y = One(engine[e].shut \/ (op[t].kind = "shutdown" /\ op[t].sealed)) /\ z = One(engine[e].eof)
            /\ w = One(Flushing(op[t], {"complete"}) /\ op[t].kind = "read")
      BY DEF One
    <3>7. ssl[e].sealed = SealedFlights(e) + wrote[e] + x + y /\ ssl[e].opened = OpenedFlights(e) + got[e] + w + z
      BY <1>4, <2>3, <3>6, ZenonT(40) DEF Counts
    <3>8. y = One(engine[e].shut) /\ wrote'[e] = wrote[e] + x
      <4>1. y = One(engine[e].shut) /\ x = IF op[t].step = "complete" /\ op[t].kind = "write" THEN 1 ELSE 0
        BY <3>1, <3>6, Zenon DEF One
      <4>2. wrote[e] + 0 = wrote[e]
        BY <3>5
      <4> QED  BY <1>2, <4>1, <4>2, Zenon
    <3>9. got'[e] = got[e] + w
      <4>1. w = IF op[t].step = "complete" /\ op[t].kind = "read" THEN 1 ELSE 0
        BY <1>1, <3>6, Zenon DEF One, Flushing
      <4>2. got[e] + 0 = got[e]
        BY <3>5
      <4> QED  BY <1>2, <4>1, <4>2, Zenon
    <3>10. /\ ssl[e].sealed = SealedFlights(e) + wrote'[e] + y
           /\ ssl[e].opened = OpenedFlights(e) + got'[e] + z
      <4>1. PICK f \in Nat, h \in Nat, i \in Nat, j \in Nat :
              f = SealedFlights(e) /\ h = OpenedFlights(e) /\ i = wrote[e] /\ j = got[e]
        BY <3>4, <3>5, Zenon
      <4>2. f + i + x + y = f + (i + x) + y /\ h + j + w + z = h + (j + w) + z
        OBVIOUS
      <4> QED  BY <3>7, <3>8, <3>9, <4>1, <4>2, Zenon
    <3> QED  BY <1>1, <1>3, <3>1, <3>2, <3>3, <3>6, <3>8, <3>10, Zenon
  <2>4. ~engine'[e].failed => ~engine[e].failed
    BY <1>1
  <2>5. EndSound(e, op[t])' /\ active'[e] = (op'[t].at # "none")
    BY <1>1, <2>1, <2>3, <2>4, LeaveKeeps, Zenon
  <2> QED  BY <1>1, <1>3, <2>5, Zenon DEF Kept
<1> QED  BY <1>5, <1>6

\* Ciphertext arrives.
LEMMA ReceiveKeeps ==
  ASSUME Shape, Alone, EndsSound, NEW t \in Tasks, NEW e \in Ends, e = EndOf[t], Receive(t)
  PROVE  Kept(t, e) /\ InputCapacity(e) # 0
<1>0. PICK p \in Ends : p = Peer(e) /\ p # e
  BY PeerFacts
<1>1. /\ OthersKept(t) /\ op[t].at = "receive"
      /\ ssl' = ssl /\ bioOut' = bioOut /\ got' = got /\ wrote' = wrote /\ pipe'[p] = pipe[p]
  BY <1>0, ReceiveEffect, Zenon
<1>2. active[e] = TRUE /\ Stands(e, op[t]) /\ Sends(e, op[t]) /\ Counts(e, op[t])
  BY <1>1, InUse, Zenon DEF EndSound
<1>3. bioIn[e] = <<>> /\ ~engine[e].failed /\ op[t].out = <<>>
  BY <1>1, <1>2, Zenon DEF Stands, Usable
<1>4. InputCapacity(e) # 0
  BY <1>3, Nothing, SizesAssumption DEF InputCapacity
<1>5. /\ engine' = engine /\ active' = active /\ Fields(t, "call", op[t].step)
      /\ \E n \in 1 .. Len(pipe[e]) :
           /\ n <= InputCapacity(e)
           /\ bioIn'[e] = bioIn[e] \o SubSeq(pipe[e], 1, n)
           /\ pipe'[e] = SubSeq(pipe[e], n + 1, Len(pipe[e]))
  BY <1>4, ReceiveEffect, Zenon
<1>6. PICK n \in 1 .. Len(pipe[e]) :
           /\ bioIn'[e] = bioIn[e] \o SubSeq(pipe[e], 1, n)
           /\ pipe'[e] = SubSeq(pipe[e], n + 1, Len(pipe[e]))
  BY <1>5, ZenonT(40)
<1>7. /\ op'[t].at = "call" /\ op'[t].step = op[t].step
      /\ op'[t].kind = op[t].kind /\ op'[t].out = op[t].out /\ op'[t].sealed = op[t].sealed
  BY <1>5 DEF Fields
<1>8. Received(e) /\ Received(p)
  BY <1>0, InUse, Zenon
<1>9. Received(p)' /\ PipeEnd(p)' = PipeEnd(p)
  <2>1. bioIn'[p] = bioIn[p]
    BY <1>0, <1>1, Zenon DEF OthersKept
  <2> QED  BY <1>1, <1>8, <2>1, Still, Zenon
<1>10. Stands(e, op[t])'
  BY <1>1, <1>2, <1>5, <1>7, Zenon DEF Stands, Flushing, Usable, Known
<1>11. Sends(e, op[t])'
  BY <1>0, <1>1, <1>2, <1>5, <1>7, <1>9, Zenon DEF Sends, Sending, Flushing
<1>12. Counts(e, op[t])'
  BY <1>1, <1>2, <1>5, <1>7, CountsSame, ZenonT(40)
<1>13. /\ InEnd(e) \in Nat /\ BioEnd(e) \in Nat /\ bioIn[e] \in Seq(Unit) /\ pipe[e] \in Seq(Unit)
       /\ Len(bioIn[e]) \in Nat /\ Len(pipe[e]) \in Nat
  <2>1. InEnd(e) \in Nat /\ BioEnd(e) \in Nat /\ bioIn[e] \in Seq(Unit) /\ pipe[e] \in Seq(Unit)
    BY Typed, Zenon
  <2> QED  BY <2>1
<1>14. n \in 0 .. Len(pipe[e]) /\ n \in Nat
  BY <1>6, <1>13
<1>15. Run(bioIn[e], InEnd(e)) /\ Run(pipe[e], BioEnd(e)) /\ BioEnd(e) = InEnd(e) + Len(bioIn[e])
  BY <1>8 DEF Received, BioEnd
<1>16. /\ SubSeq(pipe[e], 1, n) \in Seq(Unit) /\ Len(SubSeq(pipe[e], 1, n)) = n
       /\ Run(SubSeq(pipe[e], 1, n), BioEnd(e))
       /\ Len(SubSeq(pipe[e], n + 1, Len(pipe[e]))) = Len(pipe[e]) - n
       /\ Run(SubSeq(pipe[e], n + 1, Len(pipe[e])), BioEnd(e) + n)
  BY <1>13, <1>14, <1>15, Torn, Zenon
<1>17. Len(bioIn'[e]) = Len(bioIn[e]) + n /\ Run(bioIn'[e], InEnd(e))
  <2>1. PICK s \in Seq(Unit) : s = SubSeq(pipe[e], 1, n)
    BY <1>16, Zenon
  <2>2. Run(s, InEnd(e) + Len(bioIn[e]))
    BY <1>15, <1>16, <2>1, Zenon
  <2>3. Len(bioIn[e] \o s) = Len(bioIn[e]) + Len(s) /\ Run(bioIn[e] \o s, InEnd(e))
    BY <1>13, <1>15, <2>2, Joined, Zenon
  <2> QED  BY <1>6, <1>16, <2>1, <2>3, Zenon
<1>18. InEnd(e)' = InEnd(e)
  BY <1>1, Zenon DEF InEnd
<1>19. BioEnd(e)' = BioEnd(e) + n
  <2>1. BioEnd(e)' = InEnd(e)' + Len(bioIn'[e])
    BY Zenon DEF BioEnd
  <2> QED  BY <1>13, <1>14, <1>15, <1>17, <1>18, <2>1
<1>20. Len(pipe'[e]) = Len(pipe[e]) - n /\ Run(pipe'[e], BioEnd(e)')
  BY <1>6, <1>16, <1>19, Zenon
<1>21. PipeEnd(e)' = PipeEnd(e)
  <2>1. PipeEnd(e)' = BioEnd(e)' + Len(pipe'[e]) /\ PipeEnd(e) = BioEnd(e) + Len(pipe[e])
    BY DEF PipeEnd
  <2> QED  BY <1>13, <1>14, <1>19, <1>20, <2>1
<1>22. Received(e)'
  <2>1. Run(ssl'[e].in, 2 * ssl'[e].opened) /\ Run(bioIn'[e], InEnd(e)') /\ Run(pipe'[e], BioEnd(e)')
    BY <1>1, <1>8, <1>17, <1>18, <1>20, Zenon DEF Received
  <2> QED  BY <2>1, Zenon DEF Received, Run, Place
<1>23. active'[e] = (op'[t].at # "none")
  BY <1>2, <1>5, <1>7, Zenon
<1> QED  BY <1>0, <1>1, <1>4, <1>9, <1>10, <1>11, <1>12, <1>21, <1>22, <1>23, ZenonT(40) DEF Kept, EndSound

\* A wait is given up.
LEMMA AbandonKeeps ==
  ASSUME Shape, Alone, EndsSound, NEW t \in Tasks, NEW e \in Ends, e = EndOf[t],
         Truncated(t) \/ UnderlyingFails(t) \/ Destroy(t)
  PROVE  Kept(t, e)
<1>1. /\ Shape' /\ OthersKept(t) /\ op[t].at # "none" /\ engine'[e].failed /\ Left(t)
      /\ ssl' = ssl /\ bioIn' = bioIn /\ pipe' = pipe
  BY AbandonEffect, Zenon DEF EngineFails
<1>2. /\ Received(e)' /\ Received(Peer(e))' /\ PipeEnd(e)' = PipeEnd(e)
  BY <1>1, BothStill, Zenon
<1>3. EndSound(e, op[t])' /\ active'[e] = (op'[t].at # "none")
  BY <1>1, LeaveKeeps, Zenon
<1> QED  BY <1>1, <1>2, <1>3, Zenon DEF Kept

\* The two units OpenSSL looks at are the next record of the peer.
LEMMA NextRecord ==
  ASSUME Shape, NEW e \in Ends, Received(e), HasRecord(e)
  PROVE  /\ Opens(e) /\ ssl[e].in[1] \in Elems(ssl[e].in) /\ ssl[e].in[2] \in Elems(ssl[e].in)
         /\ ssl[e].in[1] \in Unit /\ ssl[e].in[2] \in Unit
         /\ ssl[e].in[1][2] = ssl[e].opened + 1 /\ ssl[e].in[1][3] = 1
         /\ ssl[e].in[2][2] = ssl[e].opened + 1 /\ ssl[e].in[2][3] = 2
<1>1. ssl[e].in \in Seq(Unit) /\ ssl[e].opened \in Nat
  BY Zenon DEF Shape, SslType
<1>2. PICK q \in Seq(Unit), n \in Nat : q = ssl[e].in /\ n = ssl[e].opened
  BY <1>1, Zenon
<1>3. Len(q) \in Nat /\ Len(q) >= 2 /\ 1 \in 1 .. Len(q) /\ 2 \in 1 .. Len(q)
  BY <1>2 DEF HasRecord
<1>4. Place(q[1]) = 2 * n + 1 /\ Place(q[2]) = 2 * n + 2
  BY <1>2, <1>3 DEF Received, Run
<1>5. q[1] \in Unit /\ q[2] \in Unit
  BY <1>3
<1>6. \A u \in Unit : u[2] \in Nat \ {0} /\ (u[3] = 1 \/ u[3] = 2)
  BY DEF Unit
<1>7. q[1][2] = n + 1 /\ q[1][3] = 1
  <2>1. PICK i \in Nat \ {0}, j \in {1, 2} : i = q[1][2] /\ j = q[1][3]
    BY <1>5, <1>6, Zenon
  <2>2. 2 * (i - 1) + j = 2 * n + 1
    BY <1>4, <2>1, Zenon DEF Place
  <2>3. CASE j = 1
    <3>1. 2 * i - 1 = 2 * n + 1
      BY <2>2, <2>3
    <3> QED  BY <2>1, <2>3, <3>1
  <2>4. CASE j = 2
    <3>1. 2 * i = 2 * n + 1
      BY <2>2, <2>4
    <3> QED  BY <2>1, <2>4, <3>1
  <2> QED  BY <2>3, <2>4, Zenon
<1>8. q[2][2] = n + 1 /\ q[2][3] = 2
  <2>1. PICK i \in Nat \ {0}, j \in {1, 2} : i = q[2][2] /\ j = q[2][3]
    BY <1>5, <1>6, Zenon
  <2>2. 2 * (i - 1) + j = 2 * n + 2
    BY <1>4, <2>1 DEF Place
  <2>3. CASE j = 1
    <3>1. 2 * i - 1 = 2 * n + 2
      BY <2>2, <2>3
    <3> QED  BY <2>1, <2>3, <3>1
  <2>4. CASE j = 2
    <3>1. 2 * i = 2 * n + 2
      BY <2>2, <2>4
    <3> QED  BY <2>1, <2>4, <3>1
  <2> QED  BY <2>3, <2>4, Zenon
<1>9. Opens(e)
  BY <1>2, <1>7, <1>8 DEF Opens
<1>10. q[1] \in Elems(q) /\ q[2] \in Elems(q)
  BY <1>3 DEF Elems
<1> QED  BY <1>2, <1>5, <1>7, <1>8, <1>9, <1>10, ZenonT(40)

\* Where a unit on its way is.
LEMMA InAway ==
  ASSUME NEW e \in Ends, NEW u
  PROVE  u \in Away(e) <=> \/ \E t \in Tasks : EndOf[t] = e /\ u \in Elems(op[t].out)
                           \/ u \in Elems(pipe[Peer(e)])
                           \/ u \in Elems(bioIn[Peer(e)])
                           \/ u \in Elems(ssl[Peer(e)].in)
<1>1. u \in Drained(e) <=> \E t \in Tasks : EndOf[t] = e /\ u \in Elems(op[t].out)
  BY Zenon DEF Drained
<1> QED  BY <1>1, Zenon DEF Away

\* What OpenSSL finds when it wants a record is one that it expects, or a certificate was rejected.
LEMMA Peeked ==
  ASSUME StreamInv, NEW t \in Tasks, NEW e \in Ends, NEW p \in Ends, e = EndOf[t], p = Peer(e),
         op[t].at = "ssl", WantsRecord(t), HasRecord(e)
  PROVE  /\ ~Fits(t, e) => rejected
         /\ op[t].kind = "read" /\ ssl[e].in[1][1] = "data" => got[e] < MaxWrites
         /\ op[t].kind = "read" /\ ssl[e].in[1][1] = "close" => engine[p].shut /\ got[e] = wrote[p]
<1>1. Shape /\ Alone /\ EndsSound /\ Early /\ Marked(p)
  BY Zenon DEF StreamInv
<1>2. Received(e) /\ Stands(e, op[t]) /\ Counts(e, op[t])
  BY <1>1, InUse, Zenon DEF EndSound
<1>3. PICK u, v, n : u = ssl[e].in[1] /\ v = ssl[e].in[2] /\ n = ssl[e].opened + 1
  BY Zenon
<1>4. /\ Opens(e) /\ u \in Elems(ssl[e].in) /\ v \in Elems(ssl[e].in) /\ u \in Unit
      /\ u[2] = n /\ v[2] = n /\ v[3] = 2
  BY <1>1, <1>2, <1>3, NextRecord, Zenon
<1>5. p # e /\ Peer(p) = e
  BY PeerFacts, Zenon
<1>6. u \in Units(p) /\ v \in Units(p) /\ v \in Away(p)
  <2>1. u \in Elems(ssl[Peer(p)].in) /\ v \in Elems(ssl[Peer(p)].in)
    BY <1>4, <1>5, ZenonT(40)
  <2>2. u \in Away(p) /\ v \in Away(p)
    BY <2>1, InAway
  <2> QED  BY <2>2, Zenon DEF Units
<1>7. /\ u[1] = "alert" => rejected
      /\ u[1] = "flight" => n <= Flights(p)
      /\ u[1] \in {"data", "close"} => n > Flights(p)
      /\ u[1] = "data" => n <= Flights(p) + MaxWrites
      /\ u[1] = "close" => n = ssl[p].sealed
  BY <1>1, <1>4, <1>6, ZenonT(40) DEF Marked
<1>8. u[1] = "close" => engine[p].shut
  <2>1. v[1] = u[1]
    BY <1>1, <1>4, <1>6, ZenonT(40) DEF Marked
  <2> QED  BY <1>1, <1>4, <1>6, <2>1, Zenon DEF Marked
<1>9. u[1] \in {"flight", "data", "close", "alert"}
  BY <1>4, Zenon DEF Unit, Whats
<1>10. /\ ssl[e].flight \in 0 .. 3 /\ ssl[e].opened \in Nat /\ got[e] \in Nat
       /\ ssl[p].sealed \in Nat /\ wrote[p] \in Nat
  BY <1>1, Typed, Zenon
<1>11. /\ Usable(e, op[t].kind) /\ ~Known(e, op[t].kind) /\ ~engine[e].failed
  BY <1>2, Zenon DEF Stands, Usable
<1>12. Flights(p) \in Nat /\ OpenedFlights(e) \in Nat
  BY ZenonT(40) DEF Flights, OpenedFlights
<1>13. ASSUME ~engine[e].eof PROVE n = OpenedFlights(e) + got[e] + 1
  <2>1. One(Flushing(op[t], {"complete"}) /\ op[t].kind = "read") = 0 /\ One(engine[e].eof) = 0
    BY <1>13, Zenon DEF One, Flushing
  <2>2. ssl[e].opened = OpenedFlights(e) + got[e] + 0 + 0
    BY <1>2, <1>11, <2>1, Zenon DEF Counts
  <2> QED  BY <1>3, <1>10, <1>12, <2>2
<1>14. CASE op[t].kind = "read"
  <2>1. ~engine[e].eof /\ engine[e].ready
    BY <1>11, <1>14, Zenon DEF Usable, Known
  <2>2. ssl[e].flight = 3
    BY <1>1, <2>1, Zenon DEF Early, Begun
  <2>3. OpenedFlights(e) = Flights(p)
    BY <1>5, <2>2 DEF OpenedFlights, Flights, Peer, Ends
  <2>4. n = Flights(p) + got[e] + 1
    BY <1>13, <2>1, <2>3, ZenonT(40)
  <2>5. u[1] # "flight"
    BY <1>7, <1>10, <1>12, <2>4
  <2>6. u[1] = "data" => got[e] < MaxWrites
    BY <1>7, <1>10, <1>12, <2>4, SizesAssumption
  <2>7. u[1] = "close" => got[e] = wrote[p]
    <3> SUFFICES ASSUME u[1] = "close" PROVE got[e] = wrote[p]
      OBVIOUS
    <3>1. ssl[p].sealed = Flights(p) + wrote[p] + 1
      BY <1>1, <1>8, Zenon DEF Early, Begun
    <3> QED  BY <1>7, <1>10, <1>12, <2>4, <3>1
  <2>8. ~Fits(t, e) => rejected
    BY <1>3, <1>4, <1>7, <1>9, <1>14, <2>5, ZenonT(40) DEF Fits
  <2> QED  BY <1>3, <1>8, <2>6, <2>7, <2>8, ZenonT(40)
<1>15. CASE op[t].kind # "read"
  <2>1. op[t].kind = "handshake" /\ ssl[e].flight < 3 /\ ~Mine(e)
    BY <1>15 DEF WantsRecord
  <2>2. ~engine[e].ready
    BY <1>11, <2>1, Zenon DEF Known
  <2>3. got[e] = 0 /\ ~engine[e].eof
    BY <1>1, <2>2, ZenonT(40) DEF Early, Begun
  <2>4. n = OpenedFlights(e) + 1
    BY <1>12, <1>13, <2>3
  <2>5. n <= Flights(p)
    <3>1. PICK f \in {0, 1, 2} : f = ssl[e].flight
      BY <1>10, <2>1
    <3>2. ~((f = 0 \/ f = 2) <=> e = "client")
      BY <2>1, <3>1 DEF Mine
    <3>3. e = "client" \/ e = "server"
      BY Zenon DEF Ends
    <3>4. CASE e = "client"
      BY <2>4, <3>1, <3>2, <3>4 DEF OpenedFlights, Flights, Peer
    <3>5. CASE e = "server"
      BY <2>4, <3>1, <3>2, <3>5 DEF OpenedFlights, Flights, Peer
    <3> QED  BY <3>3, <3>4, <3>5, ZenonT(40)
  <2>6. u[1] \in {"flight", "alert"}
    <3>1. n \in Nat
      BY <1>3, <1>10
    <3> QED  BY <1>7, <1>9, <1>12, <2>5, <3>1
  <2>7. ~Fits(t, e) => rejected
    BY <1>3, <1>4, <1>7, <1>15, <2>6, Zenon DEF Fits
  <2> QED  BY <1>15, <2>7, ZenonT(40)
<1> QED  BY <1>14, <1>15, Zenon

\* OpenSSL opens or rejects.
LEMMA OpenKeeps ==
  ASSUME StreamInv, NEW t \in Tasks, NEW e \in Ends, e = EndOf[t], SslOpen(t)
  PROVE  Kept(t, e)
<1>0. PICK p \in Ends : p = Peer(e) /\ p # e
  BY PeerFacts
<1>1. Shape /\ Alone /\ EndsSound
  BY Zenon DEF StreamInv
<1>2. /\ OthersKept(t) /\ op[t].at = "ssl" /\ ssl[e].out = <<>> /\ WantsRecord(t) /\ HasRecord(e)
      /\ bioIn' = bioIn /\ pipe' = pipe /\ got' = got /\ wrote' = wrote
      /\ Opened(t, e) \/ Refuses(t, e)
  BY <1>1, OpenEffect, Zenon
<1>3. active[e] = TRUE /\ Stands(e, op[t]) /\ Sends(e, op[t]) /\ Counts(e, op[t]) /\ Received(e) /\ Received(p)
  BY <1>0, <1>1, <1>2, InUse, Zenon DEF EndSound
<1>4. /\ Usable(e, op[t].kind) /\ ~Known(e, op[t].kind) /\ ~engine[e].failed /\ op[t].out = <<>>
      /\ op[t].kind \in {"read", "handshake"} /\ ~op[t].sealed
  BY <1>2, <1>3, Zenon DEF Stands, Usable, WantsRecord
<1>5. Received(p)' /\ PipeEnd(p)' = PipeEnd(p)
  <2>1. ssl'[p] = ssl[p]
    BY <1>0, <1>2, Zenon DEF OthersKept
  <2> QED  BY <1>2, <1>3, <2>1, Still, Zenon
<1>6. /\ PipeEnd(p) \in Nat /\ bioOut[e] \in Seq(Unit) /\ ssl[e].sealed \in Nat
      /\ wrote[e] \in Nat /\ got[e] \in Nat /\ ssl[e].opened \in Nat /\ ssl[e].in \in Seq(Unit)
  BY <1>1, Typed, Zenon
<1>7. CASE Refuses(t, e)
  <2>1. /\ op'[t].at = "flush" /\ op'[t].step = "fatal" /\ active' = active /\ ssl' = ssl /\ engine'[e].failed
        /\ op'[t].kind = op[t].kind /\ op'[t].out = op[t].out /\ op'[t].sealed = op[t].sealed
        /\ bioOut'[e] = bioOut[e] \o Record(e, "alert")
    BY <1>7, Zenon DEF Refuses, Fields, EngineFails
  <2>2. Received(e)' /\ PipeEnd(e)' = PipeEnd(e)
    BY <1>2, <1>3, <2>1, Still, Zenon
  <2>3. Stands(e, op[t])'
    BY <1>4, <2>1, Zenon DEF Stands, Flushing
  <2>4. Counts(e, op[t])'
    BY <2>1, Zenon DEF Counts
  <2>5. Sends(e, op[t])'
    <3>1. PICK a \in Nat, m \in Nat, n \in Nat : a = PipeEnd(p) /\ m = Len(bioOut[e]) /\ n = ssl[e].sealed
      BY <1>6
    <3>2. Run(bioOut[e], a) /\ a + m = 2 * n
      <4>1. op[t].out = <<>> /\ ssl[e].out = <<>> /\ ~engine[e].failed /\ Sends(e, op[t]) /\ a = PipeEnd(Peer(e))
        BY <1>0, <1>2, <1>3, <1>4, <3>1, Zenon
      <4>2. PipeEnd(Peer(e)) \in Nat /\ Len(bioOut[e]) \in Nat
        BY <3>1, <4>1, Zenon
      <4>3. Run(bioOut[e], PipeEnd(Peer(e))) /\ PipeEnd(Peer(e)) + Len(bioOut[e]) = 2 * ssl[e].sealed
        BY <4>1, <4>2, LastSent, Zenon
      <4> QED  BY <3>1, <4>1, <4>3, Zenon
    <3>3. PICK r \in Seq(Unit) : r = Record(e, "alert") /\ Run(r, 2 * n) /\ Len(r) = 2
      <4>1. "alert" \in Whats
        BY DEF Whats
      <4>2. /\ Record(e, "alert") \in Seq(Unit) /\ Len(Record(e, "alert")) = 2
            /\ Run(Record(e, "alert"), 2 * ssl[e].sealed)
        BY <1>6, <4>1, Records, ZenonT(40)
      <4> QED  BY <3>1, <4>2, Zenon
    <3>4. Run(r, a + Len(bioOut[e]))
      BY <3>1, <3>2, <3>3, Zenon
    <3>5. Len(bioOut'[e]) = Len(bioOut[e]) + Len(r) /\ Run(bioOut'[e], a)
      <4>1. PICK b \in Seq(Unit) : b = bioOut[e]
        BY <1>6
      <4>2. Run(b, a) /\ Run(r, a + Len(b)) /\ bioOut'[e] = b \o r
        BY <2>1, <3>2, <3>3, <3>4, <4>1, ZenonT(40)
      <4>3. Len(b \o r) = Len(b) + Len(r) /\ Run(b \o r, a)
        BY <4>2, Joined
      <4> QED  BY <4>1, <4>2, <4>3, Zenon
    <3>6. Len(op'[t].out) = 0 /\ Run(op'[t].out, PipeEnd(p)') /\ Len(ssl'[e].out) = 0
          /\ Run(ssl'[e].out, a + Len(bioOut'[e]))
      BY <1>2, <1>4, <2>1, Nothing, ZenonT(40)
    <3>7. a = PipeEnd(p)' + Len(op'[t].out)
      BY <1>5, <3>1, <3>6
    <3>8. Len(bioOut'[e]) = m + 2
      BY <3>1, <3>3, <3>5, Zenon
    <3>9. a + Len(bioOut'[e]) + Len(ssl'[e].out) = 2 * ssl'[e].sealed + 2
      <4>1. ssl'[e].sealed = n /\ Len(bioOut'[e]) = m + 2 /\ Len(ssl'[e].out) = 0 /\ a + m = 2 * n
        BY <2>1, <3>1, <3>2, <3>6, <3>8, ZenonT(40)
      <4>2. a + (m + 2) + 0 = 2 * n + 2
        BY <4>1
      <4> QED  BY <4>1, <4>2
    <3> QED  BY <1>0, <2>1, <3>5, <3>6, <3>7, <3>9, SentNow, ZenonT(40)
  <2>6. active'[e] = (op'[t].at # "none")
    BY <1>3, <2>1, Zenon
  <2> QED  BY <1>0, <1>2, <1>5, <2>2, <2>3, <2>4, <2>5, <2>6, ZenonT(40) DEF Kept, EndSound
<1>8. CASE Opened(t, e)
  <2>1. /\ bioOut' = bioOut /\ active' = active
        /\ ssl'[e].in = SubSeq(ssl[e].in, 3, Len(ssl[e].in)) /\ ssl'[e].opened = ssl[e].opened + 1
        /\ ssl'[e].out = ssl[e].out /\ ssl'[e].sealed = ssl[e].sealed
        /\ engine'[e].ready = engine[e].ready /\ engine'[e].failed = engine[e].failed
        /\ engine'[e].shut = engine[e].shut
    BY <1>8, Zenon DEF Opened
  <2>2. \/ /\ ssl[e].in[1][1] = "data" /\ op[t].kind = "read" /\ Fields(t, "flush", "complete")
           /\ ssl'[e].flight = ssl[e].flight /\ engine'[e].eof = engine[e].eof
        \/ /\ ssl[e].in[1][1] = "close" /\ op[t].kind = "read" /\ Fields(t, "flush", "eof")
           /\ ssl'[e].flight = ssl[e].flight /\ engine'[e].eof
        \/ /\ ssl[e].in[1][1] = "flight" /\ op[t].kind = "handshake" /\ op' = op
           /\ ssl'[e].flight = ssl[e].flight + 1 /\ engine'[e].eof = engine[e].eof
           /\ ssl[e].flight < 3 /\ ~Mine(e)
    BY <1>8, Zenon DEF Opened
  <2>3. op[t].kind = "read" /\ ssl[e].in[1][1] = "data" => got[e] < MaxWrites
    BY <1>0, <1>2, Peeked, Zenon
  <2>4. Received(e)' /\ PipeEnd(e)' = PipeEnd(e)
    <3>0. PICK q \in Seq(Unit) : q = ssl[e].in
      BY <1>6, ZenonT(40)
    <3>1. PICK n \in Nat, m \in Nat : n = ssl[e].opened /\ m = Len(q)
      BY <1>6
    <3>2. m >= 2 /\ Run(q, 2 * n) /\ 2 * n \in Nat /\ 2 \in 0 .. Len(q)
      <4>1. Len(ssl[e].in) >= 2 /\ Run(ssl[e].in, 2 * ssl[e].opened)
        BY <1>2, <1>3, Zenon DEF HasRecord, Received
      <4>2. m >= 2 /\ Run(q, 2 * n)
        BY <3>0, <3>1, <4>1, Zenon
      <4>3. 2 * n \in Nat /\ 2 \in 0 .. m
        BY <4>2
      <4> QED  BY <3>1, <4>2, <4>3, Zenon
    <3>3. /\ Len(SubSeq(q, 2 + 1, Len(q))) = Len(q) - 2
          /\ Run(SubSeq(q, 2 + 1, Len(q)), 2 * n + 2)
      BY <3>2, Torn, ZenonT(40)
    <3>4. SubSeq(q, 2 + 1, Len(q)) = ssl'[e].in
      BY <2>1, <3>0
    <3>5. Len(ssl'[e].in) = m - 2 /\ Run(ssl'[e].in, 2 * ssl'[e].opened) /\ ssl'[e].opened = n + 1
      <4>1. ssl'[e].opened = n + 1 /\ 2 * (n + 1) = 2 * n + 2
        BY <2>1, <3>1
      <4> QED  BY <3>1, <3>3, <3>4, <4>1, ZenonT(40)
    <3>6. InEnd(e)' = InEnd(e)
      <4>1. InEnd(e)' = 2 * ssl'[e].opened + Len(ssl'[e].in) /\ InEnd(e) = 2 * n + m
        BY <3>0, <3>1, Zenon DEF InEnd
      <4>2. 2 * (n + 1) + (m - 2) = 2 * n + m
        OBVIOUS
      <4> QED  BY <3>5, <4>1, <4>2, Zenon
    <3>7. BioEnd(e)' = BioEnd(e)
      BY <1>2, <3>6, ZenonT(40) DEF BioEnd
    <3>8. PipeEnd(e)' = PipeEnd(e)
      BY <1>2, <3>7, Zenon DEF PipeEnd
    <3>9. Run(bioIn'[e], InEnd(e)') /\ Run(pipe'[e], BioEnd(e)')
      BY <1>2, <1>3, <3>6, <3>7, ZenonT(40) DEF Received
    <3> QED  BY <3>5, <3>8, <3>9, Zenon DEF Received, Run, Place
  <2>5. SealedFlights(e) \in Nat /\ OpenedFlights(e) \in Nat
    BY Zenon DEF SealedFlights, OpenedFlights
  <2>6. PICK s \in Nat, n \in Nat, z \in {0, 1} :
          s = SealedFlights(e) /\ n = OpenedFlights(e) /\ z = One(engine[e].shut)
    BY <2>5 DEF One
  <2>7. ssl[e].sealed = s + wrote[e] + z /\ (~engine[e].eof => ssl[e].opened = n + got[e])
    <3>1. /\ One(Flushing(op[t], {"complete"}) /\ op[t].kind = "read") = 0
          /\ One(op[t].kind = "write" /\ op[t].sealed) = 0
          /\ One(engine[e].shut \/ (op[t].kind = "shutdown" /\ op[t].sealed)) = z
          /\ ~engine[e].eof => One(engine[e].eof) = 0
      BY <1>2, <1>4, <2>6, Zenon DEF One, Flushing
    <3>2. /\ ssl[e].sealed = s + wrote[e] + 0 + z
          /\ ssl[e].opened = n + got[e] + 0 + One(engine[e].eof)
      BY <1>3, <1>4, <2>6, <3>1, Zenon DEF Counts
    <3>3. PICK i \in Nat, j \in Nat : i = wrote[e] /\ j = got[e]
      BY <1>6, Zenon
    <3>4. s + i + 0 + z = s + i + z /\ n + j + 0 + 0 = n + j
      OBVIOUS
    <3> QED  BY <3>1, <3>2, <3>3, <3>4, Zenon
  <2>8. ~engine[e].eof
    BY <1>4 DEF Usable, Known
  <2>9. CASE /\ op[t].kind = "read" /\ Fields(t, "flush", "complete") /\ ssl[e].in[1][1] = "data"
             /\ ssl'[e].flight = ssl[e].flight /\ engine'[e].eof = engine[e].eof
    <3>1. /\ op'[t].at = "flush" /\ op'[t].step = "complete"
          /\ op'[t].kind = op[t].kind /\ op'[t].out = op[t].out /\ op'[t].sealed = op[t].sealed
      BY <2>9, Zenon DEF Fields
    <3>2. Stands(e, op[t])'
      BY <1>2, <1>4, <2>1, <2>3, <2>8, <2>9, <3>1, ZenonT(40) DEF Stands, Flushing, Usable, Known
    <3>3. Sends(e, op[t])'
      BY <1>0, <1>2, <1>3, <1>5, <2>1, <3>1, ZenonT(40) DEF Sends, Sending, Flushing
    <3>4. SealedFlights(e)' = s /\ OpenedFlights(e)' = n
      BY <2>6, <2>9, Zenon DEF SealedFlights, OpenedFlights
    <3>5. /\ One(Flushing(op[t], {"complete"})' /\ op'[t].kind = "read") = 1
          /\ One(op'[t].kind = "write" /\ op'[t].sealed) = 0
          /\ One(engine'[e].shut \/ (op'[t].kind = "shutdown" /\ op'[t].sealed)) = z
          /\ One(engine'[e].eof) = 0
      BY <1>4, <2>1, <2>6, <2>8, <2>9, <3>1, ZenonT(40) DEF One, Flushing
    <3>6. /\ ssl'[e].sealed = s + wrote'[e] + 0 + z
          /\ ssl'[e].opened = n + got'[e] + 1 + 0
      <4>1. PICK i \in Nat, j \in Nat : i = wrote[e] /\ j = got[e]
        BY <1>6, Zenon
      <4>2. s + i + 0 + z = s + i + z /\ n + j + 1 + 0 = (n + j) + 1
        OBVIOUS
      <4>3. /\ wrote'[e] = i /\ got'[e] = j
            /\ ssl'[e].sealed = s + i + z /\ ssl'[e].opened = (n + j) + 1
        BY <1>2, <2>1, <2>7, <2>8, <4>1, ZenonT(40)
      <4> QED  BY <4>2, <4>3, Zenon
    <3>7. Counts(e, op[t])'
      BY <3>4, <3>5, <3>6, Zenon DEF Counts
    <3>8. active'[e] = (op'[t].at # "none")
      BY <1>3, <2>1, <3>1, ZenonT(40)
    <3> QED  BY <1>0, <1>2, <1>5, <2>4, <3>2, <3>3, <3>7, <3>8, ZenonT(40) DEF Kept, EndSound
  <2>10. CASE /\ op[t].kind = "read" /\ Fields(t, "flush", "eof")
              /\ ssl'[e].flight = ssl[e].flight /\ engine'[e].eof
    <3>1. /\ op'[t].at = "flush" /\ op'[t].step = "eof"
          /\ op'[t].kind = op[t].kind /\ op'[t].out = op[t].out /\ op'[t].sealed = op[t].sealed
      BY <2>10, Zenon DEF Fields
    <3>2. Stands(e, op[t])'
      BY <1>2, <1>4, <2>1, <2>10, <3>1, ZenonT(40) DEF Stands, Flushing, Usable, Known
    <3>3. Sends(e, op[t])'
      BY <1>0, <1>2, <1>3, <1>5, <2>1, <3>1, ZenonT(40) DEF Sends, Sending, Flushing
    <3>4. SealedFlights(e)' = s /\ OpenedFlights(e)' = n
      BY <2>6, <2>10, Zenon DEF SealedFlights, OpenedFlights
    <3>5. /\ One(Flushing(op[t], {"complete"})' /\ op'[t].kind = "read") = 0
          /\ One(op'[t].kind = "write" /\ op'[t].sealed) = 0
          /\ One(engine'[e].shut \/ (op'[t].kind = "shutdown" /\ op'[t].sealed)) = z
          /\ One(engine'[e].eof) = 1
      BY <1>4, <2>1, <2>6, <2>10, <3>1, ZenonT(40) DEF One, Flushing
    <3>6. /\ ssl'[e].sealed = s + wrote'[e] + 0 + z
          /\ ssl'[e].opened = n + got'[e] + 0 + 1
      <4>1. PICK i \in Nat, j \in Nat : i = wrote[e] /\ j = got[e]
        BY <1>6, Zenon
      <4>2. s + i + 0 + z = s + i + z /\ n + j + 0 + 1 = (n + j) + 1
        OBVIOUS
      <4>3. /\ wrote'[e] = i /\ got'[e] = j
            /\ ssl'[e].sealed = s + i + z /\ ssl'[e].opened = (n + j) + 1
        BY <1>2, <2>1, <2>7, <2>8, <4>1, Zenon
      <4> QED  BY <4>2, <4>3, Zenon
    <3>7. Counts(e, op[t])'
      BY <3>4, <3>5, <3>6, Zenon DEF Counts
    <3>8. active'[e] = (op'[t].at # "none")
      BY <1>3, <2>1, <3>1, Zenon
    <3> QED  BY <1>0, <1>2, <1>5, <2>4, <3>2, <3>3, <3>7, <3>8, ZenonT(40) DEF Kept, EndSound
  <2>11. CASE /\ op[t].kind = "handshake" /\ op' = op
              /\ ssl'[e].flight = ssl[e].flight + 1 /\ engine'[e].eof = engine[e].eof
              /\ ssl[e].flight < 3 /\ ~Mine(e)
    <3>2. Stands(e, op[t])'
      BY <1>2, <1>3, <2>1, <2>11, ZenonT(40) DEF Stands, Flushing, Usable, Known
    <3>3. Sends(e, op[t])'
      BY <1>0, <1>2, <1>3, <1>5, <2>1, <2>11, ZenonT(40) DEF Sends, Sending, Flushing
    <3>4. SealedFlights(e)' = s /\ OpenedFlights(e)' = n + 1
      BY <1>1, <2>6, <2>11, FlightTurns, Zenon
    <3>5. /\ One(Flushing(op[t], {"complete"})' /\ op'[t].kind = "read") = 0
          /\ One(op'[t].kind = "write" /\ op'[t].sealed) = 0
          /\ One(engine'[e].shut \/ (op'[t].kind = "shutdown" /\ op'[t].sealed)) = z
          /\ One(engine'[e].eof) = 0
      BY <1>4, <2>1, <2>6, <2>8, <2>11, Zenon DEF One, Flushing
    <3>6. /\ ssl'[e].sealed = s + wrote'[e] + 0 + z
          /\ ssl'[e].opened = n + 1 + got'[e] + 0 + 0
      <4>1. /\ ssl'[e].sealed = s + wrote'[e] + z /\ wrote'[e] \in Nat /\ got'[e] \in Nat
            /\ ssl'[e].opened = n + got'[e] + 1
        BY <1>2, <1>6, <2>1, <2>7, <2>8, Zenon
      <4>2. PICK i \in Nat, j \in Nat : i = wrote'[e] /\ j = got'[e]
        BY <4>1, Zenon
      <4>3. s + i + 0 + z = s + i + z /\ n + 1 + j + 0 + 0 = n + j + 1
        OBVIOUS
      <4> QED  BY <4>1, <4>2, <4>3, Zenon
    <3>7. Counts(e, op[t])'
      BY <3>4, <3>5, <3>6, Zenon DEF Counts
    <3>8. active'[e] = (op'[t].at # "none")
      BY <1>2, <1>3, <2>1, <2>11, Zenon
    <3> QED  BY <1>0, <1>2, <1>5, <2>4, <3>2, <3>3, <3>7, <3>8, ZenonT(40) DEF Kept, EndSound
  <2> QED  BY <2>2, <2>9, <2>10, <2>11, Zenon
<1> QED  BY <1>2, <1>7, <1>8, Zenon

-----------------------------------------------------------------------------
(* The records by number.                                                  *)

\* No unit is new, and what the kinds of the units rest on is kept.
LEMMA MarkedMoved ==
  ASSUME NEW x \in Ends, Marked(x), Units(x)' \subseteq Units(x),
         \A u \in Away(x)' : u[1] = "close" /\ u[3] = 2 => engine'[x].shut,
         rejected => rejected', engine[x].failed => engine'[x].failed, engine[x].shut => engine'[x].shut,
         ssl'[x].sealed = ssl[x].sealed, Able(x)' => Able(x), Able(x)' /\ Closing(x) => Closing(x)'
  PROVE  Marked(x)'
<1>1. ASSUME NEW u \in Units(x)'
      PROVE  /\ u[1] = "alert" => rejected' /\ engine'[x].failed
             /\ u[1] = "flight" => u[2] <= Flights(x)
             /\ u[1] \in {"data", "close"} => u[2] > Flights(x)
             /\ u[1] # "alert" => u[2] <= ssl'[x].sealed
             /\ u[1] = "data" => u[2] <= Flights(x) + MaxWrites
             /\ u[1] = "close" => u[2] = ssl'[x].sealed /\ (Able(x)' => Closing(x)')
  <2>1. u \in Units(x)
    BY <1>1, Zenon
  <2>2. /\ u[1] = "alert" => rejected /\ engine[x].failed
        /\ u[1] = "flight" => u[2] <= Flights(x)
        /\ u[1] \in {"data", "close"} => u[2] > Flights(x)
        /\ u[1] # "alert" => u[2] <= ssl[x].sealed
        /\ u[1] = "data" => u[2] <= Flights(x) + MaxWrites
        /\ u[1] = "close" => u[2] = ssl[x].sealed /\ (Able(x) => Closing(x))
    BY <2>1, Zenon DEF Marked
  <2> QED  BY <2>2, Zenon
<1>2. \A u, v \in Units(x)' : u[2] = v[2] => u[1] = v[1]
  BY Zenon DEF Marked
<1>3. Flights(x)' = Flights(x)
  BY Zenon DEF Flights
<1> QED  BY <1>1, <1>2, <1>3, Zenon DEF Marked

\* Nothing leaves the buffers of the end.
LEMMA MarkedKept ==
  ASSUME NEW x \in Ends, Marked(x), Units(x)' \subseteq Units(x), Away(x)' \subseteq Away(x),
         rejected => rejected', engine[x].failed => engine'[x].failed, engine[x].shut => engine'[x].shut,
         ssl'[x].sealed = ssl[x].sealed, Able(x)' => Able(x), Able(x)' /\ Closing(x) => Closing(x)'
  PROVE  Marked(x)'
<1>1. \A u \in Away(x)' : u[1] = "close" /\ u[3] = 2 => engine'[x].shut
  BY Zenon DEF Marked
<1> QED  BY <1>1, MarkedMoved, Zenon

\* What an end has on its way is taken further by its peer.
LEMMA PeerMarked ==
  ASSUME NEW t \in Tasks, NEW e \in Ends, NEW p \in Ends, e = EndOf[t], p = Peer(e), Marked(p), OthersKept(t),
         rejected => rejected',
         \A u : u \in Elems(pipe'[e]) \/ u \in Elems(bioIn'[e]) \/ u \in Elems(ssl'[e].in) =>
                u \in Elems(pipe[e]) \/ u \in Elems(bioIn[e]) \/ u \in Elems(ssl[e].in)
  PROVE  Marked(p)'
<1>1. p # e /\ Peer(p) = e
  BY PeerFacts, Zenon
<1>2. engine'[p] = engine[p] /\ ssl'[p] = ssl[p] /\ bioOut'[p] = bioOut[p]
  BY <1>1, Zenon DEF OthersKept
<1>3. \A s \in Tasks : EndOf[s] = p => op'[s] = op[s]
  BY <1>1, Zenon DEF OthersKept
<1>4. ASSUME NEW u \in Away(p)' PROVE u \in Away(p)
  <2>1. \/ \E s \in Tasks : EndOf[s] = p /\ u \in Elems(op'[s].out)
        \/ u \in Elems(pipe'[e]) \/ u \in Elems(bioIn'[e]) \/ u \in Elems(ssl'[e].in)
    <3>1. u \in Drained(p)' => \E s \in Tasks : EndOf[s] = p /\ u \in Elems(op'[s].out)
      BY Zenon DEF Drained, Elems
    <3>2. \/ u \in Drained(p)'
          \/ u \in Elems(pipe'[Peer(p)]) \/ u \in Elems(bioIn'[Peer(p)]) \/ u \in Elems(ssl'[Peer(p)].in)
      BY <1>4, Zenon DEF Away, Elems
    <3> QED  BY <1>1, <3>1, <3>2, Zenon
  <2>2. \/ \E s \in Tasks : EndOf[s] = p /\ u \in Elems(op[s].out)
        \/ u \in Elems(pipe[e]) \/ u \in Elems(bioIn[e]) \/ u \in Elems(ssl[e].in)
    <3>1. \A s \in Tasks : EndOf[s] = p => Elems(op'[s].out) = Elems(op[s].out)
      BY <1>3, Zenon
    <3> QED  BY <2>1, <3>1, Zenon
  <2> QED  BY <1>1, <2>2, InAway, Zenon
<1>5. Units(p)' \subseteq Units(p)
  <2>1. Elems(ssl[p].out)' = Elems(ssl[p].out) /\ Elems(bioOut[p])' = Elems(bioOut[p])
    BY <1>2, Zenon
  <2> QED  BY <1>4, <2>1, Zenon DEF Units
<1>6. Able(p)' => Able(p)
  BY <1>2, <1>3, Zenon DEF Able, Flushing
<1>7. Closing(p) => Closing(p)'
  BY <1>2, <1>3, Zenon DEF Closing
<1> QED  BY <1>2, <1>4, <1>5, <1>6, <1>7, MarkedKept, Zenon

\* What an end has on its way after a step of its task.
LEMMA OwnAway ==
  ASSUME NEW t \in Tasks, NEW e \in Ends, NEW p \in Ends, e = EndOf[t], p = Peer(e), OthersKept(t)
  PROVE  /\ \A u \in Away(e)' : u \in Elems(op'[t].out) \/ u \in Elems(pipe'[p]) \/ u \in Away(e)
         /\ \A u : u \in Elems(op[t].out) \/ u \in Elems(pipe[p]) => u \in Away(e)
<1>1. p # e
  BY PeerFacts
<1>2. ssl'[p] = ssl[p] /\ bioIn'[p] = bioIn[p]
  BY <1>1, Zenon DEF OthersKept
<1>3. ASSUME NEW u \in Away(e)' PROVE u \in Elems(op'[t].out) \/ u \in Elems(pipe'[p]) \/ u \in Away(e)
  <2>1. \/ \E s \in Tasks : EndOf[s] = e /\ u \in Elems(op'[s].out)
        \/ u \in Elems(pipe'[p]) \/ u \in Elems(bioIn'[p]) \/ u \in Elems(ssl'[p].in)
    <3>1. u \in Drained(e)' => \E s \in Tasks : EndOf[s] = e /\ u \in Elems(op'[s].out)
      BY Zenon DEF Drained, Elems
    <3>2. \/ u \in Drained(e)'
          \/ u \in Elems(pipe'[Peer(e)]) \/ u \in Elems(bioIn'[Peer(e)]) \/ u \in Elems(ssl'[Peer(e)].in)
      BY <1>3, Zenon DEF Away, Elems
    <3> QED  BY <3>1, <3>2, Zenon
  <2>2. CASE \E s \in Tasks : EndOf[s] = e /\ u \in Elems(op'[s].out)
    <3>1. PICK s \in Tasks : EndOf[s] = e /\ u \in Elems(op'[s].out)
      BY <2>2, Zenon
    <3>2. s # t => op'[s] = op[s]
      BY Zenon DEF OthersKept
    <3>3. s # t => u \in Elems(op[s].out)
      BY <3>1, <3>2, Zenon
    <3> QED  BY <3>1, <3>3, InAway, Zenon
  <2>3. CASE u \in Elems(pipe'[p])
    BY <2>3, ZenonT(40)
  <2>4. CASE u \in Elems(bioIn'[p]) \/ u \in Elems(ssl'[p].in)
    <3>1. u \in Elems(bioIn[p]) \/ u \in Elems(ssl[p].in)
      BY <1>2, <2>4, Zenon
    <3> QED  BY <3>1, InAway, Zenon
  <2> QED  BY <2>1, <2>2, <2>3, <2>4, Zenon
<1>4. ASSUME NEW u, u \in Elems(op[t].out) \/ u \in Elems(pipe[p]) PROVE u \in Away(e)
  BY <1>4, InAway
<1> QED  BY <1>3, <1>4, Zenon

\* A shutdown that has sealed its record stays, completes, or leaves a failed engine.
LEMMA OwnClosing ==
  ASSUME Alone, NEW t \in Tasks, NEW e \in Ends, e = EndOf[t], OthersKept(t),
         engine[e].failed => engine'[e].failed, engine[e].shut => engine'[e].shut,
         Flushing(op[t], {"fatal"})' => Flushing(op[t], {"fatal"}) \/ ~engine[e].failed,
         op[t].kind = "shutdown" /\ op[t].sealed =>
           \/ engine'[e].shut \/ (op'[t].kind = "shutdown" /\ op'[t].sealed)
           \/ engine'[e].failed /\ op'[t].at = "none"
  PROVE  (Able(e)' => Able(e)) /\ (Able(e)' /\ Closing(e) => Closing(e)')
<1>1. \A s \in Tasks : s # t => op'[s] = op[s]
  BY Zenon DEF OthersKept
<1>2. Able(e)' => Able(e)
  <2> SUFFICES ASSUME Able(e)' PROVE Able(e)
    OBVIOUS
  <2>1. CASE ~engine'[e].failed
    BY <2>1, ZenonT(40) DEF Able
  <2>2. CASE \E s \in Tasks : EndOf[s] = e /\ Flushing(op[s], {"fatal"})'
    <3>1. PICK s \in Tasks : EndOf[s] = e /\ Flushing(op[s], {"fatal"})'
      BY <2>2, Zenon
    <3>2. CASE s = t
      BY <3>1, <3>2, Zenon DEF Able
    <3>3. CASE s # t
      <4>1. Flushing(op[s], {"fatal"})
        BY <1>1, <3>1, <3>3, Zenon DEF Flushing
      <4> QED  BY <3>1, <4>1, Zenon DEF Able
    <3> QED  BY <3>2, <3>3
  <2> QED  BY <2>1, <2>2, ZenonT(40) DEF Able
<1>3. ASSUME Able(e)', Closing(e) PROVE Closing(e)'
  <2>1. CASE engine[e].shut
    BY <2>1, Zenon DEF Closing
  <2>2. CASE \E s \in Tasks : EndOf[s] = e /\ op[s].kind = "shutdown" /\ op[s].sealed
    <3>1. PICK s \in Tasks : EndOf[s] = e /\ op[s].kind = "shutdown" /\ op[s].sealed
      BY <2>2, Zenon
    <3>2. CASE s # t
      BY <1>1, <3>1, <3>2, Zenon DEF Closing
    <3>3. CASE s = t
      <4>1. op[t].at # "none"
        <5>1. op[t].kind # "none"
          BY <3>1, <3>3, Zenon
        <5> QED  BY <5>1, NoOpFields, ZenonT(40) DEF Alone
      <4>2. ~(engine'[e].failed /\ op'[t].at = "none")
        <5> SUFFICES ASSUME engine'[e].failed, op'[t].at = "none" PROVE FALSE
          OBVIOUS
        <5>1. PICK v \in Tasks : EndOf[v] = e /\ Flushing(op[v], {"fatal"})'
          BY <1>3, Zenon DEF Able
        <5>2. op'[v].at = "flush"
          BY <5>1, ZenonT(40) DEF Flushing
        <5>3. v # t /\ op[v].at = "flush"
          BY <1>1, <5>2, ZenonT(40)
        <5>4. op[v].at # "none"
          BY <5>3, Zenon
        <5>5. EndOf[v] = EndOf[t]
          BY <5>1
        <5>6. v = t
          BY <4>1, <5>4, <5>5, Zenon DEF Alone
        <5> QED  BY <5>3, <5>6, ZenonT(40)
      <4> QED  BY <3>1, <3>3, <4>2, Zenon DEF Closing
    <3> QED  BY <3>2, <3>3, Zenon
  <2> QED  BY <1>3, <2>1, <2>2, Zenon DEF Closing
<1> QED  BY <1>2, <1>3, Zenon

\* The units of an end move on in a step of its task, and none is new.
LEMMA OwnMarked ==
  ASSUME Alone, NEW t \in Tasks, NEW e \in Ends, NEW p \in Ends, e = EndOf[t], p = Peer(e), OthersKept(t),
         Marked(e), rejected => rejected', ssl'[e].sealed = ssl[e].sealed,
         engine[e].failed => engine'[e].failed, engine[e].shut => engine'[e].shut,
         Flushing(op[t], {"fatal"})' => Flushing(op[t], {"fatal"}) \/ ~engine[e].failed,
         op[t].kind = "shutdown" /\ op[t].sealed =>
           \/ engine'[e].shut \/ (op'[t].kind = "shutdown" /\ op'[t].sealed)
           \/ engine'[e].failed /\ op'[t].at = "none",
         \A u : u \in Elems(op'[t].out) \/ u \in Elems(pipe'[p]) => u \in Elems(op[t].out) \/ u \in Elems(pipe[p]),
         \A u : u \in Elems(ssl'[e].out) \/ u \in Elems(bioOut'[e]) => u \in Elems(ssl[e].out) \/ u \in Elems(bioOut[e])
  PROVE  Marked(e)'
<1>1. Away(e)' \subseteq Away(e)
  BY OwnAway, Zenon
<1>2. Units(e)' \subseteq Units(e)
  BY <1>1, Zenon DEF Units, Elems
<1>3. (Able(e)' => Able(e)) /\ (Able(e)' /\ Closing(e) => Closing(e)')
  BY OwnClosing, Zenon
<1> QED  BY <1>1, <1>2, <1>3, MarkedKept, Zenon

=============================================================================
