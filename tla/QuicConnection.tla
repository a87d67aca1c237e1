--------------------------- MODULE QuicConnection ---------------------------
(***************************************************************************)
(* quic::Connection and http3::Connection: an engine driven by one caller  *)
(* over a datagram transport.  The two classes have the same pump; layer   *)
(* says which of them runs.  A call is a coroutine: it tries to take what  *)
(* it is after from the per-stream buffers, and pumps a round when there   *)
(* is nothing.  The peer, its packets and the clock are the environment.   *)
(***************************************************************************)
EXTENDS Http3Engine, SequencesExt

CONSTANTS
  Kinds,        \* [layer: {"quic", "http3"}, server: BOOLEAN, idle: Nat]: the connections to explore
  Streams,      \* [{"quic", "http3"} -> SUBSET Ids]: the streams to use
  Length,       \* [Ids -> Nat]: units the peer sends on a stream of quic; on http3's it sends Message
  Calls,        \* [op, deadline] of the calls that wait; Never is no deadline
  Writes,       \* [id, n, fin] that quic's caller may write
  MaxWritten,   \* bound on what it writes to a stream
  Bodies,       \* body sizes of http3's messages
  FlushLimit,   \* packets per flush (64 in the code)
  MaxTime,      \* bound on the clock
  MaxFrames,    \* bound on the frames of a datagram
  MaxUpsets     \* bound on what disturbs the traffic: blocked streams, failed polls, sends and
                \* receives, stray datagrams, resets, cancels, GOAWAY and close of either side

VARIABLES
  layer, eng,   \* the class and its engine; quic::Connection uses eng.t only
  buffers,      \* [Ids -> Seq(event)]: buffers_
  pc, call,     \* where the running call is, and what it is: [op, id, deadline]
  wake, due,    \* deadline of the wait; a timer was already due when it began
  skipped,      \* the last attempt to take removed an event of no interest
  now, frames, upsets,
  peer,         \* [Ids -> [used, sent, ended, reset]]: what the peer has done on a stream
  held,         \* [Ids -> Nat]: units the caller has and has not consumed
  got,          \* [Ids -> Nat]: units the caller was given
  dropped,      \* [Ids -> Nat]: units taken by a call that then failed
  told,         \* [Ids -> {"", "fin", "reset", "cancelled"}]: the first end the caller was given
  missed,       \* streams with an end that was taken by a call that then failed
  rounds,       \* rounds since the clock moved or a datagram came
  late          \* something was written to a stream that had closed

kept == <<held, got, dropped, told, missed>>
wait == <<wake, due, skipped>>
vars == <<layer, eng, buffers, pc, call, wait, now, frames, upsets, peer, kept, rounds, late>>

Http == layer = "http3"
Q == eng.t
Zero == [i \in Ids |-> 0]
Idle == [op |-> "none", id |-> 0, deadline |-> Never]
Finished(e) == IF Http THEN HttpOver(e) ELSE Over(e.t)

\* connect() and serve() are the first call.
Init ==
  /\ \E kind \in Kinds : layer = kind.layer /\ eng = NewHttp(kind.server, kind.idle)
  /\ \E c \in Calls : c.op = "connect" /\ call = [op |-> c.op, id |-> 0, deadline |-> c.deadline]
  /\ buffers = [i \in Ids |-> <<>>] /\ pc = "take" /\ wake = Never /\ due = FALSE /\ skipped = FALSE
  /\ now = 0 /\ frames = 0 /\ upsets = 0 /\ rounds = 0 /\ late = FALSE
  /\ peer = [i \in Ids |-> [used |-> FALSE, sent |-> 0, ended |-> FALSE, reset |-> FALSE]]
  /\ held = Zero /\ got = Zero /\ dropped = Zero /\ told = [i \in Ids |-> ""] /\ missed = {}

-----------------------------------------------------------------------------
(* flush and collect_events.                                                *)

Late(deadline) == deadline <= now

\* The engine when it is about to make its first packet.
Ripe(e) == IF Http THEN HttpPoll(e) ELSE e

Polled(e, limit, mute) == [e EXCEPT !.t = PollAll(@, limit, mute, now)]

\* What a flush of a ripe engine comes to.  how: it "works"; the engine is "over" and refuses to be
\* polled; a packet is "late" because the deadline has passed; the k-th packet, or the k-th poll,
\* fails.  mute: the streams that are blocked meanwhile.
Flushes(e, deadline) ==
  LET calm == upsets = MaxUpsets
      mutes == IF calm THEN {{}} ELSE SUBSET Ready(e.t) \cup {Ids}
      tooLate == {mute \in mutes : Late(deadline) /\ Sends(e.t, mute)}
      steps == {s \in [k : 1 .. FlushLimit, mute : mutes \ tooLate] :
                  ~calm /\ Sends(Polled(e, s.k - 1, s.mute).t, s.mute)}
      first == IF calm THEN {} ELSE [k : {1}, mute : mutes]
      as(how, s) == [how |-> how, k |-> s.k, mute |-> s.mute]
  IN IF Finished(e) THEN {as("over", s) : s \in [k : {0}, mute : {{}}]}
     ELSE {as("works", s) : s \in [k : {FlushLimit}, mute : mutes \ tooLate]}
          \cup {as("late", s) : s \in [k : {1}, mute : tooLate]}
          \cup {as("send", s) : s \in steps} \cup {as("poll", s) : s \in steps \cup first}

Works(f) == f.how = "works"

\* The engine after it.
Left(e, f) ==
  CASE f.how = "over" -> e
    [] f.how = "poll" -> [Polled(e, f.k - 1, f.mute) EXCEPT !.t = Failing(@, "poll"), !.failed = @ \/ Http]
    [] OTHER          -> Polled(e, f.k, f.mute)

Upset == upsets < MaxUpsets /\ upsets' = upsets + 1

Allowed(f) ==
  /\ upsets' = upsets + (IF f.how \in {"send", "poll"} THEN 1 ELSE 0) + (IF f.mute = {} THEN 0 ELSE 1)
  /\ upsets' <= MaxUpsets

Bears(e, f) == Allowed(f) /\ eng' = Left(e, f)

Events(e) == IF Http THEN e.events ELSE e.t.events
Taken(e) == IF Http THEN TakeHttpEvents(e) ELSE [e EXCEPT !.t.events = <<>>]

\* Slip: what the buffers still hold for the stream is replaced.
Collected_Replace(e, b) ==
  [i \in Ids |-> LET new == SelectSeq(Events(e), LAMBDA x : x.id = i) IN IF new = <<>> THEN b[i] ELSE new]

Collected(e, b) == [i \in Ids |-> b[i] \o SelectSeq(Events(e), LAMBDA x : x.id = i)]

-----------------------------------------------------------------------------
(* Taking from the buffer of a stream.                                      *)

Nothing(rest, skip) == [found |-> FALSE, n |-> 0, end |-> "", rest |-> rest, skipped |-> skip]
Found(n, end, rest) == [found |-> TRUE, n |-> n, end |-> end, rest |-> rest, skipped |-> FALSE]

TakeChunk(queue) ==
  LET e == Head(queue) IN
  IF queue = <<>> THEN Nothing(queue, FALSE)
  ELSE CASE e.kind = "data"   -> Found(e.n, IF e.fin THEN "fin" ELSE "", Tail(queue))
         [] e.kind = "reset"  -> Found(0, "reset", Tail(queue))
         [] e.kind = "closed" -> Found(0, "fin", Tail(queue))
         [] OTHER             -> Nothing(Tail(queue), TRUE)

\* The first head, wherever it is; a reset before it is an empty head and stays.
TakeHead(queue) ==
  LET at == {k \in DOMAIN queue : queue[k].kind \in {"headers", "reset"}} IN
  IF at = {} THEN Nothing(queue, FALSE)
  ELSE Found(0, "", IF queue[Min(at)].kind = "reset" THEN queue ELSE RemoveAt(queue, Min(at)))

\* The end and a reset both are the end of the body; anything else in front is discarded.
TakeBody(queue) ==
  LET e == Head(queue) IN
  IF queue = <<>> THEN Nothing(queue, FALSE)
  ELSE CASE e.kind = "body"             -> Found(e.n, "", Tail(queue))
         [] e.kind \in {"end", "reset"} -> Found(0, "fin", Tail(queue))
         [] OTHER                       -> Nothing(Tail(queue), TRUE)

Attempt(op, queue) ==
  CASE op = "read" -> TakeChunk(queue) [] op = "head" -> TakeHead(queue) [] op = "body" -> TakeBody(queue)

-----------------------------------------------------------------------------
(* The running call.                                                        *)

Succeed == pc' = "idle" /\ call' = Idle
Fail == pc' = (IF call.op = "connect" THEN "gone" ELSE "idle") /\ call' = Idle
Again == IF call.op = "pump" THEN Succeed ELSE pc' = "take" /\ UNCHANGED call
World == UNCHANGED <<layer, now, peer, late>>

\* A call's locals go with it, and those of a round with the round.
WaitOver == wake' = Never /\ due' = FALSE /\ skipped' = FALSE
CountRounds(n) == rounds' = IF pc' = "idle" THEN 0 ELSE n

Start(c, id) ==
  /\ pc = "idle" /\ c.op \in (IF Http THEN {"pump", "head", "body"} ELSE {"pump", "read"})
  /\ id \in Streams[layer] /\ (c.op = "pump" => id = Min(Streams[layer]))
  /\ call' = [op |-> c.op, id |-> id, deadline |-> c.deadline]
  /\ pc' = IF c.op = "pump" THEN "round" ELSE "take"
  /\ UNCHANGED <<eng, buffers, wait, frames, upsets, kept, rounds>> /\ World

\* pump_until: the handshake, and http3's control streams, are done.
ConnectDone ==
  /\ pc = "take" /\ call.op = "connect"
  /\ IF (IF Http THEN HttpReady(eng) ELSE ~Q.failed /\ Q.ready) THEN Succeed ELSE pc' = "round" /\ UNCHANGED call
  /\ CountRounds(rounds) /\ UNCHANGED <<eng, buffers, wait, frames, upsets, kept>> /\ World

\* What was taken is given to the caller only if the flush that follows works.
Give(t) ==
  /\ Succeed
  /\ got' = [got EXCEPT ![call.id] = @ + t.n] /\ held' = [held EXCEPT ![call.id] = @ + t.n]
  /\ told' = [told EXCEPT ![call.id] = IF @ = "" THEN t.end ELSE @]
  /\ UNCHANGED <<dropped, missed>>

Drop(t) ==
  /\ Fail
  /\ dropped' = [dropped EXCEPT ![call.id] = @ + t.n]
  /\ missed' = IF t.end = "" THEN missed ELSE missed \cup {call.id}
  /\ UNCHANGED <<held, got, told>>

\* The flush after a successful attempt.
Handed(e, t) ==
  \E f \in Flushes(e, call.deadline) : Bears(e, f) /\ IF Works(f) THEN Give(t) ELSE Drop(t)

TryTake ==
  /\ pc = "take" /\ call.op # "connect"
  /\ LET t == Attempt(call.op, buffers[call.id]) IN
       /\ buffers' = [buffers EXCEPT ![call.id] = t.rest]
       /\ \/ ~t.found /\ pc' = "round" /\ skipped' = t.skipped /\ UNCHANGED <<eng, call, wake, due, upsets, kept>>
          \/ t.found /\ Handed(Ripe(eng), t) /\ UNCHANGED wait
  /\ CountRounds(rounds) /\ UNCHANGED frames /\ World

\* Slip: the caller's own deadline is not looked at before the wait.
Armed_NoCheck(expiry) ==
  /\ wake' = IF expiry > now THEN Min({call.deadline, expiry}) ELSE call.deadline
  /\ due' = (expiry <= now) /\ pc' = "wait" /\ UNCHANGED <<call, skipped>>

\* The deadline of the wait: the caller's, or that of a timer that is still to come.
Armed(expiry) ==
  IF Late(call.deadline) THEN Fail /\ WaitOver
  ELSE /\ wake' = IF expiry > now THEN Min({call.deadline, expiry}) ELSE call.deadline
       /\ due' = (expiry <= now) /\ pc' = "wait" /\ UNCHANGED <<call, skipped>>

\* do_pump from the first flush to the wait.
Waits(e) == eng' = Taken(e) /\ buffers' = Collected(e, buffers) /\ Armed(Expiry(e.t))

Pumped(e) == \E f \in Flushes(e, call.deadline) : Works(f) /\ Allowed(f) /\ Waits(Left(e, f))

Round ==
  /\ pc = "round" /\ Pumped(Ripe(eng))
  /\ CountRounds(rounds + 1) /\ UNCHANGED <<frames, kept>> /\ World

Refused(e) == \E f \in Flushes(e, call.deadline) : ~Works(f) /\ Bears(e, f)

RoundFails ==
  /\ pc = "round" /\ Fail /\ Refused(Ripe(eng))
  /\ WaitOver /\ CountRounds(rounds) /\ UNCHANGED <<buffers, frames, kept>> /\ World

\* The flush that ends a round, and the way back into the caller's loop.
Flushed(e) ==
  \E f \in Flushes(e, call.deadline) : Bears(e, f) /\ IF Works(f) THEN Again ELSE Fail

TimerArmed == ~due /\ Expiry(Q) # Never

\* handle_expiry of either engine.
Expired(e) ==
  LET t == HandleExpiry(e.t, now) IN [e EXCEPT !.t = t, !.failed = @ \/ (Http /\ t.failed)]

\* The wait reaches its deadline: the caller's if a timer is armed and the caller's comes first.
TimedOut ==
  /\ pc = "wait" /\ Late(wake)
  /\ IF TimerArmed /\ wake = call.deadline THEN Fail /\ UNCHANGED <<eng, upsets>>
     ELSE IF Expired(eng).t.failed THEN Fail /\ eng' = Expired(eng) /\ UNCHANGED upsets
     ELSE Flushed(Ripe(Expired(eng)))
  /\ WaitOver /\ CountRounds(rounds) /\ UNCHANGED <<buffers, frames, kept>> /\ World

-----------------------------------------------------------------------------
(* What a wait is answered with.                                            *)

\* A client drops a datagram from elsewhere; or receiving fails.
Stray ==
  /\ pc = "wait" /\ Upset /\ rounds' = 0
  /\ ((~Q.server /\ Again) \/ Fail)
  /\ WaitOver /\ UNCHANGED <<eng, buffers, frames, kept>> /\ World

Read(t) == eng' = [eng EXCEPT !.t = t]

Arrives(t) == Read(Heard(t, now))

Handshake == ~Q.ready /\ Arrives([Q EXCEPT !.ready = TRUE, !.owed = TRUE]) /\ UNCHANGED <<peer, upsets>>

\* The peer uses its own streams within its credit, and ours once it knows of them.
PeerKnows(id) ==
  /\ Q.ready /\ id \in Streams[layer]
  /\ IF id \in DOMAIN Q.conn THEN IsPeers(Q, id) \/ Q.conn[id].sent > 0 \/ Q.conn[id].finSent
     ELSE IsPeers(Q, id) /\ ~peer[id].used /\ Q.credit > 0

DataFrame(id) ==
  LET last == peer[id].sent + 1 = (IF Http THEN Len(Message) ELSE Length[id]) IN
  /\ PeerKnows(id) /\ ~peer[id].ended /\ Q.window > 0
  /\ Arrives(ReadStream(Q, id, 1, last))
  /\ peer' = [peer EXCEPT ![id] = [@ EXCEPT !.used = TRUE, !.sent = @ + 1, !.ended = last]] /\ UNCHANGED upsets

\* It gives up sending on a stream, or both ways.
ResetFrame(id) ==
  /\ PeerKnows(id) /\ ~peer[id].ended /\ Upset
  /\ \E q \in {Q, ReadStop(Q, id)} : Arrives(ReadReset(q, id))
  /\ peer' = [peer EXCEPT ![id] = [@ EXCEPT !.used = TRUE, !.ended = TRUE, !.reset = TRUE]]

StopFrame(id) ==
  /\ PeerKnows(id) /\ Upset /\ Arrives(ReadStop(Q, id))
  /\ peer' = [peer EXCEPT ![id].used = TRUE]

AckFrame(id) ==
  /\ id \in DOMAIN Q.conn /\ Unacked(Q.conn[id])
  /\ Arrives(ReadAck(Q, id)) /\ UNCHANGED <<peer, upsets>>

\* nghttp3 reads GOAWAY from the control stream.
GoawayFrame ==
  /\ Http /\ HttpReady(eng) /\ ~eng.remoteGoing /\ Upset
  /\ eng' = PeerGoesAway([eng EXCEPT !.t = Heard(@, now)], Max(Streams[layer])) /\ UNCHANGED peer

CloseFrame == Upset /\ Read([Q EXCEPT !.ended = TRUE]) /\ UNCHANGED peer

\* The next frame of the datagram that arrived.
Feed ==
  /\ pc = "wait" \/ (pc = "feed" /\ frames < MaxFrames)
  /\ ~Over(Q) /\ pc' = "feed" /\ frames' = frames + 1
  /\ \/ Handshake \/ GoawayFrame \/ CloseFrame
     \/ \E id \in Ids : DataFrame(id) \/ ResetFrame(id) \/ StopFrame(id) \/ AckFrame(id)
  /\ WaitOver /\ UNCHANGED <<layer, now, late, buffers, call, kept, rounds>>

Received == IF Http THEN Process(eng) ELSE eng
ReceiveFails == IF Http THEN ProcessFails(Received) \/ Q.failed ELSE Q.failed

\* Slip: the events stay in the engine until the next round.
Fed_LateCollect ==
  /\ pc = "feed" /\ rounds' = 0 /\ frames' = 0
  /\ IF ReceiveFails
     THEN Fail /\ eng' = [Received EXCEPT !.failed = @ \/ (Http /\ Q.failed)] /\ UNCHANGED <<buffers, upsets>>
     ELSE Flushed(Ripe(Received)) /\ UNCHANGED buffers
  /\ UNCHANGED <<wait, kept>> /\ World

\* The datagram is over: receive returns, the events are collected, the answer is flushed.
Fed ==
  /\ pc = "feed" /\ rounds' = 0 /\ frames' = 0
  /\ IF ReceiveFails
     THEN Fail /\ eng' = [Received EXCEPT !.failed = @ \/ (Http /\ Q.failed)] /\ UNCHANGED <<buffers, upsets>>
     ELSE Flushed(Ripe(Taken(Received))) /\ buffers' = Collected(Received, buffers)
  /\ UNCHANGED <<wait, kept>> /\ World

-----------------------------------------------------------------------------
(* Calls that do not wait, made between the others.                         *)

Between == pc = "idle" /\ UNCHANGED <<layer, now, pc, call, wait, frames, rounds, buffers>>

FlushedNow(e) == \E f \in Flushes(e, Never) : Bears(e, f)

Unused(id) == id \in Streams[layer] /\ ~peer[id].used /\ peer' = [peer EXCEPT ![id].used = TRUE]

OpenOne(id) ==
  /\ Between /\ ~Http /\ MayOpen(Q, id) /\ Unused(id)
  /\ Read(OpenStream(Q, id)) /\ UNCHANGED <<upsets, kept, late>>

WriteSome(w) ==
  /\ Between /\ ~Http /\ MayWrite(Q, w.id, w.n) /\ Q.streams[w.id].end + w.n <= MaxWritten
  /\ FlushedNow(Ripe([eng EXCEPT !.t = Write(@, w.id, w.n, w.fin)]))
  /\ late' = (late \/ w.id \notin DOMAIN Q.conn)
  /\ UNCHANGED <<peer, kept>>

ConsumeSome(id) ==
  /\ Between /\ held[id] > 0 /\ held' = [held EXCEPT ![id] = 0]
  /\ IF Http THEN MayConsumeBody(eng, id, held[id]) /\ eng' = ConsumeBody(eng, id, held[id])
     ELSE MayConsume(Q, id, held[id]) /\ Read(Consume(Q, id, held[id]))
  /\ UNCHANGED <<upsets, peer, got, dropped, told, missed, late>>

CancelOne(id) ==
  /\ Between /\ Upset
  /\ IF Http THEN MayCancelBody(eng, id) /\ eng' = CancelBody(eng, id)
     ELSE ~Over(Q) /\ id \in DOMAIN Q.conn \cup DOMAIN Q.streams /\ Read(Cancel(Q, id))
  /\ told' = [told EXCEPT ![id] = IF @ = "" THEN "cancelled" ELSE @]
  /\ UNCHANGED <<peer, held, got, dropped, missed, late>>

\* request() leaves the flush to the next call; respond() flushes.
Ask(id, body) ==
  /\ Between /\ Http /\ MayRequest(eng, id, body) /\ Unused(id)
  /\ eng' = Request(eng, id, body) /\ UNCHANGED <<upsets, kept, late>>

Answer(id, body) ==
  LET s == SubmitMessage(eng, id, body) IN
  /\ Between /\ Http /\ MayRespond(eng, id, body)
  /\ late' = (late \/ s.failed)
  /\ IF s.failed THEN eng' = s /\ UNCHANGED upsets ELSE FlushedNow(Ripe(s))
  /\ UNCHANGED <<peer, kept>>

\* shutdown_notice, and then shutdown.
GoAway ==
  /\ Between /\ Http /\ HttpReady(eng) /\ ~eng.final
  /\ \/ ~eng.going /\ Upset /\ eng' = ShutdownNotice(eng)
     \/ eng.going /\ UNCHANGED upsets /\ eng' = Shutdown(eng)
  /\ UNCHANGED <<peer, kept, late>>

Close ==
  /\ Between /\ Upset /\ eng' = (IF Http THEN HttpClose(eng) ELSE [eng EXCEPT !.t = CloseEngine(@)])
  /\ UNCHANGED <<peer, kept, late>>

Tick ==
  /\ now < MaxTime /\ now' = now + 1 /\ rounds' = 0
  /\ pc = "idle" \/ (pc = "wait" /\ ~Late(wake))
  /\ UNCHANGED <<layer, eng, buffers, pc, call, wait, frames, upsets, peer, kept, late>>

Next ==
  \/ \E c \in Calls, id \in Ids : Start(c, id)
  \/ ConnectDone \/ TryTake \/ Round \/ RoundFails \/ TimedOut \/ Stray \/ Feed \/ Fed
  \/ \E id \in Ids : OpenOne(id) \/ ConsumeSome(id) \/ CancelOne(id)
  \/ \E w \in Writes : WriteSome(w)
  \/ \E id \in Ids, body \in Bodies : Ask(id, body) \/ Answer(id, body)
  \/ GoAway \/ Close \/ Tick

Spec == Init /\ [][Next]_vars

-----------------------------------------------------------------------------
(* Properties.                                                              *)

Units(queue) == SumOf(queue, LAMBDA e : IF e.kind \in {"data", "body"} THEN e.n ELSE 0)
Of(queue, id) == SelectSeq(queue, LAMBDA e : e.id = id)
Unread(id) ==
  LET records == IF Http THEN eng.streams ELSE Q.streams
  IN IF id \in DOMAIN records THEN records[id].unread ELSE 0

\* The budgets of both engines (buffered, received; output_bytes, input_bytes, header_bytes) are
\* exactly what their records and events hold, until a failed callback the window offered to the
\* peer is what is left of the budget, and HTTP/3's unread bytes of a stream are QUIC's, however
\* streams end and calls fail.  Two exceptions are the code's.  write() takes data for a stream that
\* has closed with data unread, and the consume() that erases the record does not give the budget
\* back.  And header_bytes keeps the fields of every block that a reset or a cancel cut short: no
\* stream_close() gives them back.
BudgetsExact ==
  /\ QuicType(Q) /\ QuicExact(Q) /\ (Q.buffered = ChunkUnits(Q) \/ late)
  /\ Http => HttpExact(eng)

\* What may have to be sent again is still there: write()'s chunks until they are acknowledged,
\* and the body nghttp3 reads through read_body until it has handed all of it over.
KeptUntilAcked ==
  /\ \A id \in DOMAIN Q.streams \cap DOMAIN Q.conn :
       SumOf(Q.streams[id].chunks, LAMBDA c : c.size) >= Q.streams[id].end - Q.conn[id].acked
  /\ \A id \in DOMAIN eng.http \cap DOMAIN eng.streams \cap DOMAIN Q.streams :
       \/ eng.http[id].pending <= eng.streams[id].output
       \/ eng.http[id].pending = eng.streams[id].output + 1 /\ Q.streams[id].end = 0

Own(q) == {id \in DOMAIN q.streams : ~IsPeers(q, id)}

\* stream_close() and consume() return each peer stream's credit once, when its record is gone.  So
\* a peer that keeps to its credit and its window never overruns the receive budget, and finds the
\* record table full only when open_stream() has filled more of it with our own streams, open or
\* closed with data unread, than the peer's max_streams leave: the check fails the connection then.
\* It fails also when one datagram brings more events than the queue holds, and by timers, polls and
\* close.  HTTP/3 adds respond() on a stream that has closed, and a header_bytes that keeps the fields
\* of blocks cut short.
CreditReturnedOnce ==
  /\ Q.credit + Q.regained + Cardinality({id \in DOMAIN Q.conn \cup DOMAIN Q.streams : IsPeers(Q, id)}) = MaxStreams
  /\ Q.cause # "window"
  /\ pc = "feed" /\ Q.cause = "capacity" => Cardinality(Own(Q)) > MaxStreams + Slack
  /\ eng.failed => Over(Q) \/ late \/ eng.cut > 0

Complete(id) == IF Http THEN Len(SelectSeq(Message, LAMBDA u : u = "b")) ELSE Length[id]
HasEnd(queue, id) ==
  \E k \in DOMAIN queue : queue[k].id = id /\ (queue[k].fin \/ queue[k].kind \in {"reset", "end", "closed"})

\* What a failed flush of read() or read_body() took with it.
Spoilt(id) == dropped[id] > 0 \/ id \in missed

\* Every unit received is with the caller, in buffers_, in the engine, or was taken by a call whose
\* flush then failed; and so is the end of every stream that the peer has ended or reset.  A caller
\* of read() is told of a clean end only when it was given every byte and the peer reset nothing, and
\* a caller of read_body() when it was given every byte or the peer reset the stream, which reads
\* as its end.  The exception is a stream of which such a failed call took a chunk or a reset:
\* neither is given again, and the closed event that follows reads as a clean end all the same.
NothingLost ==
  /\ \A id \in Ids : (Http => ~eng.failed) =>
       Unread(id) = held[id] + Units(buffers[id]) + Units(Of(Events(eng), id)) + dropped[id]
  /\ \A id \in Ids : peer[id].ended /\ ~Finished(eng) =>
       told[id] # "" \/ id \in missed \/ HasEnd(buffers[id] \o eng.events \o Q.events, id)
  /\ \A id \in Ids : told[id] = "fin" =>
       \/ got[id] = Complete(id) /\ ~peer[id].reset
       \/ Http /\ peer[id].reset
       \/ Spoilt(id)

\* A reader that waits for a datagram has an empty hand: nothing in its buffer would have answered
\* it, unless its last attempt took an event it is not interested in from the front.
ReaderWaitsForNews ==
  pc = "wait" /\ call.op \in {"read", "head", "body"} => skipped \/ ~Attempt(call.op, buffers[call.id]).found

\* do_pump never waits past the caller's deadline or past a timer that was still to come, and a
\* call does not go round and round while neither the clock nor the peer moves.
DeadlineEndsIt ==
  /\ pc = "wait" => wake <= call.deadline /\ (due \/ wake <= Expiry(Q))
  /\ rounds <= 2
=============================================================================
