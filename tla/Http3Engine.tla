---------------------------- MODULE Http3Engine ----------------------------
(***************************************************************************)
(* http3::Engine as operators over [t : a QuicEngine, ...].  nghttp3 is    *)
(* external: it splits a stream into field, end-of-fields and body units,  *)
(* consumes the first two by itself and frames what is to be sent.  http   *)
(* is what it knows of a stream.  A peer's message is the sequence Message *)
(* of unit kinds: "f" a field, "e" the end of the fields, "b" body.        *)
(***************************************************************************)
EXTENDS QuicEngine

CONSTANTS
  Message,          \* what the peer sends on a stream
  MaxRequests,      \* Limits: max_streams
  MaxHeaderBytes,   \* max_header_bytes
  MaxBody,          \* max_buffered_body
  MaxHttpEvents     \* max_events

NewHttpRecord == [output |-> 0, acked |-> 0, unread |-> 0, fields |-> 0, fieldBytes |-> 0, responded |-> FALSE, closed |-> FALSE]

\* nghttp3's stream: units read, left to write and acknowledged; which sides were shut down.
NewHttpStream == [read |-> 0, pending |-> 0, acked |-> 0, deaf |-> FALSE, mute |-> FALSE]

\* cut counts the fields whose record went before their block was complete.
NewHttp(server, idle) ==
  [t |-> NewEngine(server, idle), server |-> server, failed |-> FALSE, initialized |-> FALSE,
   going |-> FALSE, remoteGoing |-> FALSE, final |-> FALSE,
   outputBytes |-> 0, inputBytes |-> 0, headerBytes |-> 0, cut |-> 0, events |-> <<>>, streams |-> <<>>, http |-> <<>>]

HttpReady(h) == h.initialized /\ ~h.failed
HttpOver(h) == h.failed \/ Over(h.t)

Push(h, kind, id, n) ==
  IF Len(h.events) >= MaxHttpEvents THEN [h EXCEPT !.failed = TRUE]
  ELSE [h EXCEPT !.events = Append(@, [kind |-> kind, id |-> id, n |-> n, fin |-> FALSE])]

-----------------------------------------------------------------------------
(* Callbacks of nghttp3.                                                    *)

Begin(h, id) ==
  IF id \notin DOMAIN h.streams /\ Cardinality(DOMAIN h.streams) >= MaxRequests THEN [h EXCEPT !.failed = TRUE]
  ELSE [h EXCEPT !.streams = Put(@, id, [(IF id \in DOMAIN @ THEN @[id] ELSE NewHttpRecord)
                                                  EXCEPT !.fields = 0, !.fieldBytes = 0])]

Field(h, id) ==
  IF h.streams[id].fieldBytes >= MaxHeaderBytes \/ h.headerBytes >= MaxHeaderBytes * MaxRequests
  THEN [h EXCEPT !.failed = TRUE]
  ELSE [h EXCEPT !.streams[id].fields = @ + 1, !.streams[id].fieldBytes = @ + 1, !.headerBytes = @ + 1]

EndHeaders(h, id) ==
  Push([h EXCEPT !.streams[id].fields = 0], "headers", id, h.streams[id].fields)

Body(h, id, n) ==
  IF n > MaxBody - h.inputBytes THEN [h EXCEPT !.failed = TRUE]
  ELSE Push([h EXCEPT !.streams[id].unread = @ + n, !.inputBytes = @ + n], "body", id, n)

\* The body's bytes that were acknowledged; the output goes once all of it is.
Ack(h, id, n) ==
  LET r == h.streams[id] IN
  IF id \notin DOMAIN h.streams \/ n = 0 THEN h
  ELSE IF r.acked + n = r.output
       THEN [h EXCEPT !.streams[id].acked = @ + n, !.streams[id].output = 0, !.outputBytes = @ - r.output]
       ELSE [h EXCEPT !.streams[id].acked = @ + n]

HttpStreamClose(h, id) ==
  LET r == h.streams[id] IN
  IF id \notin DOMAIN h.streams THEN h
  ELSE [h EXCEPT !.outputBytes = @ - r.output, !.cut = @ + (IF r.unread = 0 THEN r.fields ELSE 0),
                 !.streams = IF r.unread = 0 THEN Without(@, id)
                             ELSE Put(@, id, [r EXCEPT !.output = 0, !.closed = TRUE])]

-----------------------------------------------------------------------------
(* process: the transport's events, in their order.                         *)

\* nghttp3 reads one unit; all but body is consumed at once.
ReadUnit(h, id, unit) ==
  LET spent == [h EXCEPT !.t = Consume(@, id, 1), !.http[id].read = @ + 1]
      kept == [h EXCEPT !.http[id].read = @ + 1]
  IN CASE unit = "f" -> Field(IF h.http[id].read = 0 THEN Begin(spent, id) ELSE spent, id)
       [] unit = "e" -> EndHeaders(spent, id)
       [] unit = "b" -> Body(kept, id, 1)

RECURSIVE ReadUnits(_, _, _)
ReadUnits(h, id, n) ==
  IF n = 0 \/ h.failed THEN h ELSE ReadUnits(ReadUnit(h, id, Message[h.http[id].read + 1]), id, n - 1)

\* A stream whose reading was shut down swallows what still comes.
ReadStream2(h, event) ==
  LET id == event.id
      known == IF id \in DOMAIN h.http THEN h ELSE [h EXCEPT !.http = Put(@, id, NewHttpStream)]
      units == ReadUnits(known, id, event.n)
  IN IF known.http[id].deaf
     THEN (IF event.n > 0 THEN [known EXCEPT !.t = Consume(@, id, event.n)] ELSE known)
     ELSE IF event.fin /\ ~units.failed THEN Push(units, "end", id, 0) ELSE units

\* Body bytes among n units acknowledged after the first acked: the head is one unit.
AckedBody(acked, n) == IF acked > 0 THEN n ELSE (IF n > 0 THEN n - 1 ELSE 0)

Apply(h, event) ==
  LET id == event.id IN
  CASE event.kind = "data" -> ReadStream2(h, event)
    [] event.kind = "acknowledged" ->
         IF id \notin DOMAIN h.http THEN h
         ELSE Ack([h EXCEPT !.http[id].acked = @ + event.n], id, AckedBody(h.http[id].acked, event.n))
    [] event.kind = "reset" ->
         Push(IF id \in DOMAIN h.http THEN [h EXCEPT !.http[id].deaf = TRUE] ELSE h, "reset", id, 0)
    [] event.kind = "closed" ->
         IF id \notin DOMAIN h.http THEN h ELSE [HttpStreamClose(h, id) EXCEPT !.http = Without(@, id)]

RECURSIVE ApplyAll(_, _)
ApplyAll(h, events) ==
  IF events = <<>> \/ h.failed THEN h ELSE ApplyAll(Apply(h, Head(events)), Tail(events))

\* The control streams cannot be opened on a transport that is over: an error that sets nothing.
ProcessFails(h) == h.failed \/ (~h.initialized /\ h.t.ready /\ Over(h.t))

\* The control streams are set up as soon as the handshake is over.
Process(h) ==
  IF ProcessFails(h) \/ ~h.t.ready THEN h
  ELSE ApplyAll([h EXCEPT !.initialized = TRUE, !.t.events = <<>>], h.t.events)

-----------------------------------------------------------------------------
(* poll: hand framed output to the transport while it has room, then send.  *)

Pending(h) == {id \in DOMAIN h.http : h.http[id].pending > 0 /\ ~h.http[id].mute}

RECURSIVE HandOver(_)
HandOver(h) ==
  LET id == Min(Pending(h))
      n == Min({h.http[id].pending, MaxBuffered - h.t.buffered})
      fin == n = h.http[id].pending
  IN IF Pending(h) = {} \/ h.t.buffered = MaxBuffered THEN h
     ELSE IF ~MayWrite(h.t, id, n) THEN [h EXCEPT !.failed = TRUE]
     ELSE HandOver([h EXCEPT !.t = Write(@, id, n, fin), !.http[id].pending = @ - n])

\* poll up to the packet; a transport that is over will not make one.
HttpPoll(h) ==
  LET p == Process(h)
      out == IF HttpReady(p) THEN HandOver(p) ELSE p
  IN IF ProcessFails(p) THEN p ELSE [out EXCEPT !.failed = @ \/ Over(out.t)]

-----------------------------------------------------------------------------
(* Calls.                                                                   *)

ValidFields(h, body) == body <= MaxBody - h.outputBytes

MayRequest(h, id, body) ==
  /\ HttpReady(h) /\ ~h.server /\ ~h.going /\ ~h.remoteGoing /\ Cardinality(DOMAIN h.streams) < MaxRequests
  /\ ValidFields(h, body) /\ MayOpen(h.t, id)

\* submit; a stream that nghttp3 has closed makes it fail, and the connection with it.
SubmitMessage(h, id, body) ==
  LET held == [h EXCEPT !.streams[id].output = body, !.outputBytes = @ + body] IN
  IF id \notin DOMAIN h.http THEN [held EXCEPT !.failed = TRUE]
  ELSE [held EXCEPT !.streams[id].responded = TRUE, !.http[id].pending = body + 1]

Request(h, id, body) ==
  SubmitMessage([h EXCEPT !.t = OpenStream(@, id), !.streams = Put(@, id, NewHttpRecord),
                          !.http = Put(@, id, NewHttpStream)], id, body)

MayRespond(h, id, body) ==
  HttpReady(h) /\ h.server /\ id \in DOMAIN h.streams /\ ~h.streams[id].responded /\ ValidFields(h, body)

TakeHttpEvents(h) ==
  [h EXCEPT !.events = <<>>,
            !.headerBytes = @ - SumOf(h.events, LAMBDA e : IF e.kind = "headers" THEN e.n ELSE 0)]

MayConsumeBody(h, id, n) == ~h.failed /\ id \in DOMAIN h.streams /\ n <= h.streams[id].unread

\* Slip: the transport gets its credit back, the record is not told.
ConsumeBody_Forgets(h, id, n) ==
  [h EXCEPT !.t = Consume(@, id, n), !.inputBytes = @ - n]

ConsumeBody(h, id, n) ==
  LET r == [h.streams[id] EXCEPT !.unread = @ - n] IN
  [h EXCEPT !.t = Consume(@, id, n), !.inputBytes = @ - n,
            !.cut = @ + (IF r.closed /\ r.unread = 0 THEN r.fields ELSE 0),
            !.streams = IF r.closed /\ r.unread = 0 THEN Without(@, id) ELSE Put(@, id, r)]

MayCancelBody(h, id) == HttpReady(h) /\ id \in DOMAIN h.streams /\ ~h.streams[id].closed

CancelBody(h, id) ==
  LET shut == IF id \in DOMAIN h.http THEN [h EXCEPT !.http[id].mute = TRUE, !.http[id].deaf = TRUE] ELSE h
  IN IF Over(h.t) THEN shut ELSE [shut EXCEPT !.t = Cancel(@, id)]

\* The shutdown callback: the peer's GOAWAY.
PeerGoesAway(h, id) == Push([h EXCEPT !.remoteGoing = TRUE], "goaway", id, 0)

ShutdownNotice(h) == [h EXCEPT !.going = TRUE]
Shutdown(h) == [h EXCEPT !.final = TRUE]
HttpClose(h) == [h EXCEPT !.failed = TRUE, !.t = CloseEngine(@)]

-----------------------------------------------------------------------------
(* What an engine always is.                                                *)

Fresh(h, id) == SumOf(h.t.events, LAMBDA e : IF e.kind = "data" /\ e.id = id THEN e.n ELSE 0)

FieldsHeld(h) ==
  Total(h.streams, LAMBDA r : r.fields) + SumOf(h.events, LAMBDA e : IF e.kind = "headers" THEN e.n ELSE 0)

HttpExact(h) ==
  /\ h.outputBytes = Total(h.streams, LAMBDA r : r.output)
  /\ h.inputBytes = Total(h.streams, LAMBDA r : r.unread)
  /\ ~h.failed => h.headerBytes = FieldsHeld(h) + h.cut
  /\ ~h.failed => \A id \in DOMAIN h.t.streams :
       h.t.streams[id].unread = Fresh(h, id) + (IF id \in DOMAIN h.streams THEN h.streams[id].unread ELSE 0)
=============================================================================
