---------------------------- MODULE Http2Session ----------------------------
(***************************************************************************)
(* Two http2::Session engines, a client and a server, joined by a          *)
(* connection.  A session is Mira's bookkeeping (entries, body budgets,    *)
(* GOAWAY, the state) around nghttp2, which is external: it is modelled by *)
(* the queues, windows and stream ends that session.cpp relies on, and its *)
(* callbacks are operators from the old session to the new one.            *)
(*                                                                         *)
(* Bodies are counted in units.  One call of output() sends one frame, the *)
(* least that max_output_bytes allows.  A message is what the limits tell  *)
(* apart: the size of its header block and of its body, and its method.    *)
(***************************************************************************)
EXTENDS Naturals, Sequences, FiniteSets, FiniteSetsExt, Functions

CONSTANTS
  Requests,      \* [Nat -> set of [size, body, method]]: the messages a client's k-th request may be
  Answers,       \* body sizes a server may answer with
  MaxRequests,   \* bound on the calls of request()
  MaxEvents,     \* bound on cancels, GOAWAYs, informational responses, CONNECTs and cuts together
  MaxInFlight,   \* bound on the frames the transport holds each way
  Goers,         \* the ends that may call goaway()
  Releasers,     \* the ends whose application calls release()
  MaxStreams,    \* [End -> Nat]: Limits of each end
  MaxHeaderBytes,    \* [End -> Nat]
  MaxBody,       \* [End -> Nat]: max_body_bytes
  MaxQueuedBody, \* [End -> Nat]: max_queued_body_bytes
  MaxFrames,     \* [End -> Nat]: max_queued_frames
  StreamWindow,  \* nghttp2's initial windows
  ConnWindow

End == {"client", "server"}
Other(e) == IF e = "client" THEN "server" ELSE "client"
Ids == {2 * k - 1 : k \in 1 .. MaxRequests}

VARIABLES
  session,   \* [End -> session]: Impl with its nghttp2_session
  net,       \* [End -> Seq(frame)]: bytes on the way to each end
  up,        \* the transport is connected
  events,    \* cancels, GOAWAYs, informational responses, CONNECTs and cuts so far
  shown,     \* ids whose request the server's application has seen
  answer,    \* [Ids -> Nat \cup {-1}]: body bytes of the answer, -1 for none
  taken      \* [Ids -> Nat]: bytes of the answer the client's application has taken

vars == <<session, net, up, events, shown, answer, taken>>
history == <<events, shown, answer, taken>>

Event == events < MaxEvents /\ events' = events + 1

None == ""
Dead(s) == s.state \in {"closed", "failed"}

NewEntry ==
  [headers |-> FALSE, headerBytes |-> 0, ended |-> FALSE, closed |-> FALSE, error |-> None, code |-> None,
   body |-> 0, received |-> 0, outgoing |-> 0, sent |-> 0, responded |-> FALSE, head |-> FALSE]

\* A stream of nghttp2: who has ended it, whether a reset is pending, its windows.
NewStream ==
  [local |-> FALSE, remote |-> FALSE, closing |-> None, window |-> StreamWindow, got |-> 0, used |-> 0]

NewSession(e) ==
  [role |-> e, state |-> "open", error |-> None, entries |-> <<>>, queued |-> 0,
   lastPeer |-> 0, peerLast |-> 2 * MaxRequests, localGoaway |-> FALSE,
   streams |-> <<>>, next |-> 1, peerMax |-> MaxRequests, reg |-> <<>>, syn |-> <<>>, window |-> ConnWindow,
   got |-> 0, used |-> 0, goawaySent |-> FALSE, goawayRecv |-> FALSE, rc |-> TRUE]

Init ==
  /\ session = [e \in End |-> NewSession(e)]
  /\ net = [e \in End |-> IF e = "client" THEN <<[kind |-> "settings"]>> ELSE <<>>]
  /\ up = TRUE /\ events = 0 /\ shown = {}
  /\ answer = [i \in Ids |-> 0 - 1] /\ taken = [i \in Ids |-> 0]

-----------------------------------------------------------------------------
(* nghttp2: the outbound queue, stream ends, windows.                       *)

QueueSize(s) == Len(s.reg) + Len(s.syn)
Full(s) == QueueSize(s) >= MaxFrames[s.role]

SetEntry(s, id, entry) == [s EXCEPT !.entries = [i \in (DOMAIN @) \cup {id} |-> IF i = id THEN entry ELSE @[i]]]
SetStream(s, id, st) == [s EXCEPT !.streams = [i \in (DOMAIN @) \cup {id} |-> IF i = id THEN st ELSE @[i]]]
Queue(s, frame) == [s EXCEPT !.reg = Append(@, frame)]

\* Credit goes back to the sender once half a window has been consumed.
ConsumeConnection(s, n) ==
  LET used == s.used + n IN
  IF 2 * used >= ConnWindow /\ used > 0
  THEN Queue([s EXCEPT !.used = 0, !.got = @ - used], [kind |-> "window", id |-> 0, n |-> used])
  ELSE [s EXCEPT !.used = used]

ConsumeStream(s, id, n) ==
  LET st == s.streams[id]
      used == st.used + n IN
  IF id \notin DOMAIN s.streams THEN s
  ELSE IF 2 * used >= StreamWindow /\ used > 0
       THEN Queue(SetStream(s, id, [st EXCEPT !.used = 0, !.got = @ - used]),
                  [kind |-> "window", id |-> id, n |-> used])
       ELSE SetStream(s, id, [st EXCEPT !.used = used])

\* A second reset of a stream is dropped; that of a request not yet sent only marks it.
SubmitRst(s, id, code) ==
  IF id \notin DOMAIN s.streams
  THEN [s EXCEPT !.syn = [k \in DOMAIN @ |-> IF @[k].id = id THEN [@[k] EXCEPT !.cancel = code] ELSE @[k]]]
  ELSE IF s.streams[id].closing # None THEN s
  ELSE Queue(SetStream(s, id, [s.streams[id] EXCEPT !.closing = code]),
             [kind |-> "rst", id |-> id, code |-> code])

-----------------------------------------------------------------------------
(* Session::Impl.                                                           *)

\* Slip: the streams of a failed connection are left as they are.
FailConnection_Silent(s, reason) ==
  [s EXCEPT !.error = reason, !.state = "failed"]

FailConnection(s, reason) ==
  [s EXCEPT !.error = reason, !.state = "failed",
            !.entries = [i \in DOMAIN @ |-> IF @[i].closed THEN @[i]
                                            ELSE [@[i] EXCEPT !.closed = TRUE, !.error = reason]]]

\* rc turns FALSE where a callback returns NGHTTP2_ERR_CALLBACK_FAILURE.
Reset(s, id, reason, code) ==
  IF Full(s) THEN [s EXCEPT !.error = "limit", !.rc = FALSE]
  ELSE SubmitRst(IF id \in DOMAIN s.entries
                 THEN SetEntry(s, id, [s.entries[id] EXCEPT !.error = reason, !.code = code])
                 ELSE s, id, code)

\* on_stream_close_callback, and nghttp2 forgetting the stream.
StreamClosed(s, id, code) ==
  LET gone == [s EXCEPT !.streams = Restrict(@, DOMAIN @ \ {id})]
      e == s.entries[id]
  IN IF id \notin DOMAIN s.entries THEN gone
     ELSE SetEntry([gone EXCEPT !.queued = @ - e.outgoing], id,
                   [e EXCEPT !.closed = TRUE, !.code = code, !.outgoing = 0,
                             !.error = IF code # None /\ @ = None
                                       THEN (IF code = "cancel" THEN "cancelled" ELSE "engine") ELSE @])

\* nghttp2 closes a stream when both ends have ended it.
Settle(s, id) ==
  IF id \in DOMAIN s.streams /\ s.streams[id].local /\ s.streams[id].remote
  THEN StreamClosed(s, id, None) ELSE s

RECURSIVE CloseAll(_, _, _)
CloseAll(s, ids, code) ==
  IF ids = {} THEN s ELSE CloseAll(StreamClosed(s, Min(ids), code), ids \ {Min(ids)}, code)

\* Slip: a request is let in although the session is draining.
Begin_WhileDraining(s, id) ==
  IF Cardinality(DOMAIN s.entries) >= MaxStreams[s.role]
  THEN Reset(s, id, "limit", "refused")
  ELSE [SetEntry(s, id, NewEntry) EXCEPT !.lastPeer = id]

\* begin: the request is refused before the application can see it.
Begin(s, id) ==
  IF s.state # "open" \/ Cardinality(DOMAIN s.entries) >= MaxStreams[s.role]
  THEN Reset(s, id, "limit", "refused")
  ELSE [SetEntry(s, id, NewEntry) EXCEPT !.lastPeer = id]

\* header, for all the fields of a block; header_bytes grows over the blocks of a stream.
Header(s, f) ==
  LET e == s.entries[f.id] IN
  IF f.id \notin DOMAIN s.entries \/ e.error # None THEN s
  ELSE IF f.size > MaxHeaderBytes[s.role] - e.headerBytes THEN Reset(s, f.id, "limit", "calm")
  ELSE SetEntry(s, f.id, [e EXCEPT !.headerBytes = @ + f.size])

\* frame_received, for HEADERS and DATA.
FrameReceived(s, f) ==
  LET e == s.entries[f.id]
      block == f.kind = "headers" /\ e.error = None
      asks == block /\ f.type = "request"
  IN IF QueueSize(s) > MaxFrames[s.role] THEN [s EXCEPT !.error = "limit", !.rc = FALSE]
     ELSE IF f.id \notin DOMAIN s.entries THEN s
     ELSE IF asks /\ f.method = "CONNECT" THEN Reset(s, f.id, "unsupported", "refused")
     ELSE SetEntry(s, f.id,
            [e EXCEPT !.headers = @ \/ (block /\ f.type # "informational"),
                      !.head = IF asks THEN f.method = "HEAD" ELSE @,
                      !.ended = @ \/ f.end])

\* Slip: the credit for what a reset stream still receives is not given back.
Data_KeepsCredit(s, id, n) ==
  IF id \notin DOMAIN s.entries \/ s.entries[id].error # None THEN s
  ELSE LET e == s.entries[id] IN
       IF n > MaxBody[s.role] - e.received THEN Reset(s, id, "limit", "calm")
       ELSE SetEntry(s, id, [e EXCEPT !.received = @ + n, !.body = @ + n])

\* data: what the application will never see is consumed at once.
Data(s, id, n) ==
  IF id \notin DOMAIN s.entries \/ s.entries[id].error # None THEN ConsumeConnection(s, n)
  ELSE LET e == s.entries[id] IN
       IF n > MaxBody[s.role] - e.received THEN Reset(ConsumeConnection(s, n), id, "limit", "calm")
       ELSE SetEntry(s, id, [e EXCEPT !.received = @ + n, !.body = @ + n])

-----------------------------------------------------------------------------
(* mem_recv: one frame.                                                     *)

\* The peer has ended its side; nghttp2 takes note after the callbacks.
RemoteEnd(s, f) ==
  IF f.end /\ f.id \in DOMAIN s.streams
  THEN Settle(SetStream(s, f.id, [s.streams[f.id] EXCEPT !.remote = TRUE]), f.id) ELSE s

Alive(s, id) == id \in DOMAIN s.streams /\ s.streams[id].closing = None

RecvHeaders(s, f) ==
  LET opened == IF f.type = "request" THEN Begin(SetStream(s, f.id, NewStream), f.id) ELSE s
      parsed == IF opened.rc THEN Header(opened, f) ELSE opened
      seen == IF parsed.rc THEN FrameReceived(parsed, f) ELSE parsed
  IN IF f.type = "request" /\ s.goawaySent THEN s
     ELSE IF f.type # "request" /\ ~Alive(s, f.id) THEN s
     ELSE IF seen.rc THEN RemoteEnd(seen, f) ELSE seen

RecvData(s, f) ==
  LET arrived == [s EXCEPT !.got = @ + f.n]
      counted == SetStream(arrived, f.id, [s.streams[f.id] EXCEPT !.got = @ + f.n])
      chunk == IF f.n > 0 THEN Data(counted, f.id, f.n) ELSE counted
      seen == IF chunk.rc THEN FrameReceived(chunk, f) ELSE chunk
  IN IF ~Alive(s, f.id) THEN ConsumeConnection(arrived, f.n)
     ELSE IF seen.rc THEN RemoteEnd(seen, f) ELSE seen

RecvRst(s, f) == IF f.id \in DOMAIN s.streams THEN StreamClosed(s, f.id, f.code) ELSE s

\* frame_received for GOAWAY; nghttp2 then closes the requests it leaves out.
RecvGoaway(s, f) ==
  LET told == [s EXCEPT !.state = "draining", !.peerLast = f.last, !.goawayRecv = TRUE]
  IN CloseAll(told, {i \in DOMAIN s.streams : s.role = "client" /\ i > f.last}, "refused")

RecvWindow(s, f) ==
  IF f.id = 0 THEN [s EXCEPT !.window = @ + f.n]
  ELSE IF f.id \in DOMAIN s.streams
       THEN SetStream(s, f.id, [s.streams[f.id] EXCEPT !.window = @ + f.n]) ELSE s

Recv(s, f) ==
  CASE f.kind = "settings" -> [s EXCEPT !.peerMax = MaxStreams[Other(s.role)]]
    [] f.kind = "headers" -> RecvHeaders(s, f)
    [] f.kind = "data"    -> RecvData(s, f)
    [] f.kind = "rst"     -> RecvRst(s, f)
    [] f.kind = "goaway"  -> RecvGoaway(s, f)
    [] f.kind = "window"  -> RecvWindow(s, f)

\* receive(): a callback that failed, or too many queued answers, fail the connection.
Receive(e) ==
  LET s == session[e]
      r == Recv(s, Head(net[e]))
      after == IF ~r.rc THEN FailConnection([r EXCEPT !.rc = TRUE], r.error)
               ELSE IF QueueSize(r) > MaxFrames[e] THEN FailConnection(r, "limit") ELSE r
  IN /\ net[e] # <<>> /\ ~Dead(s)
     /\ session' = [session EXCEPT ![e] = after]
     /\ net' = [net EXCEPT ![e] = Tail(@)]
     /\ shown' = IF e = "server" THEN shown \cup {i \in DOMAIN after.entries : after.entries[i].headers} ELSE shown
     /\ UNCHANGED <<up, events, answer, taken>>

-----------------------------------------------------------------------------
(* output: the next frame nghttp2 sends, and what sending it does.          *)

LocalEnd(s, id) == Settle(SetStream(s, id, [s.streams[id] EXCEPT !.local = TRUE]), id)

\* frame_sent, and nghttp2 closing the stream that was reset, or those a GOAWAY leaves out.
AfterReg(s, f) ==
  CASE f.kind = "rst"     -> IF f.id \in DOMAIN s.streams THEN StreamClosed(s, f.id, f.code) ELSE s
    [] f.kind = "goaway"  -> CloseAll([s EXCEPT !.goawaySent = TRUE, !.state = "draining"],
                                      {i \in DOMAIN s.streams : s.role = "server" /\ i > f.last}, "refused")
    [] f.kind = "headers" -> IF f.end /\ f.id \in DOMAIN s.streams THEN LocalEnd(s, f.id) ELSE s
    [] OTHER -> s

\* A response whose stream is going or gone, like a window for it, is not sent.
Moot(s, f) == f.kind \in {"headers", "window"} /\ f.id # 0 /\ ~Alive(s, f.id)

FrameNotSent(s, f) ==
  IF f.kind = "headers" /\ f.id \in DOMAIN s.entries /\ s.entries[f.id].error = None
  THEN SetEntry(s, f.id, [s.entries[f.id] EXCEPT !.error = "engine"]) ELSE s

\* The request may not be sent, or no longer: the stream it opened is closed.
Abandoned(s, f) ==
  StreamClosed(FrameNotSent(s, f), f.id, IF f.cancel # None THEN f.cancel ELSE "internal")

\* read_data: as much as both windows allow.
DataFrame(s, id) ==
  LET e == s.entries[id]
      n == Min({e.outgoing - e.sent, s.streams[id].window, s.window})
  IN [kind |-> "data", id |-> id, n |-> n, end |-> e.sent + n = e.outgoing]

HasData(s, id) ==
  /\ Alive(s, id) /\ ~s.streams[id].local
  /\ id \notin {s.reg[k].id : k \in {j \in DOMAIN s.reg : s.reg[j].kind = "headers"}}
  /\ s.entries[id].sent < s.entries[id].outgoing

Sendable(s, id) == HasData(s, id) /\ s.streams[id].window > 0 /\ s.window > 0

MaySyn(s) == s.syn # <<>> /\ Cardinality(DOMAIN s.streams) < s.peerMax

WantWrite(s) ==
  \/ s.reg # <<>> \/ MaySyn(s)
  \/ \E id \in DOMAIN s.streams : Sendable(s, id)

WantRead(s) == DOMAIN s.streams # {} \/ ~(s.goawaySent \/ s.goawayRecv)

AfterData(s, f) ==
  LET e == [s.entries[f.id] EXCEPT !.sent = @ + f.n]
      paid == [SetEntry(s, f.id, e) EXCEPT !.window = @ - f.n]
      st == [s.streams[f.id] EXCEPT !.window = @ - f.n]
  IN IF f.end THEN LocalEnd(SetStream(paid, f.id, st), f.id) ELSE SetStream(paid, f.id, st)

\* The session is closed once nghttp2 wants neither to read nor to write.
Sends(e, s, frames) ==
  /\ session' = [session EXCEPT ![e] =
                   IF ~WantRead(s) /\ ~WantWrite(s) THEN [s EXCEPT !.state = "closed"] ELSE s]
  /\ net' = [net EXCEPT ![Other(e)] = @ \o frames]

\* Connection::flush: output() while wants_write(), and write_all what it gave.
Output(e) ==
  LET s == session[e] IN
  /\ ~Dead(s) /\ up /\ Len(net[Other(e)]) < MaxInFlight
  /\ \/ /\ s.reg # <<>>
        /\ LET f == Head(s.reg)
               rest == [s EXCEPT !.reg = Tail(@)]
           IN IF Moot(s, f) THEN Sends(e, FrameNotSent(rest, f), <<>>) ELSE Sends(e, AfterReg(rest, f), <<f>>)
     \/ /\ s.reg = <<>> /\ MaySyn(s)
        /\ LET f == Head(s.syn)
               rest == [s EXCEPT !.syn = Tail(@)]
               opened == SetStream(rest, f.id, NewStream)
           IN IF f.cancel # None \/ s.goawayRecv
              THEN Sends(e, Abandoned(rest, f), <<>>)
              ELSE Sends(e, IF f.end THEN LocalEnd(opened, f.id) ELSE opened, <<f>>)
     \/ /\ s.reg = <<>> /\ ~MaySyn(s)
        /\ \E id \in DOMAIN s.streams :
             Sendable(s, id) /\ Sends(e, AfterData(s, DataFrame(s, id)), <<DataFrame(s, id)>>)
  /\ UNCHANGED <<up, history>>

-----------------------------------------------------------------------------
(* The application's calls.                                                 *)

\* Header blocks are well formed here; what is left of the check is their size.
ValidHeaders(size, e) == size <= MaxHeaderBytes[e]

\* What request() does with the header block it has accepted.
Submitted(k, m) ==
  LET s == session["client"]
      id == s.next
      e == [NewEntry EXCEPT !.outgoing = m.body, !.head = (m.method = "HEAD")]
  IN /\ s.state = "open" /\ id = 2 * k - 1
     /\ ~Full(s) /\ Cardinality(DOMAIN s.entries) < MaxStreams["client"]
     /\ m.body <= MaxBody["client"] /\ m.body <= MaxQueuedBody["client"] - s.queued
     /\ session' = [session EXCEPT !["client"] =
                      [SetEntry(s, id, e) EXCEPT
                        !.next = id + 2, !.queued = @ + m.body,
                        !.syn = Append(@, [kind |-> "headers", type |-> "request", id |-> id,
                                           size |-> m.size, method |-> m.method, end |-> m.body = 0,
                                           cancel |-> None])]]

\* request(), when it does not refuse.
Request(k, m) ==
  /\ m.method # "CONNECT" /\ ValidHeaders(m.size, "client")
  /\ Submitted(k, m)
  /\ UNCHANGED <<net, up, history>>

\* A client that is not Mira may send a CONNECT.
Connect(k) ==
  /\ Submitted(k, [size |-> 1, body |-> 0, method |-> "CONNECT"])
  /\ Event
  /\ UNCHANGED <<net, up, shown, answer, taken>>

\* respond(); the body of an answer to HEAD is dropped.
Respond(id, size) ==
  LET s == session["server"]
      out == IF s.entries[id].head THEN 0 ELSE size
  IN /\ ~Dead(s) /\ id \in DOMAIN s.entries
     /\ LET e == s.entries[id] IN ~e.responded /\ ~e.closed /\ e.error = None /\ e.headers
     /\ ValidHeaders(1, "server")
     /\ ~Full(s) /\ size <= MaxBody["server"] /\ size <= MaxQueuedBody["server"] - s.queued
     /\ session' = [session EXCEPT !["server"] =
                      Queue([SetEntry(s, id, [s.entries[id] EXCEPT !.outgoing = out, !.responded = TRUE])
                              EXCEPT !.queued = @ + out],
                            [kind |-> "headers", type |-> "response", id |-> id,
                             size |-> 1, method |-> None, end |-> out = 0])]
     /\ answer' = [answer EXCEPT ![id] = out]
     /\ UNCHANGED <<net, up, events, shown, taken>>

\* A server that is not Mira may send 1xx responses first.
Informational(id) ==
  LET s == session["server"] IN
  /\ ~Dead(s) /\ Alive(s, id) /\ id \in DOMAIN s.entries /\ s.entries[id].headers
  /\ up /\ ~s.entries[id].responded /\ Len(net["client"]) < MaxInFlight
  /\ net' = [net EXCEPT !["client"] =
               Append(@, [kind |-> "headers", type |-> "informational", id |-> id,
                          size |-> 1, method |-> None, end |-> FALSE])]
  /\ Event
  /\ UNCHANGED <<session, up, shown, answer, taken>>

\* Slip: only the connection gets its credit back.
Drained_ConnectionOnly(s, id) ==
  SetEntry(ConsumeConnection(s, s.entries[id].body), id, [s.entries[id] EXCEPT !.body = 0])

\* take_body: credit for the connection, and for the stream while it is open.
Drained(s, id) ==
  LET n == s.entries[id].body
      c == ConsumeConnection(s, n)
      both == IF s.entries[id].closed THEN c ELSE ConsumeStream(c, id, n)
  IN SetEntry(both, id, [s.entries[id] EXCEPT !.body = 0])

Took(e, id) ==
  taken' = IF e = "client" THEN [taken EXCEPT ![id] = @ + session[e].entries[id].body] ELSE taken

TakeBody(e, id) ==
  /\ id \in DOMAIN session[e].entries /\ session[e].entries[id].body > 0
  /\ session' = [session EXCEPT ![e] = Drained(@, id)]
  /\ Took(e, id)
  /\ UNCHANGED <<net, up, events, shown, answer>>

Release(e, id) ==
  /\ e \in Releasers /\ id \in DOMAIN session[e].entries /\ session[e].entries[id].closed
  /\ session' = [session EXCEPT ![e] =
                   [Drained(@, id) EXCEPT !.entries = Restrict(@, DOMAIN @ \ {id})]]
  /\ Took(e, id)
  /\ UNCHANGED <<net, up, events, shown, answer>>

\* A cancel that finds the queue full reports it and leaves the error behind.
Cancel(e, id) ==
  LET s == session[e] IN
  /\ Event
  /\ ~Dead(s) /\ id \in DOMAIN s.entries /\ ~s.entries[id].closed
  /\ session' = [session EXCEPT ![e] = [Reset(s, id, "cancelled", "cancel") EXCEPT !.rc = TRUE]]
  /\ UNCHANGED <<net, up, shown, answer, taken>>

Goaway(e) ==
  LET s == session[e] IN
  /\ Event /\ e \in Goers /\ ~Dead(s) /\ ~s.localGoaway /\ ~Full(s)
  /\ session' = [session EXCEPT ![e] =
                   Queue([s EXCEPT !.state = "draining", !.localGoaway = TRUE],
                         [kind |-> "goaway", id |-> 0, last |-> s.lastPeer])]
  /\ UNCHANGED <<net, up, shown, answer, taken>>

-----------------------------------------------------------------------------
(* The transport, and Connection's reaction to its errors.                  *)

\* The connection breaks, or an application hangs up on a session that is over.
Cut ==
  /\ up /\ up' = FALSE
  /\ IF \E e \in End : Dead(session[e]) THEN UNCHANGED events ELSE Event
  /\ UNCHANGED <<session, net, shown, answer, taken>>

Closed(s, reason) == [FailConnection(s, reason) EXCEPT !.state = "closed"]

\* Connection::read meets the end, or flush fails to write: Session::close.
Lost(e) ==
  /\ ~up /\ ~Dead(session[e])
  /\ net[e] = <<>> \/ WantWrite(session[e])
  /\ session' = [session EXCEPT ![e] = Closed(@, "io")]
  /\ UNCHANGED <<net, up, history>>

Next ==
  \/ \E k \in 1 .. MaxRequests : \E m \in Requests[k] : Request(k, m)
  \/ \E k \in 1 .. MaxRequests : Connect(k)
  \/ \E id \in Ids, size \in Answers : Respond(id, size)
  \/ \E id \in Ids : Informational(id)
  \/ \E e \in End : Receive(e) \/ Output(e) \/ Goaway(e) \/ Lost(e)
  \/ \E e \in End, id \in Ids : TakeBody(e, id) \/ Release(e, id) \/ Cancel(e, id)
  \/ Cut

Spec == Init /\ [][Next]_vars

-----------------------------------------------------------------------------
(* Properties.                                                              *)

EntryType ==
  [headers : BOOLEAN, headerBytes : Nat, ended : BOOLEAN, closed : BOOLEAN, error : STRING, code : STRING, body : Nat,
   received : Nat, outgoing : Nat, sent : Nat, responded : BOOLEAN, head : BOOLEAN]

TypeOK ==
  \A e \in End :
    LET s == session[e] IN
    /\ s.state \in {"open", "draining", "closed", "failed"} /\ s.queued \in Nat /\ s.rc
    /\ s.window \in 0 .. ConnWindow /\ s.got \in 0 .. ConnWindow /\ s.used \in 0 .. s.got
    /\ \A id \in DOMAIN s.entries : s.entries[id] \in EntryType
    /\ Cardinality(DOMAIN s.entries) <= MaxStreams[e]

Over(f, g(_)) == SumSet({0}) + MapThenSumSet(LAMBDA i : g(f[i]), DOMAIN f)

\* While a session lives its budgets are exact: queued_bodies is what the streams still hold for
\* sending, and the connection window withholds from the peer just the bytes that lie in bodies
\* the application has not taken; nothing is credited twice or not at all, resets included.
BytesAccounted ==
  /\ TypeOK
  /\ \A e \in End : LET s == session[e] IN
       ~Dead(s) => /\ s.queued = Over(s.entries, LAMBDA x : x.outgoing)
                   /\ s.got - s.used = Over(s.entries, LAMBDA x : x.body)

\* A request the client sees refused, by a reset or by a GOAWAY that leaves it out, was never shown
\* to the server's application, so that it may be sent again elsewhere.
RefusedMeansUntouched ==
  LET s == session["client"] IN
  \A id \in DOMAIN s.entries :
    s.entries[id].code = "refused" \/ id > s.peerLast => id \notin shown

\* A stream that closed without an error has its response and all of its body; and on a session
\* that is over every stream is closed, so that nobody waits for it.
EndedMeansWhole ==
  LET s == session["client"] IN
  /\ \A id \in DOMAIN s.entries :
       LET e == s.entries[id] IN
       e.closed /\ e.error = None => e.headers /\ e.ended /\ taken[id] + e.body = answer[id]
  /\ \A e \in End : Dead(session[e]) => \A id \in DOMAIN session[e].entries : session[e].entries[id].closed

\* Nothing is left to do: no frame to read or to send, no body to take, no request to answer.
Quiet ==
  /\ \A e \in End : LET s == session[e] IN
       /\ Dead(s) \/ (up /\ net[e] = <<>> /\ ~WantWrite(s))
       /\ \A id \in DOMAIN s.entries : s.entries[id].body = 0
  /\ up => \A e \in End : ~Dead(session[e])
  /\ LET s == session["server"] IN
     ~Dead(s) => \A id \in DOMAIN s.entries :
                   LET e == s.entries[id] IN ~e.headers \/ e.responded \/ e.closed \/ e.error # None

\* Two ends that both wait have nothing to wait for: every stream of either is then closed,
\* answered, refused, reset or lost.  No credit, frame or reset on which a request depends is ever
\* withheld, however small the windows are.
NobodyWaits ==
  Quiet => \A e \in End : \A id \in DOMAIN session[e].entries : session[e].entries[id].closed
=============================================================================
