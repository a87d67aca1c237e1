----------------------------- MODULE QuicEngine -----------------------------
(***************************************************************************)
(* quic::Engine as operators from an engine to the engine after the call.  *)
(* The engine keeps what it has to send until it is acknowledged, and the  *)
(* bytes it has delivered until they are consumed; packets, loss recovery, *)
(* flow control and stream states are ngtcp2's, which is external: conn is *)
(* what the engine and its callbacks rely on.                              *)
(*                                                                         *)
(* Bytes are counted in units, a unit being what one packet carries.  A    *)
(* callback that fails makes ngtcp2_conn_read_pkt fail, so it sets failed; *)
(* cause remembers which check or call it was.                             *)
(***************************************************************************)
EXTENDS Naturals, Sequences, FiniteSets, FiniteSetsExt, Functions, TLC

CONSTANTS
  MaxBuffered,   \* max_buffered_bytes
  MaxStreams,    \* max_streams
  Slack,         \* records beyond two per stream (8 in the code)
  MaxEvents,     \* bound on the event queue (4096 in the code)
  Handshaking,   \* handshake_timeout
  Ids            \* stream identifiers: 0 mod 4 and 1 mod 4 are bidirectional

Never == 1000000

Put(f, k, v) == (k :> v) @@ f
Without(f, k) == Restrict(f, DOMAIN f \ {k})
Total(f, g(_)) == MapThenSumSet(LAMBDA i : g(f[i]), DOMAIN f)
SumOf(s, g(_)) == MapThenSumSet(LAMBDA k : g(s[k]), DOMAIN s)

\* Streams opened by the other end: even identifiers are the client's.
IsPeers(q, id) == (id % 2 = 0) = q.server

NewRecord == [chunks |-> <<>>, end |-> 0, unread |-> 0, fin |-> FALSE, cancelled |-> FALSE, closed |-> FALSE]

\* ngtcp2's stream: units sent and acknowledged, whether our end (FIN or RESET_STREAM) has
\* left, whether sending and receiving were shut down, and which sides have ended.
NewConnStream ==
  [sent |-> 0, acked |-> 0, finSent |-> FALSE, shut |-> FALSE, localEnd |-> FALSE, remoteEnd |-> FALSE, deaf |-> FALSE]

\* credit: streams the peer may still open; window: units it may still send; regained and freed:
\* what was returned of them and is not announced yet; owed: something is to be sent; probe: the
\* loss timer; idle: idle_timeout_ns, and giveUp: when the handshake or a silent peer has taken
\* too long.
NewEngine(server, idle) ==
  [server |-> server, failed |-> FALSE, cause |-> "", ended |-> FALSE, ready |-> FALSE,
   buffered |-> 0, received |-> 0, events |-> <<>>, streams |-> <<>>,
   conn |-> <<>>, credit |-> MaxStreams, regained |-> 0, window |-> MaxBuffered, freed |-> 0, owed |-> FALSE,
   probe |-> Never, idle |-> idle, giveUp |-> Handshaking]

Failing(q, cause) == [q EXCEPT !.failed = TRUE, !.cause = cause]
Over(q) == q.failed \/ q.ended
Expiry(q) == Min({q.probe, q.giveUp})
Capacity(q) == Cardinality(DOMAIN q.streams) < 2 * MaxStreams + Slack
Crowded(q) == Len(q.events) >= MaxEvents
Happened(q, kind, id, n, fin) ==
  IF Crowded(q) THEN Failing(q, "events")
  ELSE [q EXCEPT !.events = Append(@, [kind |-> kind, id |-> id, n |-> n, fin |-> fin])]

-----------------------------------------------------------------------------
(* Callbacks.                                                               *)

ReceiveData(q, id, n, fin) ==
  LET record == IF id \in DOMAIN q.streams THEN q.streams[id] ELSE NewRecord IN
  IF n > MaxBuffered - q.received THEN Failing(q, "window")
  ELSE IF id \notin DOMAIN q.streams /\ ~Capacity(q) THEN Failing(q, "capacity")
  ELSE IF Crowded(q) THEN Failing(q, "events")
  ELSE Happened([q EXCEPT !.streams = Put(@, id, [record EXCEPT !.unread = @ + n]),
                          !.received = @ + n], "data", id, n, fin)

\* Slip: the chunk that an acknowledgement reaches into goes as well.
Confirmed_Partial(record, upTo) ==
  SelectSeq(record.chunks, LAMBDA c : ~(c.sent > 0 /\ c.start < upTo))

\* The chunks that are left when everything below upTo is acknowledged.
Confirmed(record, upTo) ==
  SelectSeq(record.chunks, LAMBDA c : ~(c.submitted /\ c.start + c.size <= upTo))

Acknowledged(q, id, upTo, n) ==
  LET record == q.streams[id]
      rest == Confirmed(record, upTo)
  IN Happened(IF id \notin DOMAIN q.streams THEN q
              ELSE [q EXCEPT !.streams[id].chunks = rest,
                             !.buffered = @ - SumOf(record.chunks, LAMBDA c : c.size)
                                            + SumOf(rest, LAMBDA c : c.size)],
              "acknowledged", id, n, FALSE)

\* Slip: the credit is returned although the record stays.
StreamClose_EarlyCredit(q, id) ==
  LET known == id \in DOMAIN q.streams
      record == q.streams[id]
      kept == known /\ record.unread > 0
      less == IF known THEN [q EXCEPT !.buffered = @ - SumOf(record.chunks, LAMBDA c : c.size)] ELSE q
  IN Happened([less EXCEPT
                 !.conn = Without(@, id),
                 !.streams = IF kept THEN Put(@, id, [record EXCEPT !.chunks = <<>>, !.closed = TRUE]) ELSE Without(@, id),
                 !.owed = TRUE, !.regained = IF IsPeers(q, id) THEN @ + 1 ELSE @], "closed", id, 0, FALSE)

\* A record with unread data stays, and keeps the credit for another stream back.
StreamClose(q, id) ==
  LET known == id \in DOMAIN q.streams
      record == q.streams[id]
      kept == known /\ record.unread > 0
      less == IF known THEN [q EXCEPT !.buffered = @ - SumOf(record.chunks, LAMBDA c : c.size)] ELSE q
  IN Happened([less EXCEPT
                 !.conn = Without(@, id),
                 !.streams = IF kept THEN Put(@, id, [record EXCEPT !.chunks = <<>>, !.closed = TRUE]) ELSE Without(@, id),
                 !.owed = TRUE, !.regained = IF IsPeers(q, id) /\ ~kept THEN @ + 1 ELSE @], "closed", id, 0, FALSE)

\* ngtcp2 closes a stream when both sides have ended.
Settled(q, id) ==
  IF id \in DOMAIN q.conn /\ q.conn[id].localEnd /\ q.conn[id].remoteEnd /\ ~q.failed
  THEN StreamClose(q, id) ELSE q

-----------------------------------------------------------------------------
(* ngtcp2_conn_read_pkt: one frame of a packet.                             *)

Opened(q, id) ==
  IF id \in DOMAIN q.conn THEN q
  ELSE [q EXCEPT !.conn = Put(@, id, NewConnStream), !.credit = @ - 1]

\* What arrives on a stream whose receiving side was shut down is discarded with its credit.
ReadStream(q, id, n, fin) ==
  LET o == [Opened(q, id) EXCEPT !.owed = TRUE]
      told == IF o.conn[id].deaf THEN o ELSE ReceiveData([o EXCEPT !.window = @ - n], id, n, fin)
  IN Settled(IF fin THEN [told EXCEPT !.conn[id].remoteEnd = TRUE] ELSE told, id)

\* The peer stops sending: RESET_STREAM.
ReadReset(q, id) ==
  LET o == [Opened(q, id) EXCEPT !.owed = TRUE]
      told == IF o.conn[id].deaf \/ o.conn[id].remoteEnd THEN o ELSE Happened(o, "reset", id, 0, FALSE)
  IN Settled([told EXCEPT !.conn[id].remoteEnd = TRUE], id)

\* The peer wants no more: STOP_SENDING, which ngtcp2 answers with a RESET_STREAM of our side.
ReadStop(q, id) == [Opened(q, id) EXCEPT !.owed = TRUE, !.conn[id].shut = TRUE]

\* A packet restarts the idle timer; the one of the handshake runs on until it is done.
Heard(q, now) ==
  [q EXCEPT !.giveUp = IF ~q.ready THEN @ ELSE IF q.idle = Never THEN Never ELSE now + q.idle]

Unacked(c) == c.sent > c.acked \/ (c.finSent /\ ~c.localEnd)

\* Everything sent so far on the stream is acknowledged, its end or reset included.
ReadAck(q, id) ==
  LET c == q.conn[id]
      told == IF c.sent > c.acked \/ ~c.shut
              THEN Acknowledged([q EXCEPT !.conn[id].acked = c.sent], id, c.sent, c.sent - c.acked) ELSE q
  IN Settled([told EXCEPT !.conn[id].localEnd = c.finSent,
                          !.probe = IF \E i \in DOMAIN q.conn \ {id} : Unacked(q.conn[i]) THEN @ ELSE Never], id)

-----------------------------------------------------------------------------
(* poll: the next packet, or none.                                          *)

Unsent(record) == {k \in DOMAIN record.chunks : ~record.chunks[k].submitted}

Ready(q) ==
  {id \in DOMAIN q.streams \cap DOMAIN q.conn :
     ~q.streams[id].cancelled /\ ~q.conn[id].shut /\ Unsent(q.streams[id]) # {}}

\* One packet's worth of the first chunk that is not yet submitted, with the end if it is the last.
Submit(q, id) ==
  LET k == Min(Unsent(q.streams[id]))
      c == q.streams[id].chunks[k]
      n == IF c.sent < c.size THEN 1 ELSE 0
      whole == c.sent + n = c.size
  IN [q EXCEPT !.streams[id].chunks[k] = [c EXCEPT !.sent = @ + n, !.submitted = whole],
               !.conn[id].sent = @ + n, !.conn[id].finSent = c.fin /\ whole]

\* Nothing of the streams in mute is taken: their window at the peer is used up, or the
\* congestion window is.  When that is so for all of Ids, nothing at all leaves.
Sends(q, mute) == mute # Ids /\ (q.owed \/ Ready(q) \ mute # {})

\* A packet also carries what is owed: acknowledgements, credit, RESET_STREAM.
Packet(q, mute, now) ==
  LET p == IF Ready(q) \ mute = {} THEN q ELSE Submit(q, Min(Ready(q) \ mute))
      shut == {i \in DOMAIN p.conn : p.conn[i].shut}
      c == [i \in shut |-> [p.conn[i] EXCEPT !.finSent = TRUE]] @@ p.conn
  IN [p EXCEPT !.owed = FALSE, !.conn = c,
               !.credit = @ + p.regained, !.regained = 0, !.window = @ + p.freed, !.freed = 0,
               !.probe = IF \E i \in DOMAIN c : Unacked(c[i]) THEN now + 1 ELSE @]

\* poll until it returns nothing, at most limit packets.
RECURSIVE PollAll(_, _, _, _)
PollAll(q, limit, mute, now) ==
  IF limit = 0 \/ ~Sends(q, mute) THEN q ELSE PollAll(Packet(q, mute, now), limit - 1, mute, now)

\* The connection is given up, or probes are sent and the timer is set again while anything is
\* unacknowledged.
HandleExpiry(q, now) ==
  IF q.giveUp <= now THEN Failing(q, "timer")
  ELSE IF \E i \in DOMAIN q.conn : Unacked(q.conn[i])
  THEN [q EXCEPT !.owed = TRUE, !.probe = now + 1] ELSE [q EXCEPT !.probe = Never]

-----------------------------------------------------------------------------
(* Calls.                                                                   *)

MayOpen(q, id) == ~Over(q) /\ q.ready /\ Capacity(q) /\ ~IsPeers(q, id) /\ id \notin DOMAIN q.conn \cup DOMAIN q.streams

OpenStream(q, id) ==
  [q EXCEPT !.streams = Put(@, id, NewRecord), !.conn = Put(@, id, NewConnStream)]

MayWrite(q, id, n) ==
  /\ ~Over(q) /\ id \in DOMAIN q.streams /\ ~q.streams[id].fin /\ ~q.streams[id].cancelled
  /\ n <= MaxBuffered - q.buffered

Write(q, id, n, fin) ==
  LET r == q.streams[id] IN
  [q EXCEPT !.buffered = @ + n,
            !.streams[id] = [r EXCEPT !.end = @ + n, !.fin = fin,
               !.chunks = Append(@, [start |-> r.end, size |-> n, sent |-> 0, fin |-> fin, submitted |-> FALSE])]]

MayConsume(q, id, n) == id \in DOMAIN q.streams /\ n <= q.streams[id].unread

\* The last bytes of a closed stream release its record and the credit that was kept back.
Consume(q, id, n) ==
  LET r == [q.streams[id] EXCEPT !.unread = @ - n]
      gone == r.closed /\ r.unread = 0
  IN [q EXCEPT !.freed = @ + n, !.received = @ - n, !.owed = TRUE,
               !.streams = IF gone THEN Without(@, id) ELSE Put(@, id, r),
               !.regained = IF gone /\ IsPeers(q, id) THEN @ + 1 ELSE @]

\* RESET_STREAM and STOP_SENDING: the stream is shut both ways.
Cancel(q, id) ==
  LET known == id \in DOMAIN q.streams
      both == IF id \in DOMAIN q.conn
              THEN [q EXCEPT !.conn[id].shut = TRUE, !.conn[id].deaf = TRUE, !.owed = TRUE] ELSE q
  IN IF known THEN [both EXCEPT !.streams[id].cancelled = TRUE] ELSE both

CloseEngine(q) == [q EXCEPT !.ended = TRUE]

-----------------------------------------------------------------------------
(* What an engine always is.                                                *)

QuicType(q) ==
  /\ q.failed \in BOOLEAN /\ q.ended \in BOOLEAN /\ q.buffered \in 0 .. MaxBuffered
  /\ q.received \in 0 .. MaxBuffered /\ q.window \in 0 .. MaxBuffered /\ q.credit \in 0 .. MaxStreams
  /\ DOMAIN q.streams \subseteq Ids /\ DOMAIN q.conn \subseteq Ids

ChunkUnits(q) == Total(q.streams, LAMBDA r : SumOf(r.chunks, LAMBDA c : c.size))

QuicExact(q) ==
  /\ q.received = Total(q.streams, LAMBDA r : r.unread)
  /\ ~q.failed => q.received + q.window + q.freed = MaxBuffered
=============================================================================
