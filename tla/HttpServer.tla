----------------------------- MODULE HttpServer -----------------------------
(***************************************************************************)
(* serve_connection: the loop that reads requests off one connection, runs *)
(* the handler for each and decides whether the connection lives on.       *)
(*                                                                         *)
(* The peer's bytes are the encoding of a script of messages, well formed  *)
(* or not; reads cut them anywhere.  The handler makes any calls of the    *)
(* response writer, at most MaxCalls, or none, and is one that passes      *)
(* failures on.  A write puts its bytes on the wire or fails after any     *)
(* part of them.                                                           *)
(***************************************************************************)
EXTENDS RequestParser, SequencesExt

CONSTANTS
  Scripts,      \* what the peer may send: sequences of messages
  MaxRequests,  \* ServerOptions::max_requests_per_connection
  ReadChunk,    \* ServerOptions::read_chunk
  ForceClose,   \* ServerOptions::force_close
  Windows,      \* which of the "idle" and "request" timeouts are set
  MaxCalls      \* bound on the handler's calls of the writer

ASSUME ServerAssumption ==
  /\ MaxRequests \in Nat \ {0} /\ ReadChunk \in Nat \ {0} /\ MaxCalls \in Nat
  /\ ForceClose \in BOOLEAN /\ Windows \subseteq {"idle", "request"}

VARIABLES
  script,   \* what the peer sends
  rest,     \* its bytes that have not been read
  input,    \* the input buffer
  parser,
  body,     \* the body collected for the handler
  conn,     \* the loop's locals: served, head_ready, request_started, body_drained, io
  writer,   \* sent_head_, chunked_, finished_, and the handler's calls and their failure
  wire,     \* what the current request's response has put on the wire
  pc,       \* "loop" | "parse" | "read" | "handler" | "finish" | "done"
  result    \* what serve_connection returned

vars == <<script, rest, input, parser, body, conn, writer, wire, pc, result>>

(* ----------------------------- the peer ------------------------------- *)

\* A message: the size of its start line and of its field lines, whether its start line is
\* well formed, what its fields say, its chunks, how many digits their sizes are written with
\* (leading zeros included), the size of their extensions, its trailers.
Line(size, says) == [i \in 1..size |-> Text] \o <<CR, Says(says)>>

Fields(m, name) == SelectSeq(m.fields, LAMBDA f : f[1] = name)
Chunked(m) == Fields(m, "te") # <<>>
BodySize(m) == FoldSeq(LAMBDA n, sum : n + sum, 0, m.chunks)
Bytes(i, n) == [k \in 1..n |-> Byte(i)]

ChunkLine(m, n) == Line(m.digits + (IF m.ext = 0 THEN 0 ELSE 1 + m.ext), <<"size", n, m.ext>>)

EncodeBody(i, m) ==
  IF ~Chunked(m) THEN Bytes(i, BodySize(m))
  ELSE FlattenSeq([k \in DOMAIN m.chunks |->
                     ChunkLine(m, m.chunks[k]) \o Bytes(i, m.chunks[k]) \o Line(0, <<"empty">>)])
       \o ChunkLine(m, 0)
       \o FlattenSeq([k \in 1..m.trailers |-> Line(m.field, <<"field">>)])
       \o Line(0, <<"empty">>)

Encode(i, m) ==
  Line(m.line, IF m.ok THEN <<"start", i, m.head, m.v10>> ELSE <<"bad">>)
  \o FlattenSeq([k \in DOMAIN m.fields |-> Line(m.field, m.fields[k])])
  \o Line(0, <<"empty">>)
  \o EncodeBody(i, m)

\* The bytes of the messages from the i-th on.
From(i) == FlattenSeq([k \in 1..(Len(script) + 1 - i) |-> Encode(k + i - 1, script[k + i - 1])])

(* ----------------------------- the loop ------------------------------- *)

Failed(e) == <<"error", e>>
Running == <<"running">>
Ok == <<"ok">>

Started == input # <<>>

Budget(window) == [window |-> window, of |-> conn.served]

Init ==
  /\ script \in Scripts
  /\ rest = From(1)
  /\ input = <<>> /\ parser = Reset /\ body = <<>>
  /\ conn = [served |-> 0, head |-> FALSE, started |-> FALSE, drained |-> FALSE,
             io |-> [window |-> "idle", of |-> 0]]
  /\ writer = [sent |-> FALSE, chunked |-> FALSE, finished |-> FALSE, calls |-> 0, failed |-> FALSE]
  /\ wire = <<>> /\ pc = "loop" /\ result = Running

\* The top of the for loop: the parser is reset, leftover bytes start the request's budget.
BeginRequest ==
  /\ pc = "loop"
  /\ conn' = [conn EXCEPT !.head = FALSE, !.started = Started, !.drained = FALSE,
                          !.io = Budget(IF Started THEN "request" ELSE "idle")]
  /\ parser' = Reset /\ body' = <<>> /\ wire' = <<>>
  /\ writer' = [sent |-> FALSE, chunked |-> FALSE, finished |-> FALSE, calls |-> 0, failed |-> FALSE]
  /\ pc' = "parse"
  /\ UNCHANGED <<script, rest, input, result>>

\* What parse() looks at: it first releases the slice it handed out before.
Window == SubSeq(input, parser.pending + 1, Len(input))

\* A prefix of out reaches the wire; whole tells whether all of it did.
Put(out, whole) ==
  \E n \in 0..Len(out) :
    /\ whole = (n = Len(out))
    /\ wire' = wire \o SubSeq(out, 1, n)

ErrorResponse(status) == << <<"status", status>>, <<"length", 0>> >>

\* The status for a parse failure: the comparison is with core's Errc::limit_exceeded, which
\* the parser's own ParseError::limit_exceeded does not equal.
StatusFor(error) == IF error = "Errc::limit_exceeded" THEN 413 ELSE 400

\* send_error, whose outcome is ignored, and the end of the connection.
EndWith(status, error) ==
  /\ \E whole \in BOOLEAN : Put(ErrorResponse(status), whole)
  /\ result' = Failed(error) /\ pc' = "done"

\* Slip: a head whose body is empty is taken for a request without one.
Drained_LengthToo(report, p) == report = "complete" \/ (report = "head" /\ p.kind # "chunked")

Drained(report, p) == report = "complete" \/ (report = "head" /\ p.kind = "none")

\* One turn of the parser, and what the loop makes of its report.
Parse ==
  LET turn == Step([parser EXCEPT !.pending = 0], Window)
      head == conn.head \/ turn.step = "head"
      drained == conn.drained \/ Drained(turn.step, turn.p)
  IN /\ pc = "parse" /\ turn.step \notin {"bad", "limit"}
     /\ parser' = turn.p
     /\ input' = SubSeq(Window, turn.used + 1, Len(Window))
     /\ body' = IF turn.step = "body" THEN body \o SubSeq(Window, 1, turn.p.pending) ELSE body
     /\ conn' = [conn EXCEPT !.head = head, !.drained = drained]
     /\ pc' = CASE turn.step = "need_more" -> "read"
                [] turn.step # "need_more" /\ head /\ drained -> "handler"
                [] OTHER -> "parse"
     /\ UNCHANGED <<script, rest, writer, wire, result>>

\* A malformed or oversized request is answered once and ends the connection.
Refuse ==
  LET turn == Step([parser EXCEPT !.pending = 0], Window)
  IN /\ pc = "parse" /\ turn.step \in {"bad", "limit"}
     /\ EndWith(StatusFor(IF turn.step = "limit" THEN "ParseError::limit_exceeded" ELSE "ParseError"),
                turn.step)
     /\ UNCHANGED <<script, rest, input, parser, body, conn, writer>>

\* Slip: a request keeps the budget of the wait before it.
AfterRead_SameBudget == [conn EXCEPT !.started = TRUE]

\* The first byte of a request starts its own budget.
AfterRead == IF conn.started THEN conn ELSE [conn EXCEPT !.started = TRUE, !.io = Budget("request")]

Read ==
  /\ pc = "read"
  /\ \E n \in 1..Min({ReadChunk, Len(rest)}) :
       /\ input' = input \o SubSeq(rest, 1, n)
       /\ rest' = SubSeq(rest, n + 1, Len(rest))
  /\ conn' = AfterRead
  /\ pc' = "parse"
  /\ UNCHANGED <<script, parser, body, writer, wire, result>>

Polite(e) == ~conn.started /\ e \in {"eof", "timed_out"}

\* The peer closes, a timeout expires, the read is cancelled or fails.
ReadFails ==
  /\ pc = "read"
  /\ \E e \in {"eof", "timed_out", "cancelled", "io_error"} :
       /\ e = "timed_out" => conn.io.window \in Windows
       /\ result' = IF Polite(e) THEN Ok ELSE Failed(e)
  /\ pc' = "done"
  /\ UNCHANGED <<script, rest, input, parser, body, conn, writer, wire>>

\* Slip: a read without progress is tried again.
ReadNothing_Retries ==
  /\ pc = "read"
  /\ pc' = "parse"
  /\ UNCHANGED <<script, rest, input, parser, body, conn, writer, wire, result>>

\* A read that makes no progress must not spin: an end of the stream, between requests too.
ReadNothing ==
  /\ pc = "read"
  /\ result' = Failed("eof") /\ pc' = "done"
  /\ UNCHANGED <<script, rest, input, parser, body, conn, writer, wire>>

(* ------------------------ the response writer ------------------------- *)

MayCall == pc = "handler" /\ ~writer.failed /\ writer.calls < MaxCalls
Called(w, ok) == [w EXCEPT !.calls = @ + 1, !.failed = ~ok]

\* A call that changes the writer to w and writes out, all of it or not.
Call(w, out) == \E whole \in BOOLEAN : Put(out, whole) /\ writer' = Called(w, whole)
CallFails == writer' = Called(writer, FALSE) /\ wire' = wire

ResponseHead(framing) == << <<"status", 200>>, framing >>

\* Slip: a HEAD response carries its body.
Body_ForHead(shape) == IF shape = "body" THEN << <<"bytes">> >> ELSE <<>>

\* The body bytes of a complete response: none for HEAD or a status that forbids them.
Body(shape) == IF shape = "body" /\ ~parser.head THEN << <<"bytes">> >> ELSE <<>>

Framing(shape) ==
  CASE shape = "forbidden" -> <<"none">> [] shape = "empty" -> <<"length", 0>> [] OTHER -> <<"length", 1>>

\* send(): a complete response, refused after a head and when it does not serialize.
Send ==
  /\ MayCall
  /\ \E shape \in {"forbidden", "empty", "body"}, serializes \in BOOLEAN :
       IF writer.sent \/ ~serializes THEN CallFails
       ELSE Call([writer EXCEPT !.sent = TRUE, !.finished = TRUE], ResponseHead(Framing(shape)) \o Body(shape))
  /\ UNCHANGED <<script, rest, input, parser, body, conn, pc, result>>

SendHeadChunked ==
  /\ MayCall
  /\ \E forbidden \in BOOLEAN, serializes \in BOOLEAN :
       IF writer.sent \/ ~serializes THEN CallFails
       ELSE Call([writer EXCEPT !.sent = TRUE, !.chunked = ~forbidden],
                 ResponseHead(IF forbidden THEN <<"none">> ELSE <<"chunked">>))
  /\ UNCHANGED <<script, rest, input, parser, body, conn, pc, result>>

\* write(): one chunk, swallowed for HEAD and for a status that forbids a body.
Write ==
  /\ MayCall
  /\ \E empty \in BOOLEAN :
       IF ~writer.sent \/ writer.finished THEN CallFails
       ELSE Call(writer, IF empty \/ parser.head \/ ~writer.chunked THEN <<>> ELSE << <<"chunk">> >>)
  /\ UNCHANGED <<script, rest, input, parser, body, conn, pc, result>>

\* What finish() has left to write.
LastChunk == IF parser.head \/ ~writer.chunked THEN <<>> ELSE << <<"last">> >>
Finishes == writer.sent /\ ~writer.finished

Finish ==
  /\ MayCall
  /\ IF Finishes THEN Call([writer EXCEPT !.finished = TRUE], LastChunk) ELSE Call(writer, <<>>)
  /\ UNCHANGED <<script, rest, input, parser, body, conn, pc, result>>

(* --------------------------- after the handler ------------------------ *)

\* The handler returns, also without having sent anything; what it left open is closed next.
HandlerReturns ==
  /\ pc = "handler" /\ ~writer.failed
  /\ pc' = "finish"
  /\ UNCHANGED <<script, rest, input, parser, body, conn, writer, wire, result>>

\* It fails or throws: a 500 if nothing has been sent, and the end.
HandlerFails ==
  /\ pc = "handler"
  /\ \E e \in {"handler", "internal"} :
       IF writer.sent THEN wire' = wire /\ result' = Failed(e) /\ pc' = "done" ELSE EndWith(500, e)
  /\ UNCHANGED <<script, rest, input, parser, body, conn, writer>>

\* should_keep_alive, and the limits of the server.
KeepAlive ==
  /\ IF parser.v10 THEN parser.keep /\ ~parser.close ELSE ~parser.close
  /\ ~ForceClose
  /\ conn.served + 1 < MaxRequests

\* The body is terminated on the handler's behalf, then the loop goes on or ends.
AfterHandler ==
  /\ pc = "finish"
  /\ \E whole \in BOOLEAN :
       /\ Put(IF Finishes THEN LastChunk ELSE <<>>, whole)
       /\ conn' = IF whole /\ KeepAlive THEN [conn EXCEPT !.served = @ + 1] ELSE conn
       /\ result' = IF ~whole THEN Failed("write") ELSE IF KeepAlive THEN Running ELSE Ok
       /\ pc' = IF whole /\ KeepAlive THEN "loop" ELSE "done"
  /\ UNCHANGED <<script, rest, input, parser, body, writer>>

Done == pc = "done" /\ UNCHANGED vars

Next ==
  \/ BeginRequest \/ Parse \/ Refuse \/ Read \/ ReadFails \/ ReadNothing
  \/ Send \/ SendHeadChunked \/ Write \/ Finish
  \/ HandlerReturns \/ HandlerFails \/ AfterHandler \/ Done

Spec == Init /\ [][Next]_vars

\* The stream completes every read and write, the handler returns: the coroutine runs on.
FairSpec == Spec /\ WF_vars(Next)

(* ---------------------------- properties ------------------------------ *)

\* What has been read and what is still to come are suffixes of what the peer sends, the
\* parser never reads beyond its buffer or its body limit, and every local keeps its type.
TypeOK ==
  /\ script \in Scripts
  /\ IsSuffix(rest, From(1)) /\ IsSuffix(input \o rest, From(1))
  /\ parser.pending <= Len(input) /\ parser.seen <= MaxBody
  /\ conn.served \in 0..(MaxRequests - 1)
  /\ conn.io.window \in {"idle", "request"}
  /\ writer.calls \in 0..MaxCalls
  /\ pc \in {"loop", "parse", "read", "handler", "finish", "done"}
  /\ (pc = "done") = (result # Running)

Current == conn.served + 1
Answering == pc \in {"handler", "finish"}

\* However the stream is cut into reads, the handler is given the peer's next message with
\* exactly its own body, and the bytes left are exactly the messages after it: the loop
\* drains every body and consumes nothing of the next request (connection.hpp rule 1).
StreamStaysInStep ==
  /\ TypeOK
  /\ Answering => /\ parser.n = Current
                  /\ body = Bytes(Current, BodySize(script[Current]))
                  /\ input \o rest = From(Current + 1)

\* What a request has to be, said of the message rather than of its bytes.
WellFormed(m) ==
  LET lengths == Range(Fields(m, "length"))
      lines == {m.line} \union (IF m.fields = <<>> /\ m.trailers = 0 THEN {} ELSE {m.field})
  IN /\ m.ok /\ Fields(m, "bad") = <<>>
     /\ \A size \in lines : size <= MaxLine
     /\ Len(m.fields) <= MaxFields /\ Len(m.fields) * m.field <= MaxTotal
     /\ Cardinality(lengths) <= 1 /\ BodySize(m) <= MaxBody
     /\ Chunked(m) => /\ ~m.v10 /\ lengths = {} /\ Len(Fields(m, "te")) = 1
                      /\ \A n \in Range(m.chunks) : n <= MaxChunk
                      /\ m.ext <= MaxExt /\ m.trailers <= MaxFields

\* A line of exactly its limit, read up to and with its CR.
CutInLineEnd == Len(Window) = MaxLine + 1 /\ Last(Window) = CR

\* A chunk line read up to somewhere before its LF, its size so padded with zeros that what
\* an unfinished line is allowed besides its extension does not hold it, a semicolon and a CR.
CutInPaddedSize ==
  /\ parser.state = "body_chunk_header" /\ NextLine(Window) = NoLine
  /\ script[Current].digits + 2 > SizeRoom

\* A request is refused when it is malformed or over a limit, and only then, wherever the
\* reads cut it: parse() judges an unfinished line as it will judge the finished one.  There
\* are two exceptions, both requests that are accepted when they arrive in one piece.  A line of
\* exactly its limit whose CR and LF come in different reads: an unfinished line is measured
\* with its CR, a finished one without.  And a chunk size padded with zeros: only an unfinished
\* chunk line is measured as a whole, of a finished one only the extension is.
OnlyTheFaultyAreRefused ==
  /\ Answering => WellFormed(script[Current])
  /\ result = Failed("bad") => ~WellFormed(script[Current])
  /\ result = Failed("limit") => ~WellFormed(script[Current]) \/ CutInLineEnd \/ CutInPaddedSize

\* What a whole response to the current request looks like on the wire.
Whole(out) ==
  /\ Len(out) >= 2 /\ out[1][1] = "status"
  /\ LET content == SubSeq(out, 3, Len(out))
     IN CASE out[2] = <<"length", 1>> /\ ~parser.head -> content = << <<"bytes">> >>
          [] out[2] = <<"chunked">> /\ ~parser.head ->
               /\ content # <<>> /\ Last(content) = <<"last">>
               /\ \A i \in 1..(Len(content) - 1) : content[i] = <<"chunk">>
          [] OTHER -> content = <<>>

\* What is on the wire is one response with one framing, whole or still to be completed: no error response on top of a partial one, no body bytes for HEAD or after
\* the end (connection.hpp rules 2 and 3).
Framed ==
  \E tail \in {<<>>, << <<"status", 200>>, <<"none">> >>, << <<"none">> >>,
               << <<"bytes">> >>, << <<"last">> >>} : Whole(wire \o tail)

\* Responses never run into each other: whatever the handler calls and wherever a write fails,
\* the wire holds one framed response, and the loop goes on to another request only when that
\* response is complete, the peer agreed to persist and the limit on requests is not reached.  A
\* handler that never calls the writer leaves its request unanswered: then nothing was written.
OneFraming ==
  [][/\ Framed'
     /\ conn'.served # conn.served =>
          /\ Whole(wire') \/ (~writer.sent /\ wire' = <<>>)
          /\ Fields(script[Current], "close") = <<>>
          /\ script[Current].v10 => Fields(script[Current], "keep") # <<>>
          /\ conn'.served < MaxRequests]_vars

\* The loop always knows whether it is between requests.  Every wait is on the right budget: the
\* idle one until the request's first byte has arrived, even as the tail of the previous read,
\* and this request's own from then on; and a read that ends with Errc::eof or with a timeout ends
\* the connection without an error exactly when not a byte of the next request has arrived.  (A
\* read that succeeds without a byte is no such end: it is answered Errc::eof wherever it comes.)
RequestHasItsBudget ==
  /\ pc \in {"read", "handler", "finish"} =>
       /\ conn.io.of = conn.served
       /\ (conn.io.window = "request") = (rest # From(Current))
  /\ pc = "read" => conn.started = (rest # From(Current))
  /\ (result = Ok /\ ~conn.drained) => rest = From(Current)
  /\ result = Failed("timed_out") => rest # From(Current)

\* serve_connection returns: no read without progress, no message and no handler that ends
\* keeps its loop turning for ever.
ServeReturns == <>(pc = "done")
=============================================================================
