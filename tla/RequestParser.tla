--------------------------- MODULE RequestParser ---------------------------
(***************************************************************************)
(* The HTTP/1 request parser: an incremental machine over a byte buffer.   *)
(*                                                                         *)
(* A byte is a record whose c tells what the framing needs to know of it:  *)
(* text of a line ("x"), a carriage return, a line feed or a body byte.    *)
(* The line feed carries what the line it ends says; the grammar of a line *)
(* is thereby abstracted to "it says this" or "it is malformed", while the *)
(* lengths of lines and the place of every line end are kept.              *)
(*                                                                         *)
(* Step is one turn of the loop of parse(): it returns what the turn       *)
(* reports, the parser after it and the number of bytes it consumed.       *)
(***************************************************************************)
EXTENDS Naturals, Sequences, FiniteSetsExt

CONSTANTS
  MaxLine,      \* Limits::max_start_line and max_header_line
  MaxFields,    \* Limits::max_header_count
  MaxTotal,     \* Limits::max_headers_total
  MaxBody,      \* Limits::max_body_size
  MaxChunk,     \* Limits::max_chunk_size
  MaxExt,       \* Limits::max_chunk_extension
  SizeRoom,     \* what an unfinished chunk line may hold besides its extension
  Word          \* 2^64, the modulus of the size arithmetic

ASSUME LimitsAssumption ==
  /\ MaxLine \in Nat /\ MaxFields \in Nat /\ MaxTotal \in Nat /\ MaxBody \in Nat
  /\ MaxChunk \in Nat /\ MaxExt \in Nat /\ SizeRoom \in Nat /\ Word \in Nat \ {0}

Says(v) == [c |-> "lf", v |-> v]
Text == [c |-> "x", v |-> <<"text">>]
CR == [c |-> "cr", v |-> <<"cr">>]
Byte(i) == [c |-> "b", v |-> <<"byte", i>>]

NoLine == [is |-> <<"none">>, size |-> 0, used |-> 0]
BadEnding == [is |-> <<"bad">>, size |-> 0, used |-> 0]

\* The next line of the window: its text ends at CR LF and holds no other CR.
NextLine(window) ==
  LET lfs == {i \in DOMAIN window : window[i].c = "lf"}
      lf == Min(lfs)
  IN IF lfs = {} THEN NoLine
     ELSE IF lf = 1 \/ \E i \in 1..(lf - 1) : (window[i].c = "cr") # (i = lf - 1) THEN BadEnding
     ELSE [is |-> IF \A i \in 1..(lf - 2) : window[i].c = "x" THEN window[lf].v ELSE <<"bad">>,
           size |-> lf - 2, used |-> lf]

\* RequestParser::reset
Reset ==
  [state |-> "start_line", n |-> 0, head |-> FALSE, v10 |-> FALSE,
   te |-> 0, lengths |-> {}, close |-> FALSE, keep |-> FALSE,
   fields |-> 0, total |-> 0, trailers |-> 0,
   kind |-> "none", left |-> 0, seen |-> 0, pending |-> 0]

\* A turn that reports something and leaves the parser as it is.
Stop(p, report) == [step |-> report, p |-> p, used |-> 0]
Go(report, p, used) == [step |-> report, p |-> p, used |-> used]

\* An unfinished line is waited for only while it is within its limit.
Unfinished(p, window, max) == Stop(p, IF Len(window) > max THEN "limit" ELSE "need_more")

\* Slip: a line that never ends is waited for without a limit on what arrives after it.
ParseStartLine_NoLimit(p, window) ==
  LET line == NextLine(window)
  IN IF line = NoLine THEN Unfinished(p, window, MaxLine)
     ELSE IF line.is[1] # "start" THEN Stop(p, "bad")
     ELSE Go("advanced",
             [p EXCEPT !.state = "headers", !.n = line.is[2], !.head = line.is[3], !.v10 = line.is[4]],
             line.used)

ParseStartLine(p, window) ==
  LET line == NextLine(window)
  IN IF line = NoLine THEN Unfinished(p, window, MaxLine)
     ELSE IF line.size > MaxLine THEN Stop(p, "limit")
     ELSE IF line.is[1] # "start" THEN Stop(p, "bad")
     ELSE Go("advanced",
             [p EXCEPT !.state = "headers", !.n = line.is[2], !.head = line.is[3], !.v10 = line.is[4]],
             line.used)

\* decide_framing and the states parse() goes to after it: <<error>> or <<kind, length>>.
DecideFraming(p) ==
  IF p.te > 0
  THEN IF p.lengths # {} \/ p.v10 \/ p.te # 1 THEN <<"bad">> ELSE <<"chunked", 0>>
  ELSE IF p.lengths = {} THEN <<"none", 0>>
  ELSE IF Cardinality(p.lengths) > 1 THEN <<"bad">>
  ELSE IF Max(p.lengths) > MaxBody THEN <<"limit">>
  ELSE <<"length", Max(p.lengths)>>

\* The empty line: the head is complete.
EndOfHead(p, used) ==
  LET framing == DecideFraming(p)
  IN IF Len(framing) = 1 THEN Stop(p, framing[1])
     ELSE Go("head",
             [p EXCEPT !.kind = framing[1], !.left = framing[2],
                       !.state = CASE framing[1] = "chunked" -> "body_chunk_header"
                                   [] framing[1] = "length" /\ framing[2] > 0 -> "body_length"
                                   [] OTHER -> "done"],
             used)

\* One field is recorded, within the limits on their number and their size.
Field(p, line) ==
  IF line.is[1] \notin {"field", "close", "keep", "te", "length"} THEN Stop(p, "bad")
  ELSE IF p.fields + 1 > MaxFields \/ p.total + line.size > MaxTotal THEN Stop(p, "limit")
  ELSE Go("advanced",
          [p EXCEPT !.fields = @ + 1, !.total = @ + line.size,
                    !.te = @ + (IF line.is[1] = "te" THEN 1 ELSE 0),
                    !.lengths = @ \union {line.is[i] : i \in DOMAIN line.is \ {1}},
                    !.close = @ \/ line.is[1] = "close",
                    !.keep = @ \/ line.is[1] = "keep"],
          line.used)

ParseHeaders(p, window) ==
  LET line == NextLine(window)
  IN IF line = NoLine THEN Unfinished(p, window, MaxLine)
     ELSE IF line.is = <<"empty">> THEN EndOfHead(p, line.used)
     ELSE IF line.size > MaxLine THEN Stop(p, "limit")
     ELSE Field(p, line)

\* A slice of the body is handed out; its bytes stay in the buffer until the next parse.
Emit(p, window, last) ==
  IF window = <<>> THEN Stop(p, "need_more")
  ELSE LET take == Min({p.left, Len(window)})
       IN Go("body",
             [p EXCEPT !.left = @ - take, !.seen = @ + take, !.pending = take,
                       !.state = IF take = p.left THEN last ELSE @],
             0)

ReadLengthBody(p, window) == Emit(p, window, "done")

TooLong(p, size) == size > MaxChunk \/ (p.seen + size) % Word > MaxBody

ReadChunkHeader(p, window) ==
  LET line == NextLine(window)
      size == line.is[2]
      extension == line.is[3]
  IN IF line = NoLine THEN Unfinished(p, window, MaxExt + SizeRoom)
     ELSE IF line.is[1] # "size" THEN Stop(p, "bad")
     ELSE IF extension > MaxExt \/ TooLong(p, size) THEN Stop(p, "limit")
     ELSE Go("advanced",
             [p EXCEPT !.left = size,
                       !.state = IF size = 0 THEN "body_chunk_trailer" ELSE "body_chunk_data"],
             line.used)

\* Chunk data, then the line end that closes the chunk.
ReadChunkData(p, window) ==
  LET line == NextLine(window)
  IN IF p.left > 0 THEN Emit(p, window, "body_chunk_data")
     ELSE IF line = NoLine THEN Stop(p, "need_more")
     ELSE IF line.is # <<"empty">> THEN Stop(p, "bad")
     ELSE Go("advanced", [p EXCEPT !.state = "body_chunk_header"], line.used)

ReadChunkTrailer(p, window) ==
  LET line == NextLine(window)
  IN IF line = NoLine THEN Unfinished(p, window, MaxLine)
     ELSE IF line.is = <<"empty">> THEN Go("complete", [p EXCEPT !.state = "done"], line.used)
     ELSE IF line.size > MaxLine THEN Stop(p, "limit")
     ELSE IF line.is[1] # "field" THEN Stop(p, "bad")
     ELSE IF p.trailers + 1 > MaxFields THEN Stop(p, "limit")
     ELSE Go("advanced", [p EXCEPT !.trailers = @ + 1], line.used)

\* One turn of the loop in parse(), over the bytes not yet released.
Step(p, window) ==
  CASE p.state = "start_line" -> ParseStartLine(p, window)
    [] p.state = "headers" -> ParseHeaders(p, window)
    [] p.state = "body_length" -> ReadLengthBody(p, window)
    [] p.state = "body_chunk_header" -> ReadChunkHeader(p, window)
    [] p.state = "body_chunk_data" -> ReadChunkData(p, window)
    [] p.state = "body_chunk_trailer" -> ReadChunkTrailer(p, window)
    [] p.state = "done" -> Stop(p, "complete")
=============================================================================
