---------------------------- MODULE MCHttpServer ----------------------------
(* HttpServer for TLC: the messages a peer sends, and the scripts made of them. *)
EXTENDS HttpServer, TLC

Get == [line |-> 1, field |-> 1, ok |-> TRUE, head |-> FALSE, v10 |-> FALSE,
        fields |-> <<>>, chunks |-> <<>>, digits |-> 1, ext |-> 0, trailers |-> 0]

WithBody(n) == [Get EXCEPT !.fields = << <<"length", n>> >>, !.chunks = <<n>>]
InChunks(chunks) == [Get EXCEPT !.fields = << <<"te">> >>, !.chunks = chunks]

Good ==
  { Get, [Get EXCEPT !.head = TRUE], [Get EXCEPT !.fields = << <<"close">> >>],
    [Get EXCEPT !.v10 = TRUE], [Get EXCEPT !.v10 = TRUE, !.fields = << <<"keep">> >>],
    WithBody(0), WithBody(3), [WithBody(1) EXCEPT !.fields = << <<"length", 1>>, <<"length", 1>> >>],
    InChunks(<<1, 2>>), [InChunks(<<1>>) EXCEPT !.trailers = 1, !.ext = 1] }

Bad ==
  { [Get EXCEPT !.ok = FALSE], [Get EXCEPT !.line = 3], [Get EXCEPT !.fields = << <<"bad">> >>],
    [Get EXCEPT !.fields = << <<"field">> >>, !.field = 3],
    [Get EXCEPT !.fields = << <<"field">>, <<"field">>, <<"field">> >>],
    WithBody(4), [WithBody(1) EXCEPT !.v10 = TRUE, !.fields = << <<"te">> >>],
    [WithBody(1) EXCEPT !.fields = << <<"length", 1>>, <<"length", 2>> >>],
    [WithBody(1) EXCEPT !.fields = << <<"length", 1>>, <<"te">> >>],
    InChunks(<<2, 2>>), InChunks(<<4>>), [InChunks(<<1>>) EXCEPT !.ext = 2],
    [InChunks(<<1>>) EXCEPT !.trailers = 3] }

\* Lines as long as their limit allows.
Longest == { [Get EXCEPT !.line = MaxLine], [Get EXCEPT !.fields = << <<"field">> >>, !.field = MaxLine] }

\* Chunk sizes padded with zeros, within what an unfinished line may hold and beyond it.
Padded == { [InChunks(<<1>>) EXCEPT !.digits = d, !.ext = x] : d \in {2, 5}, x \in {0, 1} }

MixedScripts == {<<m>> : m \in Bad \union Longest \union Padded} \union {<<m, n>> : m \in Good, n \in Good \union Bad}
                \union {<<Get, WithBody(3), Get>>}
=============================================================================
