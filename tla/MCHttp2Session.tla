--------------------------- MODULE MCHttp2Session ---------------------------
(* Small instances of Http2Session for TLC.  The two ends differ in their   *)
(* limits, so that what one may send the other may have to reset.           *)
EXTENDS Http2Session

Message(size, body, method) == [size |-> size, body |-> body, method |-> method]

\* A request with a body; then one without, a HEAD, or one whose fields exceed the server's limit.
TwoRequests ==
  <<{Message(1, 1, "POST")}, {Message(1, 0, "GET"), Message(1, 0, "HEAD"), Message(2, 0, "HEAD")}>>

AnswerSizes == {2, 3}

Both(c, s) == [e \in End |-> IF e = "client" THEN c ELSE s]

StreamLimits == Both(2, 1)
HeaderLimits == Both(2, 1)
BodyLimits == Both(2, 3)
QueuedLimits == Both(3, 3)
FrameLimits == Both(2, 2)
=============================================================================
