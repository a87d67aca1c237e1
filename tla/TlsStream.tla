----------------------------- MODULE TlsStream -----------------------------
(***************************************************************************)
(* Two TLS streams over one connection: the asynchronous wrapper that      *)
(* drives a synchronous TLS engine over an underlying stream.              *)
(*                                                                         *)
(* The engine talks to OpenSSL through a pair of bounded memory buffers;   *)
(* the wrapper moves ciphertext between them and the underlying stream,    *)
(* which takes and gives any number of bytes at a time.  A record is two   *)
(* units long, so every transfer can tear it.  OpenSSL is external: it     *)
(* performs a three-flight handshake, seals data and close_notify records, *)
(* and fails on a record that is not the whole next one of its peer.       *)
(* Tasks may overlap, be cancelled, time out or be destroyed while they    *)
(* wait for the underlying stream.                                         *)
(***************************************************************************)
EXTENDS Naturals, Sequences

CONSTANTS
  Tasks,      \* tasks that use a stream
  EndOf,      \* the end whose stream a task uses: "client" or "server"
  MaxWrites,  \* bound on the data records an end writes
  BioSize,    \* capacity of each half of the BIO pair
  PipeSize    \* what the underlying stream holds in one direction

ASSUME SizesAssumption == BioSize \in Nat \ {0} /\ PipeSize \in Nat \ {0} /\ MaxWrites \in Nat

Ends == {"client", "server"}

ASSUME TasksAssumption == EndOf \in [Tasks -> Ends]

Peer(e) == IF e = "client" THEN "server" ELSE "client"

VARIABLES
  engine,   \* Engine::Impl: ready, failed, sent_shutdown, peer_closed
  active,   \* State::active
  ssl,      \* OpenSSL: flights done, units to push, units pulled, records sealed and opened
  bioIn, bioOut,
  pipe,     \* units on their way to each end
  closed,   \* ends whose caller has closed the underlying stream
  op,       \* each task's operation: where it is, kind, drained units, the engine's last step
  got,      \* data records each end's reads returned
  wrote,    \* data records each end's writes reported
  errors,   \* what each end was told of its peer: "eof", "truncated", a fatal error
  rejected  \* the client has rejected the server's certificate

vars == <<engine, active, ssl, bioIn, bioOut, pipe, closed, op, got, wrote, errors, rejected>>
world == <<pipe, closed, got, wrote, errors, rejected>>

NoOp == [at |-> "none", kind |-> "none", out |-> <<>>, step |-> "none", sealed |-> FALSE]

Init ==
  /\ engine = [e \in Ends |-> [ready |-> FALSE, failed |-> FALSE, shut |-> FALSE, eof |-> FALSE]]
  /\ active = [e \in Ends |-> FALSE]
  /\ ssl = [e \in Ends |-> [flight |-> 0, out |-> <<>>, in |-> <<>>, sealed |-> 0, opened |-> 0]]
  /\ bioIn = [e \in Ends |-> <<>>] /\ bioOut = [e \in Ends |-> <<>>]
  /\ pipe = [e \in Ends |-> <<>>] /\ closed = {}
  /\ op = [t \in Tasks |-> NoOp]
  /\ got = [e \in Ends |-> 0] /\ wrote = [e \in Ends |-> 0] /\ errors = [e \in Ends |-> {}]
  /\ rejected = FALSE

(* ------------------------- tasks and the guard ------------------------- *)

Fails(e, error) == errors' = [errors EXCEPT ![e] = @ \union {error}]
Invalidated(e) == [engine EXCEPT ![e].failed = TRUE]

Busy(e) == active[e]

\* run(): the guard, then the operation.  A task that finds the stream active is told so
\* (operation_in_progress) and changes nothing.
Begin(t) ==
  LET e == EndOf[t]
  IN /\ op[t].at = "none" /\ e \notin closed /\ ~Busy(e)
     /\ \E kind \in {"handshake", "read", "write", "shutdown"} :
          /\ kind = "write" => wrote[e] < MaxWrites
          /\ op' = [op EXCEPT ![t] = [NoOp EXCEPT !.at = "call", !.kind = kind]]
     /\ active' = [active EXCEPT ![e] = TRUE]
     /\ UNCHANGED <<engine, ssl, bioIn, bioOut>> /\ UNCHANGED world

\* The task ends; its guard lets go of the stream.
Leave(t) ==
  /\ op' = [op EXCEPT ![t] = NoOp]
  /\ active' = [active EXCEPT ![EndOf[t]] = FALSE]

To(t, place) == op' = [op EXCEPT ![t].at = place] /\ active' = active

(* ------------------------------ the engine ----------------------------- *)

\* What each call of the engine refuses before it touches OpenSSL.
Usable(e, kind) ==
  /\ ~engine[e].failed
  /\ kind # "handshake" => engine[e].ready
  /\ kind # "shutdown" => ~engine[e].shut
  /\ kind \in {"handshake", "write"} => ~engine[e].eof

\* The engine is called: it refuses (invalid_state), answers from what it knows, or calls OpenSSL.
CallEngine(t) ==
  LET e == EndOf[t]
      kind == op[t].kind
      known == CASE kind = "handshake" -> engine[e].ready
                 [] kind = "read" -> engine[e].eof
                 [] kind = "shutdown" -> engine[e].shut
                 [] OTHER -> FALSE
  IN /\ op[t].at = "call"
     /\ IF ~Usable(e, kind) THEN Leave(t)
        ELSE /\ op' = [op EXCEPT ![t].at = IF known THEN "flush" ELSE "ssl",
                                 ![t].step = IF kind = "read" THEN "eof" ELSE "complete"]
             /\ active' = active
     /\ UNCHANGED <<engine, ssl, bioIn, bioOut>> /\ UNCHANGED world

\* OpenSSL: a record of this end, and whether an end has the next one of its peer.
Record(e, what) == [i \in 1..2 |-> <<what, ssl[e].sealed + 1, i>>]
HasRecord(e) == Len(ssl[e].in) >= 2
Opens(e) == \A i \in 1..2 : ssl[e].in[i][2] = ssl[e].opened + 1 /\ ssl[e].in[i][3] = i

\* Flights 1 and 3 are the client's, flight 2 the server's.
Mine(e) == (ssl[e].flight % 2 = 0) = (e = "client")
WantsRecord(t) ==
  \/ op[t].kind = "read"
  \/ op[t].kind = "handshake" /\ ssl[EndOf[t]].flight < 3 /\ ~Mine(EndOf[t])

\* Slip: input is awaited before the output it answers has been sent.
Report_InputFirst(t, step) ==
  /\ op' = [op EXCEPT ![t].at = IF step = "want_input" THEN "receive" ELSE "flush", ![t].step = step]
  /\ active' = active

\* The engine's verdict on the OpenSSL call; drive() flushes next.
Report(t, step) == op' = [op EXCEPT ![t].at = "flush", ![t].step = step] /\ active' = active

\* OpenSSL moves a sealed unit to the BIO, or wants room there.
SslPush(t) ==
  LET e == EndOf[t]
  IN /\ op[t].at = "ssl" /\ ssl[e].out # <<>>
     /\ IF Len(bioOut[e]) < BioSize
        THEN /\ bioOut' = [bioOut EXCEPT ![e] = Append(@, Head(ssl[e].out))]
             /\ ssl' = [ssl EXCEPT ![e].out = Tail(@)]
             /\ UNCHANGED <<op, active>>
        ELSE Report(t, "want_output") /\ UNCHANGED <<ssl, bioOut>>
     /\ UNCHANGED <<engine, bioIn>> /\ UNCHANGED world

\* OpenSSL seals what the operation sends: a flight, a data record or close_notify, once.
SslSeal(t) ==
  LET e == EndOf[t]
      what == CASE op[t].kind = "write" -> "data" [] op[t].kind = "shutdown" -> "close" [] OTHER -> "flight"
  IN /\ op[t].at = "ssl" /\ ssl[e].out = <<>>
     /\ IF what = "flight" THEN op[t].kind = "handshake" /\ ssl[e].flight < 3 /\ Mine(e)
                           ELSE ~op[t].sealed
     /\ ssl' = [ssl EXCEPT ![e].out = Record(e, what), ![e].sealed = @ + 1,
                           ![e].flight = IF what = "flight" THEN @ + 1 ELSE @]
     /\ op' = [op EXCEPT ![t].sealed = what # "flight"]
     /\ UNCHANGED <<engine, active, bioIn, bioOut>> /\ UNCHANGED world

\* Everything is sealed and pushed: the call succeeds.
SslDone(t) ==
  LET e == EndOf[t]
      kind == op[t].kind
  IN /\ op[t].at = "ssl" /\ ssl[e].out = <<>>
     /\ IF kind = "handshake" THEN ssl[e].flight = 3 ELSE op[t].sealed
     /\ engine' = [engine EXCEPT ![e].ready = TRUE, ![e].shut = @ \/ kind = "shutdown"]
     /\ Report(t, "complete")
     /\ UNCHANGED <<ssl, bioIn, bioOut>> /\ UNCHANGED world

\* OpenSSL takes what the BIO holds, or wants input.
SslPull(t) ==
  LET e == EndOf[t]
  IN /\ op[t].at = "ssl" /\ ssl[e].out = <<>> /\ WantsRecord(t) /\ ~HasRecord(e)
     /\ IF bioIn[e] # <<>>
        THEN /\ ssl' = [ssl EXCEPT ![e].in = Append(@, Head(bioIn[e]))]
             /\ bioIn' = [bioIn EXCEPT ![e] = Tail(@)]
             /\ UNCHANGED <<op, active>>
        ELSE Report(t, "want_input") /\ UNCHANGED <<ssl, bioIn>>
     /\ UNCHANGED <<engine, bioOut>> /\ UNCHANGED world

\* A fatal failure: classify() marks the engine, an alert is left to be flushed.
Fatal(t, e) ==
  /\ engine' = Invalidated(e)
  /\ bioOut' = [bioOut EXCEPT ![e] = @ \o Record(e, "alert")]
  /\ Report(t, "fatal")

\* OpenSSL opens the next record, or rejects it.
SslOpen(t) ==
  LET e == EndOf[t]
      what == ssl[e].in[1][1]
      fits == Opens(e) /\ what \in (IF op[t].kind = "read" THEN {"data", "close"} ELSE {"flight"})
      opened == [ssl EXCEPT ![e].in = SubSeq(@, 3, Len(@)), ![e].opened = @ + 1,
                            ![e].flight = IF what = "flight" THEN @ + 1 ELSE @]
  IN /\ op[t].at = "ssl" /\ ssl[e].out = <<>> /\ WantsRecord(t) /\ HasRecord(e)
     /\ \/ /\ fits /\ ssl' = opened
           /\ engine' = [engine EXCEPT ![e].eof = @ \/ what = "close"]
           /\ CASE what = "data" -> Report(t, "complete")
                [] what = "close" -> Report(t, "eof")
                [] OTHER -> UNCHANGED <<op, active>>
           /\ UNCHANGED <<bioOut, rejected, errors>>
        \/ /\ fits /\ e = "client" /\ what = "flight"
           /\ rejected' = TRUE /\ Fails(e, "certificate_verify_failed") /\ Fatal(t, e)
           /\ ssl' = ssl
        \/ /\ ~fits /\ Fails(e, "protocol_error") /\ Fatal(t, e)
           /\ UNCHANGED <<ssl, rejected>>
     /\ UNCHANGED <<bioIn, pipe, closed, got, wrote>>

(* ------------------------------ the wrapper ---------------------------- *)

Waiting(t) == op[t].at = "receive" \/ (op[t].at = "flush" /\ op[t].out # <<>>)

\* Slip: after a short write the last unit of it is sent again.
Unsent_OffByOne(out, n) == IF n = Len(out) THEN <<>> ELSE SubSeq(out, n, Len(out))

Unsent(out, n) == SubSeq(out, n + 1, Len(out))

\* flush() drains the BIO into its buffer.
Drain(t) ==
  LET e == EndOf[t]
  IN /\ op[t].at = "flush" /\ op[t].out = <<>> /\ bioOut[e] # <<>>
     /\ op' = [op EXCEPT ![t].out = bioOut[e]]
     /\ bioOut' = [bioOut EXCEPT ![e] = <<>>]
     /\ UNCHANGED <<engine, active, ssl, bioIn>> /\ UNCHANGED world

\* The underlying stream takes some of what is drained.
WriteSome(t) ==
  LET e == EndOf[t]
      out == op[t].out
      room == PipeSize - Len(pipe[Peer(e)])
  IN /\ op[t].at = "flush" /\ out # <<>>
     /\ \E n \in 1..Len(out) :
          /\ n <= room
          /\ pipe' = [pipe EXCEPT ![Peer(e)] = @ \o SubSeq(out, 1, n)]
          /\ op' = [op EXCEPT ![t].out = Unsent(out, n)]
     /\ UNCHANGED <<engine, active, ssl, bioIn, bioOut, closed, got, wrote, errors, rejected>>

\* Slip: an operation ends with the engine's call, its output still to be flushed.
Flushed_Never(t) == op[t].at = "flush" /\ op[t].out = <<>>

Flushed(t) == op[t].at = "flush" /\ op[t].out = <<>> /\ bioOut[EndOf[t]] = <<>>

\* Nothing is left to flush: the operation ends or goes round the loop of drive().
AfterFlush(t) ==
  LET e == EndOf[t]
      kind == op[t].kind
      done == op[t].step = "complete"
  IN /\ Flushed(t)
     /\ CASE op[t].step = "want_output" -> To(t, "call")
          [] op[t].step = "want_input" -> To(t, "receive")
          [] OTHER -> Leave(t)
     /\ got' = [got EXCEPT ![e] = IF done /\ kind = "read" THEN @ + 1 ELSE @]
     /\ wrote' = [wrote EXCEPT ![e] = IF done /\ kind = "write" THEN @ + 1 ELSE @]
     /\ errors' = [errors EXCEPT ![e] = IF op[t].step = "eof" THEN @ \union {"eof"} ELSE @]
     /\ UNCHANGED <<engine, ssl, bioIn, bioOut, pipe, closed, rejected>>

\* What the input half of the BIO pair still takes, and what it holds after a feed.
InputCapacity(e) == IF engine[e].failed THEN 0 ELSE BioSize - Len(bioIn[e])
Fed(e, ciphertext) == [bioIn EXCEPT ![e] = @ \o ciphertext]

\* receive(): some ciphertext arrives and is fed to the engine.
Receive(t) ==
  LET e == EndOf[t]
  IN /\ op[t].at = "receive"
     /\ IF InputCapacity(e) = 0
        THEN engine' = Invalidated(e) /\ Fails(e, "protocol_error") /\ Leave(t) /\ UNCHANGED <<bioIn, pipe>>
        ELSE /\ \E n \in 1..Len(pipe[e]) :
                  /\ n <= InputCapacity(e)
                  /\ bioIn' = Fed(e, SubSeq(pipe[e], 1, n))
                  /\ pipe' = [pipe EXCEPT ![e] = SubSeq(@, n + 1, Len(@))]
             /\ To(t, "call") /\ UNCHANGED <<engine, errors>>
     /\ UNCHANGED <<ssl, bioOut, closed, got, wrote, rejected>>

\* Slip: the end of the underlying stream is the end of the data.
EndOfStream_Clean == "eof"

\* An end of the underlying stream without close_notify is a truncation.
EndOfStream == "truncated"

Truncated(t) ==
  LET e == EndOf[t]
  IN /\ op[t].at = "receive" /\ pipe[e] = <<>> /\ Peer(e) \in closed
     /\ engine' = Invalidated(e) /\ Fails(e, EndOfStream) /\ Leave(t)
     /\ UNCHANGED <<ssl, bioIn, bioOut, pipe, closed, got, wrote, rejected>>

\* The underlying stream reports an error: a stop, a deadline, a reset.
UnderlyingFails(t) ==
  /\ Waiting(t)
  /\ engine' = Invalidated(EndOf[t]) /\ Leave(t)
  /\ UNCHANGED <<ssl, bioIn, bioOut>> /\ UNCHANGED world

\* The task is destroyed while it waits: its guard invalidates the engine.
Destroy(t) ==
  /\ Waiting(t)
  /\ engine' = Invalidated(EndOf[t]) /\ Leave(t)
  /\ UNCHANGED <<ssl, bioIn, bioOut>> /\ UNCHANGED world

\* The caller closes the underlying stream of an end that is through.
Close(e) ==
  /\ e \notin closed /\ ~active[e] /\ (engine[e].failed \/ engine[e].shut)
  /\ closed' = closed \union {e}
  /\ UNCHANGED <<engine, active, ssl, bioIn, bioOut, pipe, op, got, wrote, errors, rejected>>

Progress(t) ==
  \/ CallEngine(t)
  \/ SslPush(t) \/ SslSeal(t) \/ SslDone(t) \/ SslPull(t) \/ SslOpen(t)
  \/ Drain(t) \/ WriteSome(t) \/ AfterFlush(t) \/ Receive(t) \/ Truncated(t)

Next ==
  \/ \E t \in Tasks : Begin(t) \/ Progress(t) \/ UnderlyingFails(t) \/ Destroy(t)
  \/ \E e \in Ends : Close(e)

Spec == Init /\ [][Next]_vars

\* Engines run without waiting and the connection moves what it can; callers owe nothing.
FairSpec == Spec /\ \A t \in Tasks : WF_vars(Progress(t))

(* ---------------------------- properties ------------------------------ *)

\* Every field keeps its type, the memory buffers and the connection their capacity, and a
\* stream runs the operation of one task at a time.
TypeOK ==
  /\ \A e \in Ends :
       /\ engine[e] \in [ready : BOOLEAN, failed : BOOLEAN, shut : BOOLEAN, eof : BOOLEAN]
       /\ Len(bioIn[e]) <= BioSize /\ Len(pipe[e]) <= PipeSize
       /\ ssl[e].flight \in 0..3 /\ wrote[e] \in 0..MaxWrites /\ got[e] \in 0..MaxWrites
       /\ active[e] = (\E t \in Tasks : EndOf[t] = e /\ op[t].at # "none")
  /\ closed \subseteq Ends /\ rejected \in BOOLEAN
  /\ \A t \in Tasks : op[t].at \in {"none", "call", "ssl", "flush", "receive"}

\* However transfers tear the records, tasks overlap and waits are abandoned, neither end
\* ever sees a record out of place: a protocol error has a rejected certificate behind it.
\* An engine is never driven again after ciphertext of it was lost (OperationGuard, flush).
NoSpuriousErrors == (\E e \in Ends : "protocol_error" \in errors[e]) => rejected

\* A read reports the end of the data only after its peer's close_notify, and then every
\* write the peer was told of has been read: a cut connection is never taken for an end.
EofMeansComplete ==
  \A e \in Ends : "eof" \in errors[e] => engine[Peer(e)].shut /\ got[e] = wrote[Peer(e)]

\* Between operations a usable stream holds back nothing OpenSSL produced: what an
\* operation reported as done has been given to the underlying stream.
NothingHeldBack ==
  /\ TypeOK
  /\ \A e \in Ends : (~active[e] /\ ~engine[e].failed) => bioOut[e] = <<>> /\ ssl[e].out = <<>>

Handshaking(e) == \E t \in Tasks : EndOf[t] = e /\ op[t].kind = "handshake"

\* Two ends that are both in their handshake get through it, whatever the buffers hold,
\* unless one of them fails or gives up: every flight is flushed before its answer is awaited.
HandshakeCompletes ==
  (\A e \in Ends : Handshaking(e))
    ~> \/ \A e \in Ends : engine[e].ready
       \/ \E e \in Ends : engine[e].failed \/ ~(engine[e].ready \/ Handshaking(e))
=============================================================================
