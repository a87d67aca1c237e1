# Formal models of Mira

Mira is a C++23 coroutine networking library. This directory holds TLA+ models of the parts
whose correctness depends on the order in which things happen, TLC configurations that check
them on small instances, and TLAPS proofs about the loops, the wake protocol, the task scope, the
resolver and the TLS stream. `PROJECT.json` lists the components,
the runs, the source lines behind every definition, the hazards and the theorems.

Paths below are relative to `src/modules/`.

## 1. The system

**Event loop** (`core`). `EventLoop` runs coroutines on one thread and completes their waits.
Every operation may carry a stop token and an absolute deadline and gets an identity that is
never reused. There are two backends. `event_loop_posix.cpp` keeps an operation table with three
indices (descriptor slots, a timer queue, datagram tokens) over one-shot interest in epoll or
kqueue. `event_loop_iocp.cpp` hands operations to a completion port, so that a record must
outlive the kernel's use of it. Other threads reach a loop through `post`, stop tokens and `stop`,
which queue work and wake the loop through a collapsing flag and a self-pipe or packet.

**Task scope** (`core`). `TaskScope` owns child coroutines: it counts them, stops them all when
one throws, keeps their frames until it is safe to free them, and resumes the joining parent.

**Resolver** (`transport`). A pool of threads runs blocking lookups from a bounded queue for
coroutines that sleep on a loop; stop tokens, deadlines, the loop's shutdown and the resolver's
destructor all compete to end the sleep.

**HTTP/1 server** (`http`). An incremental request parser over a byte buffer, and
`serve_connection`, which reads requests, gives them to a handler with a `ResponseWriter`, and
decides whether the connection lives on.

**TLS stream** (`tls`). An asynchronous wrapper that drives a synchronous engine over a bounded
memory buffer pair and moves ciphertext to and from any underlying stream.

**HTTP/2 session** (`http2`). `Session` keeps entries, body budgets and the state of a connection
around nghttp2, whose callbacks it handles; a connection feeds it bytes and sends its output.

**QUIC and HTTP/3** (`quic`, `http3`). An engine around ngtcp2 holds what it sends until it is
acknowledged and what it received until it is consumed; the HTTP/3 engine puts nghttp3 on top. Both
have a connection class with the same pump, which one caller drives over datagrams, timers and
deadlines.

**The rest.** TCP, UDP and endpoints (`transport`); the HTTP/1 client (`http`); buffers, tasks and
error codes (`core`).

How they interact: sockets, the resolver and `TaskScope` users are coroutines resumed by the loop;
`tls::Stream`, `serve_connection` and the HTTP/2, QUIC and HTTP/3 connections are templates over any
stream or datagram transport and meet the loop only through it; `options` (stop token and deadline) are passed unchanged down every layer.

## 2. Modules

| Module | Models | State and actions |
|---|---|---|
| `OperationContract` | what `event_loop.hpp` promises of one operation | phase, requests to cancel, passed deadlines |
| `PosixLoop` | `event_loop_posix.cpp`, `poller_epoll.cpp`, `poller_kqueue.cpp`, timer queue of `loop_common.hpp` | `Impl`'s tables, the kernel's interest, a stack of deliveries; submit, arm, cancel, detach, post, run_once, poll, deliver, shutdown |
| `IocpLoop` | `event_loop_iocp.cpp` | the table, kernel operations and packets, addresses that are reused, stop callbacks in two steps, exact drain |
| `WakeProtocol` | `post`/`request_cancel`/`stop`/`wake` and `run`/`run_once` of both backends | queues, `wake_pending_`, pipe or packets, where each thread is |
| `TaskScope` | `task_scope.hpp` | counters, runner frames, the native call stack; spawn, resume, suspend, complete, throw, return, join, destroy |
| `Resolver` | `resolver.cpp` | `State`, `Job`, threads, queries, callbacks; each locked section is an action |
| `RequestParser` | `parser.cpp` | operators without state: `Step` is one turn of `parse()` |
| `HttpServer` | `connection.hpp`, the writes of `stream.hpp` | one connection, from script to result, around `RequestParser` |
| `TlsStream` | `tls/stream.hpp`, `tls/src/engine.cpp` | two ends, several tasks each, BIO pairs, the connection |
| `Http2Session` | `http2/src/session.cpp`, `http2/connection.hpp` | a client and a server session and the frames between them; request, respond, informational, receive, output, take_body, release, cancel, goaway |
| `QuicEngine` | `quic/src/engine.cpp` | operators from an engine to the engine after a call: streams, send chunks, credit, events, expiry |
| `Http3Engine` | `http3/src/engine.cpp` | operators over a `QuicEngine` with what nghttp3 knows of each stream |
| `QuicConnection` | `quic/connection.hpp`, `http3/connection.hpp` | one engine, a caller's coroutine in the middle of a call, the peer, datagrams, the clock |
| `MC...` | instances for TLC | requests, scripts and names |
| `PosixLoopProofs`, `PosixWaitProofs` | theorems about `PosixLoop` | table and contract; waiting, verdicts and datagrams |
| `IocpLoopProofs` | theorems about `IocpLoop` | |
| `WakeProofs`, `TaskScopeProofs`, `ResolverProofs` | theorems about `WakeProtocol`, `TaskScope`, `Resolver` | |
| `TlsStepProofs`, `TlsProofs` | theorems about `TlsStream` | the invariant and what each action does; the conclusions |

Definitions whose names end in an underscore and a word (`Unlink_KeepsRecord`) and whose comment
begins with "Slip" are deliberately wrong variants of the definition after them. They are not part
of any specification; replacing the definition by its slip must make a property fail.

### PosixLoop

Control on the loop thread is a stack: a batch of `run_once`, the emptying of the table by
`shutdown`, or a `detach` that fails its waiters, each of which resumes coroutines that may submit,
cancel, post, close or return. That is where the code is delicate, since each of these runs in the
middle of a loop over data computed before. A batch is ordered as in the code (completions, then
timers by time, then cancellations), and each entry is checked against the table when it is
delivered. `arm` is a second step after the record is in the table. epoll replaces the interest of
a descriptor, kqueue adds to it. Descriptors can be closed and their number reused.
A coroutine that is resumed for a datagram retries on the descriptor number it holds, unless its
token was revoked; `strayed` records a retry on a number that is closed or reused.

Only the loop's thread submits: `event_loop.hpp:15-19` gives other threads `post`, `stop` and stop
tokens and nothing else, and these come at any moment, also in the middle of a batch. `run_once`
works out its timeout from the queues and the timers: a poll that has one ("poll") returns in the end,
a poll that has none ("wait") may block for good.

Left out: what ends a poll without a timeout (`WakeProtocol`); a refused `arm` inside
`release_registration`, which the code ignores; more than one pollable event per descriptor and
direction, which one-shot arming excludes; submissions from other threads (section 6).

### IocpLoop

A cancellation or a deadline pins a reason and asks the kernel to hurry; the operation completes
only when its packet is dequeued. `fix_reason` and `cancel_io` are two steps of a stop callback that
runs on any thread, and between them the operation may finish, be freed, and its address be used
again; the destructor of the callback waits for it. `Collect` is one step,
an abstraction: the code classifies packets, takes the queues under the lock and then pins deadlines
one by one, and a stop on another thread that falls between these is taken to come before or after
the whole. (A sleep stopped between the taking of the queues and its deadline is answered one round
later in the code.)

### WakeProtocol

`wake` is two steps (exchange the flag, signal), `run_once` five (timeout, poll, collect, drain,
deliver). No timer is pending, so an empty queue means blocking without a limit, the case in which a
lost wake-up is never repaired by anything else.

### TaskScope

The native stack is explicit, since every hazard of this class is about which `resume()` call is
still on it. A coroutine that suspends leaves its native frame; the last child hands its frame to
the waiting parent. `dangling` records a use of freed memory.

### Resolver

The state's mutex makes one action of each locked section. The job's mutex is explicit, because a
query holds it while it destroys its stop callback, which waits for a callback that may want the
same mutex. What `erase_if` leaves of the queue is stated as the remainder in its old order
(`Pruned`), not computed. `getaddrinfo` returns endpoints in any order and any number, repetitions
included; the loop of `work` that collects them is one endpoint per step, so nothing bounds the list
but the set `Endpoints`.

### RequestParser and HttpServer

A byte is text of a line, CR, LF or body. The LF carries what its line says, so the grammar is
reduced to meanings and to "malformed" while lengths, line ends and limits are exact. Sizes are
added modulo `Word` (2^64 in the code). The peer sends a script of messages; reads return any
prefix of what is left; the handler makes any calls of the writer and fails when it likes; a write
may fail after any of its parts. Timeouts end a read in the window ("idle" or "request") the code
has chosen for it. A chunk size is written with any number of digits, leading zeros included.

### TlsStream

OpenSSL is external: a handshake of three flights, records of two units, a close_notify, and failure
on any unit out of place. Since a record is two units, every partial transfer tears one. Tasks may
start operations while another is running, fail in the underlying stream or be destroyed.

### Http2Session

nghttp2 is external: its queues, windows, stream states and the order of its callbacks are what
`session.cpp` relies on. Bodies are counted in units; a message is what the limits tell apart. One
call of `output` sends one frame, the least that `max_output_bytes` allows, so that every queue is
met half empty. The peers are Mira's own sessions, except that a server may also send informational
responses and a client a CONNECT, which `request` refuses to send and `frame_received` resets.

### QuicEngine, Http3Engine and QuicConnection

The engines have no control of their own and are operators; the connection is the state machine. A
call tries to take what it is after and pumps a round when there is nothing; a round feeds a
datagram, expires a timer or fails, and the call looks again. Packets, loss recovery and flow control
are ngtcp2's: an acknowledgement or a loss is a choice of the environment, and so is which streams are
blocked by flow or congestion control while a flush polls. `Flushes` is the set of everything a flush can
come to: it works, the engine is over, the deadline has passed when there is a packet to send, or the k-th
send or poll fails. A packet that arrives may carry data, acknowledgements, RESET_STREAM, STOP_SENDING,
GOAWAY and close. Three timers end a wait: loss detection (`probe`), and the handshake and idle timers
(`giveUp`), after which `handle_expiry` fails the connection. A failed engine remembers its `cause`.

What a call has taken is given to the caller only when its flush works (`Give`), and otherwise recorded as
taken in vain (`Drop`: `dropped`, `missed`). Where the code departs from its comments the state remembers it
(`late`, `skipped`, `cut`), and the property names the exception.

## 3. Runs

| Run | What it asks | Bounds |
|---|---|---|
| `posix_epoll` | indices agree, nobody forgotten or stranded, shutdown drains, datagrams stay off reused numbers, completions win, the contract is implemented | one descriptor, three operations of both directions, one refused arm, one reuse, one posted callable |
| `posix_kqueue` | the same stranding question with kqueue's semantics, the verdict of a sleep, answers in the end | one descriptor, two operations of both directions or sleeps whose deadline is before, at or after the wake-up, two ticks, one refused arm, one reuse |
| `posix_rearm` | *violated*: nobody waits with nothing armed, after a refused re-arm | two descriptors, five operations |
| `wake` | no wake-up is lost over a completion port, requests are noticed, the pipe cannot fill | two threads, three calls each, both backends |
| `wake_posix` | *violated*: `stop()` makes `run()` return, over a self-pipe | as above |
| `iocp` | table exact against the kernel, exact drain, cancellation reaches the kernel and only its own operation, completions beat deadlines, accepted sockets settled, contract | one handle, two addresses, two operations, one stopper |
| `scope` | the parent waits for somebody and is woken, joined means done, nothing dangles | three children that spawn each other, or two and an outsider |
| `resolver` | nobody stranded, answers accounted for, quota for live jobs, everybody returns | two queries, one thread, a queue of one, one endpoint |
| `http` | requests and bodies told apart, only the faulty refused, one framing, right budget, returns | one or two messages, limits of 2 to 4, chunk sizes of 1, 2 and 5 digits, reads of up to 4 bytes, three calls of the writer |
| `tls` | no spurious errors, eof means complete, nothing held back, handshakes complete | two tasks on one end, one on the other, two writes, buffers of 3 and 2 units |
| `http2` | budgets exact, refused requests untouched, ended streams whole, nobody waits for ever | two requests, two events, one frame in flight each way, windows of 1 and 2 |
| `quic` | budgets and credit exact, data kept until acknowledged, nothing lost, readers and deadlines | a QUIC client with two own streams and one of the peer, an HTTP/3 client and an HTTP/3 server with two requests; room for two records, budgets of 2, queues of 3 events, one tick, datagrams of two frames, one disturbance |

Why these bounds are enough to be interesting: three operations on one descriptor are two waiters
and one that a resumed coroutine submits inside the batch; one refusal, one reuse and one stop are
what each hazard needs; two calling threads let one overtake the other between its two steps and
the third call is the one that is lost; two queries for a queue of one reach the full queue, and
pruning; limits of two or three bytes are met, missed by one and exceeded by messages of up to four;
a window of one unit blocks every second unit of a body, and a budget of two is filled by one stream
and then contended for by the next. Deadlock checking is off where a system may rightly stop (all
operations answered, all calls made).

Each module's `TypeOK` is checked as a conjunct of one of its invariants: `TableSound`, `NoWakeUpLost`,
`TableIsExact`, `WaitIsForSomebody`, `NobodyStranded`, `StreamStaysInStep`, `NothingHeldBack`,
`BytesAccounted` and `BudgetsExact`.

### Fairness

* `PosixLoop`: the owner calls `run_once` again as long as it returns, a poll that was given a timeout
  returns and does not fail for ever, deliveries and submissions go on, coroutines give control back, time
  passes. Nothing is assumed of a poll without a timeout, so `AnsweredInTheEnd` holds because `run_once`
  never chooses one while a timer, a posted callable or a cancellation is there. Strong fairness is used
  where an action is switched off and on again by what coroutines do in between.
* `WakeProtocol`: threads keep running; the loop's only wait is the one in `Poll`. Nobody has to call.
* `TaskScope`: a join waits for its children, so it is promised only if they are resumed and end.
* `Resolver`: threads are scheduled, lookups return, the loop is pumped. Nobody has to stop or expire.
* `HttpServer`: reads, writes and the handler complete.
* `TlsStream`: the engine runs and the connection moves what it can; callers owe nothing.
* `Http2Session`, `QuicConnection`: safety only. `NobodyWaits` and `ReaderWaitsForNews` say as
  invariants what liveness would need: whoever waits has nothing in hand, and somebody else has.

## 4. What the violated runs show

* `wake_posix`: `run_once` clears `wake_pending_` under the lock (`event_loop_posix.cpp:452`) and drains
  the pipe after it (`:472`). A `wake()` between the two leaves the flag set and the pipe empty; from then
  on every wake-up is suppressed until something else ends the wait.
* `posix_rearm`: `to_rearm` is computed before the re-arm loop. A refused re-arm resumes coroutines in the
  middle of it (`:488`); what they submit on a later descriptor is then overwritten by the stale entry.

## 5. Proofs

Proved with TLAPS for every value of the constants, from the assumptions the modules name
(`PosixLoop`: Bounds, Backend, Names, Requests; `IocpLoop`: Bounds, Names, Requests; `WakeProtocol`:
Calls, Backends; `TaskScope`: Actors; `Resolver`: Options, Finite; `TlsStream`: Sizes, Tasks). Each
preservation lemma has one step per action.

**POSIX loop** (`PosixLoopProofs`). `TableAlwaysSound` follows from `TableInv`. `IndicesSound` alone is not
inductive, since a new record must not collide with an old id (`Fresh`). `NoneForgotten` needs
`IndicesSound`, because unlinking one operation must not remove another's slot. `ShutdownDrains` speaks only
of the end of `shutdown`; the invariant says what holds on the way: once closing, whatever is live is in
the delivery that is emptying the table (`DrainSound`). While a submission is between its record
and its `arm` nothing else runs on the loop's thread, so the record is still there (`ArmingSound`). `PosixKeepsContract`: every step maps to a step of
`OperationContract` or a stutter. It needs `Unanswered` (a live or future operation has no answer) and
`CausesKnown` (an answer waiting in a batch already has its cause, at the time it was collected and,
because causes are never taken back, when it is delivered).

**Waiting on the POSIX loop** (`PosixWaitProofs`). `WaitInv` adds what batches and retries rest on: closed
descriptors have no slots (`ClosesSound`), tokens belong to live registrations (`TokensSound`), entries of a
batch were collected for what they say (`EntriesSound`, `ClaimsSound`), sleeps keep their timers
(`TimersKept`), and, over kqueue, filters are armed for whoever waits (`FiltersSound`). From it
`DatagramsStayHome`, `SleepsJudged`, `CompletionsWin`, and `KqueueStrandsNobody`, which is `NoneStranded`
for kqueue; for epoll it is false (`posix_rearm`).

**Completion port** (`IocpLoopProofs`). `LoopInv` relates the table, the kernel's operations, the packets and
the stop callbacks. The table is exact because an entry of the batch is never outstanding in the kernel
except while draining, and `shutdown` owes exactly the outstanding ones, which is a fact about
cardinalities (`OperationsCount`). `CancelsAreAimed`: addresses are unique among operations that are live or
whose callback still runs, and the destructor waits for the callback. `KernelIsAlwaysAsked` needs that a
handle's operations know of its closing (`HandlesSound`); `IocpKeepsContract` needs `CausesKnown`;
`CompletionAlwaysWins` needs `FinishedSound` and `AcceptsSound`.

**Wake-ups** (`WakeProofs`). `WakeInv` counts what is owed to the loop (signals, callers about to signal) and
bounds it for each place of the loop: the pipe cannot fill, and over a port a set flag always has a
signal behind it. Hence `WakeUpsAreKept`.

**Task scope** (`TaskScopeProofs`). `ScopeInv`: `pending_` is the number of unfinished children, and every
native frame belongs to a coroutine whose frame is still there. Hence `ParentWaitsForSomebody` and
`ScopeNeverDangles`.

**Resolver** (`ResolverProofs`). `ResolverInv`, for any queries, threads, capacity and `max_results`. A job is in
the queue once or with exactly one thread, never both (`JobsSound`), so taking and pruning lose none. A
query that waits has not abandoned its job, so pruning strands only cancelled ones, and a cancelled job is
completed or its callback is about to complete it (`PhasesSound`, `CausesSound`). Hence
`SleepersAreServed`. A completion, a verdict and an answer have their causes, which are never taken
back. Lists of results are injective and at most `max_results` long; one too many means that there are
more endpoints than that, and a refusal for a full queue means that as many live jobs are queued:
both compare cardinalities through an injection. Hence `AnswersAreEarned`.

**TLS stream** (`TlsStepProofs`, `TlsProofs`). `StreamInv`, for any sizes of the buffers, tasks and ways in
which transfers tear the records. Units of ciphertext are numbered by their place in what an end has
sealed. From the sender's OpenSSL through its BIO, the buffer of `flush`, the connection and the receiver's
BIO to the receiver's OpenSSL they follow each other without a gap, as long as the sender can still
send (`EndsSound`). So OpenSSL only ever sees the next record, and the number of a record tells its
kind (`Marked`). The counts of sealed and opened records give what was written and read. A step is proved
in three parts: what it does to the state, that it keeps its own end sound, and that it leaves the
other end alone. Hence `ErrorsAreReal`, `EndsAreComplete` and `StreamHoldsNothingBack`.

Only model-checked:

* liveness (`AnsweredInTheEnd`, `RequestsAreNoticed`, `EverybodyReturns`, `JoinReturns`, `ServeReturns`,
  `HandshakeCompletes`), which is out of the prover's reach;
* the HTTP/1 server: its properties compare the parser's progress with the encoding of a script of
  messages, which takes induction over the script;
* `Http2Session`, `QuicConnection`: callbacks of one call are applied in turn by recursive operators, and the
  budgets are sums over streams; both need induction over data.

## 6. Observations without a run

Noted while reading and modelling; each is what the code does where a comment or document says otherwise,
or a limit of an interface.

* Runner frames of children that finish asynchronously stay in `retired_` until the scope is destroyed
  (`task_scope.hpp:194`); `docs/ARCHITECTURE.md:214-215` says they do not accumulate.
* On IOCP a stop that comes after the packet was dequeued and before it is classified overrules a
  completion (`event_loop_iocp.cpp:746-754`).
* The comment at `event_loop_posix.cpp:183-189` speaks of submissions from several threads, which
  `event_loop.hpp:15-19` leaves to the loop's thread. They are not modelled. With them two threads could
  install their interests on one descriptor in the other order (epoll), and an arm that falls between the
  unlocking of `unlink` and `release_registration` (`:605-614`) could be taken away again (both backends).
* A stream coroutine resumed after its descriptor was closed in the same batch retries on the number;
  only datagram operations carry a token (`event_loop_posix.cpp:420-423`).
* A refusal for a limit is answered 400, since 413 is chosen by a comparison that does not match
  (`connection.hpp:307-309`). `force_close` sends no `Connection: close` (`:69`).
* There is no bound on what is buffered while the line end after chunk data is missing (`parser.cpp:603`).
* Posted work that is still queued at shutdown is discarded.

Three are exceptions that a property names, because the code is as it is there:

* `Runner::start` reads the frame and the scope after `resume()` (`task_scope.hpp:136`, against its comment at
  `:134-135`). If the spawner is not a child, the parent may have joined and destroyed the scope by then
  (`NothingDangles` excepts `Outsiders`).
* A request line exactly at its limit is accepted or refused depending on whether a read ends between its CR
  and its LF (`parser.cpp:288`, `:358`; `limits.hpp:24`). `OnlyTheFaultyAreRefused` excepts it (`CutInLineEnd`).
* A chunk size written with more leading zeros than its line may be long is refused when a read ends before
  its CRLF (`parser.cpp:539`) and accepted when the line arrives whole (`:549-558`). Excepted as well
  (`CutInPaddedSize`).

HTTP/1, HTTP/2:

* A handler that succeeds without sending anything leaves its request unanswered (`connection.hpp:427`);
  `OneFraming` says what holds then.
* A read of zero bytes is an end of file also between requests, where a closed connection is a success
  (`connection.hpp:365-367`, `:353-355`).
* The sum of body bytes at `parser.cpp:565` is modulo 2^64; the model has the width, no run lets it wrap.
* `cancel()` at a full queue leaves the entry's error set, and a draining session becomes closed only in
  `output()`.

QUIC and HTTP/3 (`quic/connection.hpp` and `quic/src/engine.cpp` unless said otherwise):

* `do_pump` does not arm a timer that is already due (`connection.hpp:282-288`): a call without a deadline then
  waits for a datagram. `pump()` reports success when the caller's deadline passes during a wait and the
  engine has no timer.
* The record table can be filled by streams of its own, open or closed and unread; then a new stream of a peer
  that keeps to its credit fails the connection (`engine.cpp:101`, `:112-114`, `:501`, against the comment at
  `:159-161`). The run reaches it, and `CreditReturnedOnce` says that it takes more of them than the peer's
  `max_streams` leave.
* `take_chunk` returns nothing after it popped an `acknowledged` event, though data follows
  (`connection.hpp:243-246`, against `:221-222`); `ReaderWaitsForNews` excepts it (`skipped`).
* `read`, `read_body` and `await_head` take what they give and then flush: if the flush fails, the chunk, head,
  reset or end is not given again, and the `closed` event behind it reads as a clean end (`:149-150`).
  `NothingLost` excepts such streams (`Spoilt`).
* HTTP/3 reports a reset as an end, and its `take_body` discards a headers event.
* `Engine::write` takes data for a stream that is closed and unread (`engine.cpp:509-524`), and `consume`
  (`:540-547`) erases the record without giving the budget back (`engine.hpp:68`); `BudgetsExact` excepts it
  (`late`).
* HTTP/3's `respond` does not look at `closed` (`http3/src/engine.cpp:417-425`), and `header_bytes` keeps the fields
  of a block that a reset cut short; `BudgetsExact` and `CreditReturnedOnce` except both (`late`, `cut`).

## 7. Plan

Done: the event loop with both backends and the wake protocol, the task scope, the resolver, the HTTP/1
server, the TLS stream, HTTP/2, QUIC and HTTP/3; proofs about the first four and the TLS stream.

Next, in this order:

1. `HttpClient` with `ResponseParser`, composed with `HttpServer` over one connection; abstract
   specification: a sequence of request/response pairs.
2. `RootTask` and `run_until_complete`; `TcpSocket` (retry after would_block, connect over several
   addresses) over `OperationContract`; `Buffer` (reclaiming while a view is out).
3. `Http2Session` with the callbacks of one call as steps instead of recursion, so that `BytesAccounted` can
   be proved with counting lemmas as in `ResolverProofs`.

Abstracted within modelled parts: HTTP/3's unidirectional control streams (a slack in the record capacity),
the limit on peer streams that nghttp3 is told, datagram addresses beyond what the client drops, TLS and
ALPN set-up. One hazard has the step in the model and no property that holds of it
(`event_loop_iocp.cpp:752`), one has no bound to state (`parser.cpp:603`).

Not modelled, and not planned: error tables, platform detection, endpoint text, TLS context
configuration, the example program. They have no control beyond straight-line calls.
