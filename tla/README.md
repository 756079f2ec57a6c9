# winext: TLA+ models, checks and proofs

winext puts two Windows services behind Boost.Asio: named pipes (server acceptor, server and
client pipe) and the http.sys kernel server. This directory models both, with the servers and
clients that use them, checks them with TLC, and proves with TLAPS every safety property that
the runs find to hold, for any size of the system. Paths below are relative to the
repository (`include/winext/...`, `examples/...`, `tests/...`).

## 1. Inventory

| Component | State | Operations | Talks to |
|---|---|---|---|
| accept operations, `named_pipe_server_details.hpp` | local `HANDLE`, `ec`, one `OVERLAPPED`, raw pointer to the pipe object | `accept_detail2` = CreateNamedPipe, ConnectNamedPipe; then `assign`, `release` or `complete` | Windows, the completion port |
| `named_pipe_acceptor` | endpoint, the pipe object it accepts into | two `async_accept` overloads: into the caller's pipe, or into its own pipe, moved to the handler | accept operations |
| `server_named_pipe` | handle | move; destructor = flush, cancel, disconnect, close | sessions, acceptor |
| `client_named_pipe`, `client_connect` | handle, `last_error` | connect loop CreateFile / WaitNamedPipe, SetNamedPipeHandleState | server, through Windows |
| echo servers: `echoserver.hpp`, `echoserver_movable.hpp`, `echoserver_coro.cpp` | acceptor (and pipe) | `do_accept` / `listener` loop | acceptor, sessions |
| `session` (and the coroutine `echo`) | pipe, 1024-byte buffer, itself through `shared_ptr` | `do_read`, `do_write` | client |
| client calls: `tests/test_client.hpp`, `examples/echoclient.cpp` | pipe | connect, write, read, close | server |
| `basic_http_handle` | request-queue handle | `add_url`, `remove_url`, async receive of request and body, async send | http.sys, the completion port |
| `http_connection`, `http/temp.hpp` | request block, response block, user handler | receive, start next connection, read body, call handler, send | `basic_http_handle` |
| queue, URL, initialiser, `http/http.hpp` | queue handle, registration | open, register, deregister | http.sys |
| `simple_request`, `simple_response`, `http/convert.hpp` | buffers, header maps, chunk array | accessors, `get_response` | `http_connection` |
| Beast server over a pipe, `examples/http/beast_server.cpp` | acceptor, socket; per connection: pipe, request, response, deadline timer | accept loop, read, process, write, deadline | acceptor, client |
| Beast client over a pipe, `examples/http/beast_client.cpp` | pipe | connect, write, read, close | server |

What makes each of them correct:

- Accept path: every client that stays is handed to a session exactly once, a handle has one
  owner and is closed once, an `OVERLAPPED` is completed once, `assign` never finds an open pipe.
- Sessions and servers: a pipe that left the accept loop has one session until it is destroyed;
  replies belong to their requests; the pipe name exists while the server runs.
- Clients: connect ends, with a usable handle or with an error and no handle; a reply is read
  before the server takes the pipe away.
- Beast connections: the deadline or the destructor ends each, and nothing else keeps it.
- Responses: the structure given to http.sys describes what the handler set, nothing more or less.
- http server: one connection receives at any time, each request is answered once, from its own
  request and body, and the user's handler sees all of the body.

The hard part of all this is between the program, the kernel and the threads in
`io_context.run()`: a client can act between any two calls of an operation, a completion can be
queued before the operation that owns it has returned, two handlers run at once, a destructor
blocks the thread that runs it, a deadline fires beside a late completion, and the server can be
stopped and restarted with completions queued. `PROJECT.json` lists each such place under
`hazards`, with the properties that watch it or the reason none does yet.

## 2. Modules

| Module | Models |
|---|---|
| `Win32Pipe` | external: instances of one pipe name, pending connects, the completion port and its packets |
| `PipeAcceptor` | accept operations, acceptor, the accept loops around them, `server_named_pipe` |
| `Handoff` | abstract: offer a pipe, a client arrives, the pipe is handed over once |
| `PipeClients` | extends `PipeAcceptor` with `client_named_pipe`, `client_connect` and the programs that call a server |
| `EchoServer` | extends `PipeClients` with the echo servers: sessions, threads, shutdown and restart |
| `BeastServer` | extends `PipeClients` with the Beast server: connections, deadlines, the flush of the destructor |
| `HttpSys` | external: requests of one URL, their bodies, the calls pending on the queue, packets |
| `HttpServer` | `basic_http_handle` and `http_connection` |
| `HttpService` | abstract: a request is served by one connection, once, and answered by it, once |
| `SimpleResponse` | `simple_response`: the setters and `get_response` |
| `PipeAcceptorProofs`, `PipeRefinement` | theorems about `PipeAcceptor` |
| `ClientProofs`, `EchoProofs`, `BeastProofs` | theorems about the servers and their clients |
| `HttpProofs`, `HttpRefinement` | theorems about `HttpServer` |
| `SimpleResponseProofs` | theorems about `SimpleResponse` |
| `MCPipeAcceptor`, `MCEchoServer`, `MCBeastServer`, `MCHttpServer`, `MCSimpleResponse` | instances for TLC |

A mutant of a definition stands right above it, named after it (`Finish_CompletesPending`), with
the mistake in its comment; `PROJECT.json` says which property it must break. No specification
uses one.

### PipeAcceptor

One accept operation is outstanding per acceptor, so an acceptor is identified with its
`OVERLAPPED` (`Ops`). `pc[a]` is where the loop is, `hPipe[a]` the local handle of `operator()`,
`holder[a]` the handle in the pipe object (`server::pipe_`, `named_pipe_acceptor::pipe_` or the
coroutine's acceptor), `ec[a]` what `accept_detail2` left, `owned` the pipes sessions have.

| Action | Code |
|---|---|
| `Start` | the constructor's `do_accept` |
| `CreateInstance`, `ConnectInstance` | `accept_detail2`, one action per Windows call since clients act in between |
| `Assign` | `pipe_->assign(hPipe)`, in the PENDING and the CONNECTED branch of both operations |
| `Finish` | `optr.release()` or `optr.complete(...)` |
| `AcceptHandler` | the `optr` handler, the move of the pipe, the session's start, and the loop's next turn |
| `Drop`, `Destroy` | `~server_named_pipe` of a session's pipe, of the acceptor's pipe |

The two operations differ only in whether the pipe moves inside the operation's handler or in
the user's; neither is visible outside one handler run, so they share their actions. The three
loops are the values of `Kind`: the callback loops accept again after an error, the coroutine
leaves its loop, and its pipe is closed by `~io_context` rather than by its own destructor.

Kernel facts used, from the calls and the comments in the code: an overlapped ConnectNamedPipe
returns zero with ERROR_IO_PENDING, ERROR_PIPE_CONNECTED (a client was faster) or ERROR_NO_DATA
(it left again); a completing connect queues a packet if, and only if, the handle is associated
with the port at that time; a packet dequeued before `release()` waits for it, which is how
Asio's `overlapped_ptr` works. CreateNamedPipe fails only when the pool `Pipes` is used up: that
stands for any of its errors. The branch for a ConnectNamedPipe that returns nonzero is left out,
as an overlapped call never does. A pipe the server disconnected is `gone` for its client; one
that was closed without a disconnect is `shut`, and the client can still read what is buffered.

### PipeClients

`cpc[c]` is where a client's call is, `cp[c]` the handle it has open, `result[c]` and `reply[c]`
how the call ended; `toServer[p]` and `toClient[p]` are what was written to a pipe and not yet
read. A request, and its reply, is named by its client, so a reply that belongs to another client
shows. Clients follow `make_client_call`: `OpenPipe` and `WaitPipe` are the loop of
`client_connect`, `SetMode` its SetNamedPipeHandleState, then `Write`, `Read` and `Close`; the
other client programs make the same calls once. `Die` ends a process inside its call. A failing
`SetMode` loses the handle, as the code does. `Long` clients send more than one read of the
server takes.

### EchoServer

`Busy` are the operations on a thread: `HasThread` compares their number with the number of
threads in `run()`. `Accept` takes a packet on a free thread and the operation it starts keeps
that thread until `Finish`. A handler starts the session before `do_accept`, as the code does, so
sessions run while the next operation is still at `create`. Sessions wait in `reading` or
`writing`; a handler that starts nothing drops the last `shared_ptr` and the pipe is destroyed
with it. `writefail` is a write that will end with an error since the client left. `Boot`,
`Stop`, `DestroyServer` and `DestroySession` are the life of a server in the order the test and
`main` give it. The flush in `~server_named_pipe` needs no step of its own here: no session ends
with an unread reply, which `NoReplyDiscarded` checks and `EchoFlushes` proves.

### BeastServer

`pending[p]` is the operation of a connection, `timer[p]` the wait on its `deadline_`, `flushing`
the pipe whose destructor holds the one thread. A connection lives as long as a handler holds
`self`: `ReadHandler` and `WriteHandler` start the next operation or none, `WriteHandler` cancels
the wait, `Expire` lets sixty seconds pass, and `DeadlineHandler` runs with success or with
operation_aborted; `WriteHandler` after `Expire` is a cancel that comes too late. At the deadline
the socket is closed, which is no disconnect; the handler of an operation aborted by it does
nothing that can be seen, so its pending operation ends with the close. After a cancelled wait the
connection is destroyed with its pipe open: `flushing` is set, no handler runs, and `Flushed` is
the rest of `~server_named_pipe` once the client has read or left. What a response says is not
modelled, only to whom it belongs.

### HttpServer

A connection is identified with its `OVERLAPPED`; `op[c]` is the operation outstanding, whose
handler holds `self`. The three `async_` operators follow their function's branches on the result
of the http.sys call and post to the port as `release` and `complete` do. `ReceiveHandler` calls
`on_receive_request`, and `StartNext` is the rest of the same handler: the start of the next
connection, which another thread's body handler may overtake. `answers[r]` records what each
client was sent and from which request and how much body it was made. A body is measured in
units of the 1024-byte buffer; its end may arrive on its own (`Chunked`), which decides whether a
read ends with ERROR_HANDLE_EOF at once or later. Requests in `Big` have headers larger than the
request buffer.

`HttpService` knows neither operations nor packets: `stage[r]` and `servers[r]`, the connections
that serve a request. The mapping takes a connection as serving from the packet that assigns it
the request until its last handler (`Serves`).

Not decided by this code, and taken as follows: a call on the request queue that http.sys does
not accept, including one that returns ERROR_MORE_DATA at once, queues no packet of its own, so
that `complete` is the only one. ERROR_HANDLE_EOF from a receive with a null request id does
not occur.

### SimpleResponse

One variable per member, one action per setter, and `get_response`, which cuts each length and
each count to its field (`% UShort`, `% ULong`), builds arrays from the maps in the order of their
keys (`InOrder`, the increasing enumeration of the keys present), and adds to `data_chunks_`, which
nothing clears. `status_code_` starts `Unset`, and a response made from it has any code. `SentHead`
and `SentEntity` are what HttpSendHttpResponse then reads through the pointers. A setter may move
the strings an earlier structure points at, so it makes `resp_` `Unset`: only structures that were
just built are read.

## 3. Runs

| Run | Expect | Shows |
|---|---|---|
| `accept` | pass | two loops (callback, coroutine), three instances: one owner per handle, success only for opened instances, one completion per operation, pipe object closed before `assign`, leaks only from ERROR_NO_DATA; a connected client is in some acceptor's hands until it is accepted; the accept path implements `Handoff`; without a lost completion each client that stays is accepted |
| `accept_missed` | violation | a client between ConnectNamedPipe and `assign` is never accepted |
| `accept_leak` | violation | a client that leaves before ConnectNamedPipe makes the handle leak |
| `echo` | pass | callback and coroutine server by turns on two threads: own reply, one session per pipe, clients leak only disconnected pipes, a waiting client has a session that reads, no unread reply discarded, every step is one of `PipeAcceptor`; a client in its read gets the reply or an error, unless an accept lost its completion |
| `echo_two_threads` | violation | with two threads the pipe name can disappear while the server runs, and a call fails with ERROR_FILE_NOT_FOUND |
| `echo_client_leak` | violation | `client_connect` loses its handle when SetNamedPipeHandleState fails |
| `beast` | pass | own reply, who keeps a connection, no client loses its handle (the flush keeps a disconnect out of `connect`), a waiting client has a deadline before it, no unread reply discarded, the name stays up; as long as no flush holds the thread for ever each connection ends and each client that wrote is served; connect ends unless other clients take the instance after each of its waits |
| `beast_deadline` | violation | a client that never reads its reply holds the server's only thread in FlushFileBuffers, with the deadline cancelled |
| `http` | pass | completions, the single receiver, answers from one's own request, no request forgotten in the queue or at a connection; the chain of connections implements `HttpService`; every request that fits, whether it waited in the queue or went straight to a waiting connection, is answered, unless a big one came |
| `http_whole_body` | violation | the handler runs on a part of the body |
| `http_empty_body` | violation | the end of an empty body that comes late loses the request |
| `response` | pass | exactly when the structure describes what was set; what a second `get_response` adds |

Each violation is a finding in `PROJECT.json`, with the line of the repository it contradicts.
Deadlock is checked in every run.

**Bounds.** The pool of instances (`Pipes`) has three members where only the accept path runs,
so that one is held by a loop, one by a session, and one is leaked or still open at a client. It
has two where sessions, clients and liveness come in: one connection beside one accept, and the
pool runs out whenever a client keeps the other end of a dropped pipe, which exercises the failing
CreateNamedPipe. Two clients: one to interfere with the other, one of them `Long`; calls repeat
without limit. `accept` has two loops that share the name, `echo` two servers that take turns,
`beast` the one acceptor of `main`. Requests are one-shot, one per kind (no body, two-unit body,
empty chunked body, big headers), and the pool of connections exceeds them, so no start fails for
lack of one; `NewConnection` takes any fixed free block, since connections are interchangeable.
`SimpleResponse` has texts of length 0, 1 and 5 against `UShort` 3 and `ULong` 5: zero, a length
that fits, and one that each width cuts (to 2 and to 0); three names, so that the count of a map of
all of them wraps to zero, and one name is itself too long; `MaxCalls` is 2, the first and a second
call. Nothing else is bounded. Symmetry, over pipes and clients, is used only in
`echo_two_threads`, which checks no liveness.

**Fairness.** `PipeAcceptor` and `HttpServer`: weak fairness of a started operation and of
handlers, since threads in `run()` finish what they execute and take every packet. In
`EchoServer` and `BeastServer` threads are shared, so a ready handler may be disabled again and
again by a busy thread: strong fairness, justified by the completion port, which hands packets
out in order. Deadlines expire and a flush that can return does (weak fairness). Clients go on
with their calls, but in `BeastServer` no client is promised to read its reply: that is what the
deadline is for. Nobody is assumed to call, to leave or to die, to stop or to restart a server.
`main` finishes a shutdown it began. http.sys either delivers the rest of a body or gives the
client up, by its timers.

Three liveness properties carry a condition, and a violation run shows the case each condition
excludes or the code plainly has it: `AcceptedUnlessMissed` and `AnsweredUnlessMissed` (run
`accept_missed`), `DeadlineHoldsUnlessFlushing` and `ServedUnlessFlushing` (run
`beast_deadline`), `ConnectEndsUnlessOvertaken` (a loop with a limit per wait and none overall).

## 4. Proofs

All theorems hold for any sets of acceptors, instances, clients, requests, connections and strings
and any number of threads, from the named assumptions of the modules alone: `NoOpAssumption`,
`NoPipeAssumption`, `KindAssumption`, `LongAssumption`, `NoMsgAssumption`; for the Beast server
`MainAssumption` (one acceptor, with the loop of `echoserver.hpp`, as `main` has it); for the http
server `NoRequestAssumption`, `WaitAssumption` (no request is named like a state of `waiting`),
`SizeAssumption` and `KindsAssumption`; for `SimpleResponse` `LengthAssumption`, `NamesAssumption`,
`SentinelAssumption` and `WidthAssumption` (a USHORT counts more than two chunks). No proof uses
`PoolAssumption`: it is there for liveness. One theorem has a hypothesis of its own,
`EchoNameStaysUp`: `NThreads = 1`, and run `echo_two_threads` shows what happens without it.

`PipeAcceptorProofs` proves `Invariance`: `Spec => []IInv`, and from it `TypeCorrect`,
`OwnerUnique`, `AcceptSound`, `CompletionUnique`, `AssignNeverThrows`, `LeakBound` and
`ConnectedAnnounced`, which state `TypeOK`, `SoleOwner`, `AcceptedWasConnected`, `CompletesOnce`,
`PipeFreeForNextAccept`, `OnlyNoDataLeaks` and `ConnectedOnItsWay`. None of these invariants is
inductive alone. That `AcceptHandler` moves an open, connected pipe depends on what a packet proves
about the pipe in the holder, which depends on when it was posted. `IInv` therefore says, for each
step an acceptor can be at (`Idle`, `Created`, `Connecting`, `Finishing`, `Waiting`), which pipe it
holds, the kernel's state of that pipe, whether the handle is registered, whether the connect is
pending for this acceptor, and which packets can exist; and for each pipe (`PipeInv`) that its
listener is its holder, that holders are unique and disjoint from sessions, that a registered handle
is held by someone, and that a handle nobody holds belongs to a client that left. Frame lemmas
(`Frame`, `FramePipe`) reduce each step to the one acceptor and the one pipe it touches; each action
then has a lemma of its own. `ConnectedAnnounced` is the safety half of `AcceptedUnlessMissed`: a
connected client that no session has is at an acceptor that has yet to see it, has its completion,
or took it for pending and has missed it. It needs `Waiting` to say that an operation which
completed itself has its packet still to come.

`PipeRefinement` proves `Refinement`: `Spec => HandoffSpec`, with the mapping of `PipeAcceptor`
(`Offers`, `ArrivedOffers`, `owned`). CreateInstance is `Offer`, a client's open is `Arrive`, a
successful handler is `Serve`, a failed connect or a destroyed acceptor is `GiveUp`, a session's end
is `EndSession`, and everything else stutters.

`ClientProofs` is about clients with any server. `ClientInv` says that a client's handle is open at
its end and no other client's, and that the buffers of its pipe hold its own request or its own
reply and never both, as far as the client has got (`BuffersInv`). Each client step preserves it; so
does a step of a server that only changes pipes as `ServerStep` allows and moves a request to the
reply of the same pipe. `ClientInv` also has `OnlyDisconnectedLeaks`, since a handle no client holds
can only be one that `SetMode` lost. `RepliesOwned`, that an unread reply lies in a pipe the server
still owns, gives `NoReplyDiscarded`. A client that was not served yet (`Unserved`) has its request
in the pipe, which is open at both ends (`UnansweredWritten`, `WaitingHasInstance`); each server
adds to that what it does with such a pipe (its `Attended`).

`EchoProofs` proves `EchoInvariance`: `EchoInv` joins `IInv`, `ClientInv`, `SessionOwnsPipe` and
that a write fails only after its client left. `IInv` is needed because `SessionOwnsPipe` says
nothing of an `AcceptHandler` that might move a pipe which already has a session. From it:
`EchoImplements` (`EchoSpec => Spec`, which carries the accept path's theorems over, the hand-off
included: `EchoAccepts`), `EchoTypeCorrect`, `SessionOwner`, `EchoOwnReply`, `EchoFlushes`,
`EchoClientLeaks`, and `EchoAttends`, which states `UnansweredIsRead`: a session that owns the pipe
of a client not yet served is reading, and one whose pipe is not owned yet is on its way, by
`ConnectedOnItsWay`. `EchoNameStaysUp` adds `OneServer`, that only one acceptor runs: with one
thread no handler can interrupt an accept operation (`ThreadIsIdle`), so when a session ends the
server's next instance is already there. The Beast server has one thread by construction, and the
same theorem without a hypothesis.

`BeastProofs` proves the same of the Beast server (`BeastInvariance`, `BeastImplements`,
`BeastAccepts`, `BeastTypeCorrect`, `BeastOwnReply`, `BeastFlushes`, `BeastClientLeaks`), and
`DeadlineGuards`, `BeastAttends` and `BeastNameStaysUp`, which state `DeadlineGuardsConnection`,
`UnansweredHasDeadline` and `NameStaysUp`. `BeastInv` adds that a destructor flushes only after the
timer's handler has gone, that a connection exists only while the loop runs, and that the loop waits
during a flush: the name stays up because no connection can end in the middle of an accept
operation. `BeastClientLeaks` states `NoClientHandleLeak`, which the echo programs violate: `HandlesHeld`
adds that no client inside `connect` has its pipe disconnected, since a disconnect comes after a
flush and a client not yet served still has an armed or expired timer before its connection.

`HttpProofs` proves `HttpInvariance`: `Spec => []HttpInv`, and from it `HttpTypeCorrect`,
`HttpCompletesOnce`, `OneReceiverOnly`, `HttpAnswers` and `HttpForgetsNone`, which state `TypeOK`,
`CompletesOnce`, `OneReceiver`, `AnsweredFromOwnRequest` and `NoneForgotten`. `CompletesOnce` alone
does not say what a packet is about. `OpInv` does, for each operation a connection can have
outstanding (`Receiving`, `Reading`, `Sending`): its call waits, for what, and nothing is posted
(`Expecting`), or it waits for nothing and one result is posted (`Holding`), which names a request
or says that a big one came. `ServesInv` gives a request that left the queue to one connection at
most, so that no second handler can answer it, and `AnswerInv` says what its client was sent.
`ChainInv` follows the chain: a receiver, or a connection about to be started, or neither, and then
the server does not run or a big request came; `started` and the two sets together make
`OneReceiver` inductive. The calls are proved first (`ReceiveRequestCall`, `ReceiveBodyCall`,
`SendResponseCall`), on the port as the handler left it; then each handler, with the frame lemmas
for the other connections. `NoneForgotten` is proved after that, from `HttpInv`: it is inductive
with `BodyKept`: a connection waits only for a body of which nothing has arrived, so a result that
is an error, which makes the handler give its request up, is the end of an empty chunked body or
comes after the client has left.

`HttpRefinement` proves `HttpRefines`: `Spec => ServiceSpec`, with the mapping of `HttpServer`. The
call that gets a request, or the request that wakes it, is `Assign`, or `Refuse` when it is too big;
the body handler's call is `Answer`, or a stutter when the client has left; the handler that
releases the connection is `LetGo`, `Abort` is `Leave` and `Shutdown` is `Close`. The start of the
next connection is an `Assign`, a `Refuse` or a stutter: that is why a request taken between two
handlers of another connection does no harm.

`SimpleResponseProofs` proves `ResponseInvariance`: a structure handed out was built from the fields
as they are, and its chunks end with those its call added. No induction over the maps is needed: an
increasing enumeration of a finite set of keys exists as the inverse of the function that counts the
keys up to each one (`OrderExists`), so `HeaderArray` lists each entry once, and what is sent for a
map equals its entries exactly when the map fits, since a count or a length that is cut is smaller
than what was wanted. `NewChunksWanted` says the same of body and trailers, and `ResponseDescribes`
and `ResponseReuse`, which state `DescribesExactlyWhen` and `ReuseOnlyAddsChunks`, follow by
arithmetic on where the last call's chunks begin.

Only model-checked: the liveness properties (`AcceptedUnlessMissed`, `AnsweredUnlessMissed`,
`DeadlineHoldsUnlessFlushing`, `ServedUnlessFlushing`, `ConnectEndsUnlessOvertaken`,
`AnsweredUnlessBig`), since fairness and ENABLED are out of the prover's reach. For four of them the
safety half is a theorem: `ConnectedAnnounced`, `EchoAttends`, `BeastAttends` and `HttpForgetsNone`
say that whoever waits is in the hands of someone with a step to take.

## 5. Not modelled

- `named_pipe_protocol.hpp`: aliases. `named_pipe_acceptor::o_`: never used.
- `send_response`: the synchronous call, which nothing uses.
- GetLastError read again after `printf` and `std::cout`, which may change it; a user who destroys
  the acceptor while threads run, and the dangling pointer of the operation. Both are hazards
  without a property.
- `simple_request::get_known_headers` and `get_unknown_headers`, which copy arrays into maps, and
  the text of any request, response or page.
- Header ids of HttpHeaderResponseMaximum or more, which index past `KnownHeaders`
  (`convert.hpp:156`): a hazard without a property, `HeaderIds` are the ids with a slot.
- Writes that wait for the client: a message is taken to fit the pipe's quota (`bufsize`,
  `named_pipe_server_details.hpp:26`), so a write completes at once. A longer reply of a Beast handler
  could keep the write pending until the client reads.
- The memory of sessions and their buffers: `SessionOwnsPipe` says that a session is under way exactly
  while its pipe is owned, not that a `shared_ptr` keeps its object.
- What the chunks left by an earlier `get_response` read, when the strings have moved since.
- Failing start-up of the http server: the code asserts only, and a release build then fails every
  call.

## 6. Plan

Done: the accept path, the echo programs, the Beast server, the clients, the http server with its
abstract specification, `simple_response`; a theorem for every safety property that holds. What
remains, in this order:

1. `simple_request`: which headers of a request its maps keep, and which of two equal names.
2. An abstract specification of a client's call (sent, answered or failed, once), implemented by the
   echo programs and the Beast server.
