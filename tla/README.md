# A verification development for eventpp

eventpp is a C++ reactor library on top of libevent2: event loops with cross-thread
functor queues, loop threads and pools, timers, TCP clients and servers, a DNS resolver,
an HTTP client and servers, and a UDP server.  This directory holds TLA+ models of the
parts with state, the TLC configurations that check them, and TLAPS proofs.

## The system

| part | code | state | operations | interacts with |
|---|---|---|---|---|
| EventLoop | `src/src/event_loop.cpp` | status_, watcher_, notified_, pending_functors_, pending_functor_count_ | Run, Stop, QueueInLoop, RunInLoop, DoPendingFunctors, StopInLoop, AfterFork | every thread; libevent base |
| PipeEventWatcher | `src/src/event_watcher.cpp` | socketpair bytes, event registration | AsyncWait, Notify, HandlerFn | EventLoop |
| EventLoopThread, Pool | `src/src/event_loop_thread*.cpp` | status_, thread_, next_, exit counts | Start, Run, Stop, Join, GetNextLoop | EventLoop, owner threads |
| InvokeTimer | `src/src/invoke_timer.cpp` | timer_, self_ | Start, Cancel, OnTimerTriggered, OnCanceled | EventLoop, TimerEventWatcher |
| FdChannel | `src/src/fd_channel.cpp` | events_, attached_, event_ | Enable, Disable, Attach, Detach, Close, HandleEvent | EventLoop, TCPConn |
| TCPConn | `src/src/tcp/tcp_conn.cpp` | status_, buffers, delay_close_timer_ | Send, Close, HandleRead, HandleWrite, HandleClose | FdChannel, EventLoop, owner |
| TCPServer, Listener | `src/src/tcp/tcp_server.cpp`, `listener.cpp` | status_, substatus_, connections_ | Init, Start, Stop, HandleNewConn, RemoveConnection | pool, TCPConn |
| TCPClient, Connector | `src/src/tcp/tcp_client.cpp`, `connector.cpp` | conn_, connector_, status_, fd_, timer_ | Connect, Disconnect, HandleWrite, HandleError | DNSResolver, TCPConn |
| DNSResolver | `src/src/dns_resolver.cpp` | timer_, dns_req_ | Start, Cancel, OnTimeout, OnResolved | evdns |
| Buffer | `src/src/buffer.cpp`, `include/eventpp/buffer.hpp` | buffer_, capacity_, read_index_, write_index_, reserved_prepend_size_ | Append, Prepend, Skip, Next, Reserve, Shrink, ReadFromFD, ... | TCPConn and its user |
| HTTP server | `src/src/http` | status_, tpool_, the Services and their threads, callbacks_ | Init, Start, Pause, Continue, Stop, Dispatch, SendReply | pool, loops, evhttp |
| HTTP client | `src/src/httpc` | a Request's conn_, retried_; pool_ | Execute, Retry, HandleResponse; Get, Put, Clear | evhttp, one loop |
| evpphttp | `src/src/evpphttp` | the parser's state, an HttpRequest, a connection's context | http_parser_execute, Parse, OnMessage, RequestHandler | TCPConn, Buffer |
| UDP server | `src/src/udp/udp_server.cpp` | status_ and socket per port | Init, Start, Pause, Continue, Stop, RecvingLoop | a pool of the user's |

What makes these parts hard: functors, timers and connections are handed between threads by
queues and bare atomics; status words are tested and used in separate steps; user callbacks
re-enter the object that calls them; objects are freed by whoever drops the last pointer; peers
half-close, reset and fill socket buffers at any moment; and most misuse ends in an `assert`.

## Modules

A failing `assert`, or the use of a deleted event, a null loop or a freed object, sets `aborted`
(or clears `ok`, `serverOk`, `s.ok`, `client.ok`), after which nothing moves; `AssertsHold` is that
it has not happened.

Where the code itself fails under some circumstance, the model makes it happen all the same and a
history variable records it: `disturbed` (EventLoop), `casual` (EventLoopThread), `late` (TCPConn), `strained`
and the outside Stop (TCPServer), `s.risk` (TCPClient), `cleared` (HttpClient), `misused` and `between`
(UdpServer). The properties that fail under the circumstance are stated for the behaviours without
it; the others hold in all of them. The section on disagreements says what each circumstance does.

| module | models | state and actions |
|---|---|---|
| `EventLoop` | EventLoop, PipeEventWatcher | The steps of QueueInLoop (push, count, compare-exchange, test of watcher_, Notify) per thread; the steps of Run, DoPendingFunctors and StopInLoop for the loop thread, with the vectors on its stack. |
| `TaskQueue` | what EventLoop promises | Functors are called at most once, in the order they were queued except across StopInLoop's flush. |
| `EventLoopThread` | EventLoopThread | The thread's steps through Run, the owner's through Start, Stop, Join and the destructor, and other threads that join. Of the loop only its status; its compare-exchanges may fail spuriously. |
| `EventLoopThreadPool` | EventLoopThreadPool | EXTENDS EventLoopThread: the owner's steps drive those of the threads, the pre and post functors count, users fetch loops. No compare-exchange fails spuriously. |
| `EventLoopThreadProofs` | | Theorems about EventLoopThread and EventLoopThreadPool. |
| `InvokeTimer` | InvokeTimer, TimerEventWatcher | Timers made, released and cancelled by the loop thread and by others; the queue between them; the functor as a step in which the user may cancel. |
| `FdChannel` | FdChannel | Operators on the record (events_, attached_, event_). |
| `TCPConn` | TCPConn, FdChannel::HandleEvent | One connection: sends and closes from several threads, read and write events, the output buffer in units, the delay timer, HandleClose split at conn_fn_, the destructor. |
| `TCPConnProofs` | | Theorems about TCPConn. |
| `TCPServer` | TCPServer, Listener | Accepting, attaching, closing and removing connections across the listening loop and the pool's loops; Stop from inside or outside the listening loop. Of a connection only its status, of the pool only whether it runs. |
| `TCPServerProofs` | | Theorems about TCPServer. |
| `ByteQueue` | what Buffer promises | Bytes go in at the end or the front, come out at the front, and can be taken back. |
| `Buffer` | Buffer | Every method as an operator on the record of the fields; the memory is a function, with Junk in cells nobody has written. |
| `BaseProofs` | | Theorems about EventLoop and about Buffer. |
| `TCPClient` | TCPClient, Connector, DNSResolver | The objects are records; a handler is an operator from the objects before it to those after it, with the callbacks, the user's included, where the code makes them. Who refers to a Connector decides when it is freed. |
| `HttpParser` | http_parser_execute | One iteration of the byte loop per step, with every state, error, mark and callback. A byte is a representative of its character class; methods and header keywords are scaled to two or three letters and 2^63-1 to `INT64_MAX`. |
| `HttpUrl` | http_parser_parse_url, URLParser, FindQueryFromURI | Operators on sequences of bytes. |
| `HttpRequest` | evpphttp HttpRequest, HttpResponse, Service | A stream that arrives in pieces cut anywhere, read by Parse, by the parser alone (responses) or by Service::OnMessage. |
| `HttpServer` | http::Server, Service, Context | The user's thread through Init, Start, Pause, Continue, Stop and the destructor; listening threads and workers; Dispatch and SendReply split where they look at a status and then act on it. |
| `HttpClient` | httpc Request, Conn, ConnPool | One loop: executing, responding, retrying, putting back; Execute and Clear of the user's threads. |
| `Http` | both together | The client's requests go to the server, or to a server that is not modelled and answers anything. |
| `HttpClientProofs`, `HttpServerProofs`, `HttpProofs` | | Theorems about HttpClient, HttpServer and the two together. |
| `UdpServer` | udp::Server | One receiving thread per port, with its two looks at status_ as two steps; the user's thread. |
| `TimerUdpProofs` | | Theorems about InvokeTimer and about UdpServer. |

TLC checks each module under the .cfg files of its component. `MCBuffer` and `MCHttpRequest` define
the constants a .cfg cannot write.

The modules meet at these seams: `TCPConn`, `TCPServer` and `InvokeTimer` take from `EventLoop`
that a running loop calls queued functors once and in order (`ImplementsTaskQueue`,
`QueuedFunctorRuns`), and so do `TCPClient`, `HttpServer` and `HttpClient`; `TCPServer` and
`HttpServer` take from the pool that Stop(true) and Join() end with the threads gone
(`StopEndsJoined`), and the TCP modules from `TCPConn` that close_fn_ is called once
(`CloseOnce`). `TCPConn` takes from `Buffer` that it is a queue of bytes (`ImplementsByteQueue`).

## Runs that pass

| run | shows | bounds |
|---|---|---|
| `eventloop` | The loop always implements `TaskQueue`; in a loop that is not disturbed no wakeup is lost, queued functors run and Stop completes | 2 threads and the loop's, 2 functors besides the ones of Stop, a socketpair of 1 byte, so that it is full when a second Notify comes: a second push falls into every gap of the first and of the loop; spurious failures of the compare-exchange and forks before Run |
| `thread` | The thread never outlives the object; if the owner waits in Start, pre() succeeds and no compare-exchange fails spuriously, the asserts hold and the destructor returns | 1 object, 2 joiners, waiting or not, pre() failing or not, 2 starts |
| `pool` | The callback comes after the last loop, no assert fails, a stopped pool ends joined | up to 2 threads, 1 user, 3 calls of GetNextLoop |
| `timer` | A cancelled timer does not fire, every other one with a positive timeout does | 2 timers, each with a zero or a positive timeout, 2 threads, 2 firings of a periodic timer |
| `conn` | The stream is whole and ordered; unless a Close or Send(data, len) comes late, asserts, a close is announced once, output drains | 2 messages of 2 units against a socket buffer of 1, so that writes are partial and empty |
| `server` | An open connection is always registered; in the orderly case the asserts hold and Stop completes, unless a connection that StopInLoop passed over stays open | 2 connections, 2 loops or none besides the listening one, Stop inside or outside the listening loop |
| `client` | Asserts, every descriptor has one owner, the client is never forgotten, everything ends after Disconnect | 3 attempts, 2 Connectors; every answer of evdns, connect() and the peer, and three reactions of the user's callback |
| `buffer` | Fields consistent, asserts, Buffer implements `ByteQueue` | 1 buffer of up to 6 cells, texts of up to 3 bytes, extrabuf of 2: both branches of grow, and reads that fit, that just fit and that spill over |
| `http_request` | What is read does not depend on the cuts, bodies are as announced, pipelined requests are answered in order, open replies are framed, the URL parsers agree | some 4,700 inputs (messages of each kind, two of them with any one byte replaced, all short URLs and queries), cut everywhere; the byte loop is followed on streams of some 20 to 40 bytes |
| `http` | Asserts, replies sent before Stop returns, a Conn is used by one Request, server errors and null requests are retried to the end, Stop returns, the handler is called | 1 listener, 1 worker or none, 2 Requests with 1 retry, a pool of 1 Conn, 1 pause |
| `udp` | Asserts, a paused or stopped thread is quiet, Start, Stop and the destructor end | 2 ports, 2 pauses, 2 messages in the pool |

Every property of these runs is refuted when a definition is replaced by the mutant that
PROJECT.json names for it. All configurations but `buffer` set `CHECK_DEADLOCK FALSE`: a stopped
loop, a joined thread, a finished timer, a freed connection, a stopped server and a stream that is
read rightly do nothing more, and each model bounds how often a user calls.

What these runs leave out of the users' behaviour, by constants: a timer is not cancelled
by the loop thread before its queued start (`EarlyCancel`); users fetch loops only while the pool is
not being stopped (`UsersRace`); UnreadBytes is not called after a read that emptied the buffer
(`UnreadAfterReset`); the connections of evpphttp's Service have a context.

More configurations stand beside these runs, for the same modules. They hold:

| configuration | shows |
|---|---|
| `EventLoopLarge` | `eventloop` with 3 functors and a socketpair of 2 bytes (some minutes), and that pending_functor_count_ accounts for every functor (`CountAccounts`) |
| `ThreadMore`, `ThreadOwner` | thread_ never loses a live thread (`OneThreadPerLoop`); for a careful owner kStopped is final and Start returns after pre() |
| `PoolMore` | a running pool has all its threads started, the callback is called |
| `TimerMore` | self_ is set exactly while the timer is useful, a periodic timer has its watcher |
| `ConnMore` | the write event is on exactly while output waits, nothing is sent after the close, a disconnect completes, a peer that has gone is noticed |
| `ServerMore` | `server` in the orderly case with 3 connections and 2 loops, with an exact connections_ and the callback called once and only when all is gone |
| `HttpRequestMore` | the parser's asserts and the bounds of content_length, the parts of a URL, the query |

So do `buffer.cfg` with two buffers, which exchange their contents (sizes up to 1, 2 cells),
and `Http.cfg` with two listeners and no pause, or with two workers.

## Disagreements

The run `eventloop_release` is expected to find a violation: watcher_ is released between
QueueInLoop's test and Notify. The quotation is in PROJECT.json, under findings. These
configurations find one too:

| configuration | property | what the code does, and what it is set against |
|---|---|---|
| `TimerEarlyCancel` | NoFireAfterCancel | A cancel by the loop thread overtakes the queued start and is lost (invoke_timer.cpp:61); invoke_timer.hpp:31: "can cancel this timer at any time" |
| `ServerStopOutside` | CallbackAlwaysCalled | A removal between another thread's Stop and StopInLoop stops the server without the callback (tcp_server.cpp:185); tcp_server.hpp:73: "the callback cb will be invoked when the TCP server is totally stopped" |
| `evpphttp_first_message` | FirstMessageServed | OnMessage casts the context exactly when there is none, so the first message of a connection throws (evpphttp/service.cpp:113); the line it replaced, kept as a comment, tests the opposite |
| `UdpPause` | PauseKeepsThreads | A Pause between the two looks of RecvingLoop ends the thread, which stores kStopped over kPaused (udp_server.cpp:216); Continue asserts IsPaused() (udp_server.cpp:64) |
| `HttpEarly` | DroppedWhenStopping | A request that comes while Start is not done is dropped and never answered (http_server.cpp:290); the comment at line 288: "may be it is stopping now" |
| `PoolUsersRace` | IndexInRange | GetNextLoop indexes threads_ after Join cleared it (event_loop_thread_pool.cpp:142) |

The circumstances the passing runs are conditioned on or leave out fail in these ways; TLC shows
each with the change named:

| change | property | what the code does |
|---|---|---|
| NoLostWakeup without `~disturbed` | NoLostWakeup | a spurious compare_exchange_weak failure leaves a functor without a wakeup (event_loop.cpp:301); AfterFork replaces the socketpair and keeps notified_ (event_loop.cpp:212) |
| `Thread.cfg` | AssertsHold | Stop's assert on status_ and the loop fails after a failing pre(), and for an owner that polls IsRunning() (event_loop_thread.cpp:81); a compare_exchange_weak that fails spuriously in Run lets the thread go on to its assert IsStopped() (event_loop.cpp:122, event_loop_thread.cpp:73) |
| `ThreadOwner.cfg` with MaxStarts = 2 | StartedMeansPreRan | a second Start(true) returns without pre() (event_loop_thread.cpp:33) |
| `PoolSafety.cfg` with StopWaits = {FALSE} | StoppedMeansExited | Stop(false) stores kStopped while loops run (event_loop_thread_pool.cpp:119) |
| `TimerSafety.cfg` | AllFireOrCanceled | a timer with a zero timeout never fires (event_watcher.cpp:57) |
| `ConnSafety.cfg` | NeverAborts | Close() of a disconnected TCPConn runs HandleClose again (tcp_conn.cpp:46); Send(data, len) in conn_fn_ of a closing connection uses the deleted event (tcp_conn.cpp:93) |
| `ConnSafety.cfg` | AlwaysClosesOnce | Close() of a disconnected TCPConn, or one that races with the end of HandleClose, announces the close again (tcp_conn.cpp:46); line 300: "Avoid multi calling" |
| `ServerSafety.cfg` with only StopOutside, or only CheckThenClose | NeverAborts | Stop between HandleNewConn's test and its assert (tcp_server.cpp:148); StopInLoop closes a connection that has just closed itself (tcp_server.cpp:103) |
| `ServerSafety.cfg` with only InlineClose and PoolChoices = {{}} | StopAlwaysCompletes | a connection that fails while it is announced is never removed (tcp_server.cpp:162) |
| `ServerMore.cfg` | StopAlwaysCompletes | a connection that is not attached yet when StopInLoop sweeps is passed over, and its peer stays (tcp_server.cpp:100) |
| `ServerSafety.cfg` | InitReportsFailure | Init ignores the result of Listen (tcp_server.cpp:36) |
| `buffer.cfg` with UnreadAfterReset = TRUE and MaxCapacity = 7 | FieldsConsistent | UnreadBytes after a read that emptied the buffer makes other or unwritten bytes readable (buffer.hpp:304) |
| `Http.cfg` | ServerNeverAsserts | a server that was never started, or whose Init failed, fails the destructor's assert (http_server.cpp:32) |
| `Http.cfg` | PoolNeverAsserts | Clear while a Request holds a Conn removes the entry that Put asserts (conn_pool.cpp:57) |
| `Http.cfg` | FailuresRetried | evhttp gives back a request whose connection could not be made without a code, which is taken for a response and reported at once (request.cpp:211); request.hpp:78: "The total execution times is retry_number_+1" |
| `Client.cfg` | NoAssertFails | Disconnect in the connected callback, while a retry waits, or after the peer closed; an attempt that fails at once after an earlier one; a last failure before there is a channel (connector.cpp:183, 211, 43; tcp_client.cpp:73) |
| `Client.cfg` | NoConnectionAfterDisconnect | Disconnect while a retry waits cancels nothing, and the client connects (tcp_client.cpp:76) |
| `Client.cfg` | ConnGuarded | conn_ is reset without mutex_ while conn() of another thread holds it (tcp_client.cpp:129) |

Hazards that no property covers, beside those of PROJECT.json: stopped_cb_ is called while the
server is still kStopping, so a callback that deletes the server leaves the last store to freed
memory (tcp_server.cpp:193); Stop() on the loop thread before the listener's channel is attached
(listener.cpp:94); a Cancel() inside a timer's cancel callback (invoke_timer.cpp:84); HandleEvent
reads write_fn_ after read_fn_ may have freed the channel's owner (fd_channel.cpp:203); a failing
Init of evpphttp's Service deletes what the destructor deletes again (evpphttp/service.cpp:23); a
reply callback that the user keeps beyond Stop (http/service.cpp:267); Get searches the client's
pool without its mutex (conn_pool.cpp:30); Start of a UDP server that was stopped replaces a
thread that was not joined (udp_server.cpp:49), and the destructor of one that was not stopped
joins a thread nobody has told to end (udp_server.cpp:30). The last two are among the
circumstances `misused` records.

## Fairness

Weak fairness is given to the steps a thread takes by itself once it is started or inside a
call: the scheduler runs it and libevent calls the handlers of ready events. Nobody is obliged to
call Send, Close, Stop or Cancel. Beyond that:
- `InvokeTimer` has strong fairness for each timer's expiry: an armed timer stays expired, and
  the loop is idle again and again.
- `TCPConn` has weak fairness for the kernel's sending: the peer keeps reading. A peer that never
  reads keeps the output buffered for ever.
- `EventLoopThreadPool` lets the owner join a pool that it has stopped: the destructor does.
- `TCPServer` obliges no peer and no user to close: StopCompletes is about what StopInLoop itself
  closes, and names the connection it passed over (`PassedOver`) as the exception.
- `TCPClient` is fair to queued functors and to evdns' callback for a canceled request only: no
  timer has to expire and no peer to answer for `DisconnectEnds`.
- `Http` is fair to every loop, to the client's timers and answers, and to the user's thread once
  it is inside Stop.
- `UdpServer` is fair to the receiving threads (recvfrom has a timeout), to the pool's loops and
  to the waits inside Start, Stop and the destructor.

## Proofs

`BaseProofs` proves about EventLoop, for any sets of callers and functors, any socketpair capacity and any
recv size (`LoopAssumption`):
- `TypeCorrect`: Spec => []TypeOK. TypeOK alone is not inductive: taking the head of the stack of
  vectors needs the stack's shape at each step of the loop thread, `StackShape`.
- `WakeupNeverLost`: Spec => []NoLostWakeup, whether or not the compare-exchange can fail
  spuriously and the owner forks; the property itself is about loops this has not disturbed.
  NoLostWakeup speaks of the loop thread in the base only; `WakeupInv` says what holds at every
  other step, in particular between the store of notified_ and the swap.

`EventLoopThreadProofs` proves, for any number of objects, joiners and starts, with no further
assumption:
- `DestroyedThreadIsGone` (NoUseAfterDestroy) and `LoopHasOneThread` (OneThreadPerLoop). The second
  is what makes the first inductive: together they are `ThreadInv`, that a thread given up is gone
  and a destroyed object has given up its thread.
- `CarefulOwnerNeverAborts`: CarefulAsserts. The assert of Stop depends on where the thread and the
  owner are; `Careful` lists the combinations of the two with status_ and the loop's status that a
  waiting owner can meet, a second Start on a stopped loop included, and `CarefulInv` is that every
  object is in one of them as long as `casual` is empty: no owner polled, no pre() failed, no
  compare-exchange failed spuriously.

The same module proves about a pool, for any number of threads, users and hashes, whether or not the
owner waits in Start and Stop (`PoolAssumption`: the threads are numbered from 1):
- `PoolAssertsHold`, `CallbackIsLast` (CallbackAfterLastLoop), `CallbackComesOnce`,
  `RunningIsStarted` (RunningMeansStarted) and `PoolNoUseAfterDestroy`.
- `IndexesInRange`: IndexInRange, if users call between Start and Join (`~UsersRace`; without this it
  fails, see above).

They rest on one inductive invariant, `PoolReach`. `Stage` says from the owner's position how far it
has come with each thread: before its start, serving, being stopped, told. `InStages` says what
status_, the loop's status, the thread and the call on the object can be together at each stage.
`Counts` says that started_count and exited_count are the numbers of threads past the two fetch_adds,
and that no two threads waiting to act on the result have the same number. From it `Last` follows: the
thread that got the number thread_num_ finds all others counted (a set of threads of the pool as
large as the pool is all of it), so the pool is running only when every thread is in and the callback
is taken only when every thread is out. `Last` in turn is what makes the assert of Stop hold: the
owner stops a pool that it saw running, so each thread it comes to is past its start. `Joined` and
`UserInv` are about Join and the users of threads_.

`TimerUdpProofs` proves about InvokeTimer, for any timers, threads and bounds:
- `CanceledIsSilent`: NoFireAfterCancel, an action property, if the loop thread does not cancel a
  timer whose start is queued (`~EarlyCancel`; with it the property fails, see above). The invariant
  says for each timer what its queued start and cancel, its watcher and the running handler can be
  together.
- `TimerLivesWhileUseful`: SelfWhileUseful and PeriodicHasTimer, with early cancels too.

`TCPConnProofs` proves, for any threads, messages and buffer sizes:
- `StreamStaysIntact`: StreamIntact, whatever the users call. The lemmas are about sequences of
  units: a write takes a prefix of the buffer, and what SendInLoop does not write it appends.
- `ConnAssertsHold`, `ConnClosesOnce`, `OutputIsNeverStuck` (NoStuckOutput) and the action property
  `ClosedConnSendsNothing` (NothingSentAfterDown). The properties themselves are about
  connections that nobody has closed when disconnected or sent raw data while they went down
  (`~late`; afterwards they fail, see above). None is inductive. `ConnInv` describes the four phases of a connection, not yet attached,
  up, inside HandleClose and closed, with what the channel, the timer, the queue and the callbacks'
  counts are in each.

`TCPServerProofs` proves, for any connections, loops and choices of loops, with no further
assumption:
- `OpenStayRegistered`: OpenAreRegistered, in all behaviours. It needs `RegInv`: a
  connection that is on its way in, open, found by StopInLoop or whose attach is queued is in
  connections_ or has closed already, a removal is queued only for a connection whose channel has
  closed, and HandleNewConn has one connection in hand.
- `ServerAssertsHold`, `CallbackComesLast` (CallbackWhenStopped) and `ConnectionsAreExact`
  (ConnectionsAccounted), in the orderly behaviours, which the properties themselves are about.
  `OrderlyInv` adds what the listening loop is doing: the accept is queued at most once and Stop never,
  the server, the listener and the pool go down together, and no connection is in two loops' hands.

`BaseProofs` proves about Buffer, for any buffers, bytes, texts and sizes (`BufferAssumption`) and
callers that do not unread after a read that emptied the buffer:
- `BufferConsistent` and `BufferAsserts`: the indices stay ordered inside the memory, no unread byte
  is uninitialised, and no assert or copy goes wrong. The inductive invariant is that every buffer
  is `Valid`; one lemma per method says that it keeps this and what it does to the content.
- `BufferIsQueue`: Buffer implements ByteQueue, from the same lemmas: each says which operation of
  the queue its method is on the content.

`TimerUdpProofs` proves about UdpServer, for any set of ports and any bounds, and for servers used as the code
allows for, without a Pause between RecvingLoop's two looks (`WellUsed`):
- `AssertsNeverFail` and `PausedStaysQuiet`. Neither is inductive: that Continue finds a thread
  paused and that a socket is open depend on where each thread is. `UsedInv` says this by where the
  user's thread is: a thread serves, sleeps before the first look, leaves or is gone, and has
  delivered at most one message since it was told to.

`HttpProofs` proves, from what `HttpClientProofs` and `HttpServerProofs` show of each side, for any
listening threads (finitely many, none of them a worker: `ThreadsAssumption`), workers, Requests,
retries and pool size (`RetryNumberAssumption`, `MaxPoolSizeAssumption`: both are numbers; the
client's caller is one of the Requests and each of its executions has a request to send:
`CallerAssumption`, `RequestsAssumption`):
- `HttpAssertsHold`, `HttpRepliesSent`, `HttpConnExclusive` and `HttpTriedEnough`. The last is exact
  for the failures the code retries, a request that could not be made, a null request and a server
  error; a connection that was not made is none of them, see above.

The inductive invariant is `HttpInv`, in three parts. `ClientInv` is about the client's objects:
`Exclusive` says that Conns in the pool and Conns in hand are all different, and that all of them
were made; `Kept` that a Request with a Conn of the pool finds the pool's entry; `TriesOf` relates
the executions, the retries and the calls of the handler by where a Request is; `Functors` that an
Execute is queued only for a Request that was not tried. Methods are operators on the objects, so
there is one lemma per method, of what it keeps and changes, before those about steps.
`ServerInv` goes by where the user's thread is in Start and Stop, which decides the status of the
server and the pool (`PhaseInv`) and of each loop (`LoopInv`). Two of its parts carry the argument.
`PauseInv` says that the count Stop waits for is the number of listeners that have run its pause, and
that a listener in the middle of Dispatch has not: when the count is complete nobody dispatches, so
the pool can go. `ReqInv` says where a reply that was made is: in the hands of a worker, queued in the
loop of its listener, or sent; a loop that has ended has nothing queued, and the workers ended before
the listeners, so after Stop only "sent" is left. `SentInv` ties the two sides: the server has seen
no more requests than the client has sent.

Only model-checked: liveness, which these provers do not reach; `CountAccounts` and
`ImplementsTaskQueue`, whose functions of sequences need induction over data; the properties of
HttpRequest, which compare what recursive definitions (the byte loop, the URL parsers) compute; and
the safety properties of TCPClient.

## Not modelled

- Pure I/O and conversions without state between calls: address and time conversions, socket
  options, the synchronous UDP client, Duration and the utilities, the wording of HTTP replies and
  the tables of names in http_parser.
- The OpenSSL set-up and TLS connections: what they do is OpenSSL's.
- The boost and concurrentqueue variants of the functor queue (not built), loops inside a foreign
  event_base, signal watchers, SyncDNSResolve (for an older libevent).
- AfterFork beyond EventLoop's: the pool, the servers and the HTTP server forward it to their loops.
- Failures of event_add, of memory allocation and of starting a thread.
- Init, Start and Stop of evpphttp's Service, which forward to a TCPServer; several loops that
  share one pool of the HTTP client, whose map is then read without its lock.
