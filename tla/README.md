# A verification project for mxz_muduo_learn

TLA+ models of the reactor network library in `src/` (a C++11 rewrite of muduo's
multi-reactor), TLC runs that check them on small instances, and proofs that TLAPS
checks for every instance.

## 1. The system

One thread, one loop. A base loop accepts connections and hands each one to an I/O
loop of a pool; everything that happens to a connection afterwards happens on that
loop's thread, and other threads reach it only by queueing closures.

| component | state | operations | correct when |
|---|---|---|---|
| EventLoop | `pendingFunctors_`, `callingPendingFunctors_`, `quit_`, the eventfd, `activeChannels_` | `loop`, `quit`, `runInLoop`, `queueInLoop`, `wakeup`, `handleRead`, `doPendingFunctors` | no closure or quit is lost, closures start once and in order, the loop never sleeps on work |
| EventLoopThread, Thread | `loop_` with `mutex_` and `cond_`, the thread and its semaphore | constructor, `startLoop`, `threadFunc`, destructor, `start`, `join`, `~Thread` | `startLoop` returns a live loop; after the destructor nothing runs |
| EventLoopThreadPool | `numThreads_`, `loops_`, `next_` | `setThreadNum`, `start`, `getNextLoop`, `getLoopForHash`, `getAllLoops` | a loop it hands out is one of its own |
| Channel, EPollPoller | `events_`, `index_`, `channels_`, the epoll set | enable and disable, `update`, `remove`, `poll`, `handlerEvent` | the poller's belief and the kernel's agree, no epoll_ctl fails, no freed channel is called |
| Buffer | `buffer_`, `readerIndex_`, `writeIndex_` | `append`, `retrieve*`, `readFd`, `writeFd` | indexes in order and inside the vector; bytes first in, first out |
| TcpConnection | `state_`, channel, `outputBuffer_` | `send`, `shutdown`, the four handlers, `connectEstablished`, `connectDestroyed` | up then down once; output is sent, in order; closing completes; freed last |
| TcpServer | `connections_`, `nextConnId_`, `started_` | `setThreadNum`, `start`, `newConnection`, `removeConnection`, destructor | each connection is destroyed exactly once, on its loop; nothing runs after the destructor |
| Acceptor, Socket | the listening socket, its channel, the kernel's backlog | `listen`, `handleRead`, `accept`, destructor | who connects is dealt with, as long as there are descriptors |
| InetAddress | `addr_` | constructors, `toIp`, `toPort`, `toIpPort` | what was put in comes out |
| logger, Timestamp | `logLevel_`, the static `tm` of `localtime` | `LOG_*`, `setLogLevel`, `log`, `toString` | a line shows its own level and time |
| testServer, echoServer | none | `onConnection`, `onMessage` | the echo comes back, the write end is closed |

Interactions. `Acceptor::handleRead` calls `TcpServer::newConnection`, which calls
`getNextLoop` and queues `connectEstablished` on the loop it got; a connection that
closes calls `removeConnection`, which queues `removeConnectionInLoop` on the base loop,
which queues `connectDestroyed` back. `send` and `shutdown` from another thread queue
`sendInLoop` and `shutdownInLoop`. A connection drives its `Channel`, the channel its
loop's `EPollPoller`, and the poller calls the channel's handlers. Everybody logs.

What is hard: wakeups raced by the drain of the eventfd and the swap of the queue;
publication of `loop_` and a quit that comes early; `state_` tested on one thread and
set on another; closing and destruction that meet in several queues; partial writes
and resets; raw pointers in closures and in the poller; descriptors that run out; and a
destructor that stops loops whose queues are not empty. The list, each with its line and
the properties that cover it, is `hazards` in `PROJECT.json`.

## 2. The modules

    TaskQueue  <--implements--  EventLoop  <--extends--  EventLoopThread
    ByteStream <--implements--  Buffer
    Channel    <--extends--     TcpConnection, ConnectionLifetime, Acceptor
    Connection <--implements--  TcpConnection  <--implements--  EchoServer
    Connection <--implements--  ConnectionLifetime
    Connection <--each connection of--  TcpServer  --extends-->  EventLoopThreadPool, Acceptor
    InetAddress    Logger

    EventLoopProofs  EventLoopThreadProofs  BufferProofs  ChannelProofs
    TcpConnectionProofs (with EchoServer)  ConnectionLifetimeProofs  TcpServerProofs
    UtilityProofs (Logger and InetAddress)

* **EventLoop**. `pc` is the place of the loop's thread in `loop()` and
  `doPendingFunctors`; `op[t]` says that thread t has left its critical section (or
  set `quit_`) and still has to write the eventfd, so the order of push, flag test,
  write, drain and swap is free. Where `quit_` is reset on entry, so is it here.
  Handlers and closures are user code, which may call back into the loop. **TaskQueue**
  is what this should amount to: a FIFO of closures, each accepted and started once,
  with `runInLoop` on the loop's own thread allowed to start at once.
* **EventLoopThread** adds the owner (`owner`: where it is in `startLoop` or in the
  destructor) and the new thread (`thread`: where it is in `threadFunc`), and lets the
  loop of EventLoop run only inside `threadFunc`. The destructor's `quit` is EventLoop's.
* **Buffer** is the vector and its two indexes, byte for byte. Writing past the end is
  undefined, so nothing is modelled after it. `RetrieveAsString` copies as many bytes as it is
  asked for, as the code does: stale ones when there are fewer to read, any when the vector
  ends before (`FromPeek`). **ByteStream** is a FIFO of bytes; who asks for too many gets all there
  are, followed by bytes that mean nothing (`TakeTooMany`). The history variables of both:
  `piece`, the bytes the last operation put in, took off or handed out, and `excess`, how many
  of these were never in the stream.
* **Channel** holds the pure functions on a channel as its poller sees it: interest,
  `index_`, `channels_`, the kernel's epoll entry, and whether an epoll_ctl has failed (the
  kernel refuses an ADD of what is there and a MOD or DEL of what is not).
* **Connection** is what a connection promises to its user and its server, with no loop,
  socket or queue: up, then down; a closing is told to the server; the server lets go;
  it is destroyed then, the user told first if it was still up.
* **TcpConnection** is one connection in full. A handler is one step up to the user's
  callback it calls, since only the loop's thread touches the channel and the buffers.
  `state_` is the exception: other threads test it and set it, so `send` is two steps there
  and `shutdown` three, and the test and the set of `connectDestroyed` are two steps. The
  output buffer is the sequence of its readable bytes, which Buffer's refinement
  justifies, with the double retirement of `handleWrite` kept. The socket and the peer
  are the environment: room in the send buffer, FIN, RST, the pending error, hang-up.
  `Place` is what the server knows of it, for Connection.
* **ConnectionLifetime** is the same connection seen by its reference count: who holds a
  `TcpConnectionPtr` (the server's map, the closures of a batch until the vector is
  cleared, the `tie_` guard of `handlerEvent`, users on other threads), and who uses
  it with a raw pointer (the poller's `Channel*`, the `sendInLoop` of another thread's
  `send`). Bytes are left out: a write takes all, some or nothing. `Callbacks` and `Place`
  say what of it Connection sees.
* **EchoServer** puts the callbacks of the two programs on TcpConnection; each of its
  steps is one of TcpConnection's.
* **Acceptor** is the listening socket, its channel, the clients waiting in the kernel,
  and what becomes of them: taken, dropped by a failing `accept`, or left there at EMFILE.
* **EventLoopThreadPool** and **TcpServer**. A loop is the queue, the batch being run and
  `quit_`; a connection is what the server's bookkeeping meets of it, and
  `Contract(c)` says that this is what Connection allows. `newConnection`,
  `removeConnection` and the destructor queue closures or run them at once, as
  `runInLoop` would. `Start` returns when the pool's loops are published; each thread resets
  `quit_` when it enters its loop, later (`EnterLoop`), and then tests it. The destructor goes
  through `connections_`, then through the pool's threads, each told to quit and joined before
  the next (`joining` is the one it is at). A descriptor is
  taken from accept until nobody holds the connection any more.
* **InetAddress** is a `sockaddr_in` as its bytes, with the byte order of the port and
  the length `Socket::accept` leaves uninitialized. It has no state: the
  theorems of UtilityProofs say what the functions compute.
* **Logger**: each LOG macro in the steps its statements are, on any number of threads.

Definitions that begin a `Mutant of` comment are faulty variants, used by no
specification; each breaks one property, and `PROJECT.json` says which.

## 3. The runs

| run | what it asks | bounds | result |
|---|---|---|---|
| EventLoop | wakeup, queue and quit under all interleavings; TaskQueue | 2 other threads, 3 closures, 1 socket | holds |
| EventLoopThread | start, use, self-quit, destroy | 2 threads, 2 closures | holds |
| EventLoopThreadLostQuit | does the destructor always return? | as above | **violated** |
| Buffer | indexes and byte order; ByteStream | 8 bytes from a vector of 2, pieces up to 2 | holds |
| BufferOverrun | the indexes when a read is longer than the vector | a read of up to 5 | **violated** |
| TcpConnection | life of a connection, output, closing; Connection | 2 bytes a thread, send buffer of 1, 1 sender, mark of 2 | holds |
| TcpConnectionRace | poller, byte order, write event, high-water mark, with a concurrent `shutdown` | as above, and 1 shutter | holds |
| TcpConnectionOutput | is everything sent? | 4 bytes, in pieces up to 3 | **violated** |
| EchoServer | does the example's `shutdown` close the write end? | 3 bytes, send buffer of 1 | **violated** |
| TcpServer | bookkeeping, callbacks, descriptors, teardown; each connection lives as Connection | 0 to 2 threads, 3 clients, 2 descriptors | holds |
| ConnectionLifetime | no use after free, no leak; Connection | 2 users, 3 closures queued | holds |
| Logger | whose level and time a line shows | 3 threads, 3 calls | holds |

Why the bounds are enough. Three closures and two threads let one closure run while a
second waits in the vector and a third in the queue, with a writer between push and
wakeup. In Buffer the vector of two, with pieces of two, grows, wraps, is exactly full
and uses `extrabuf`. In TcpConnection a send buffer of one byte makes any longer write
partial; the high-water mark of two is crossed by one send, or by two. In TcpServer no
threads means the base loop serves its own connections and closures run inline; with two,
teardown joins an idle thread after a busy one; three clients let one be closing, one
queued and one live, and with two descriptors the third meets EMFILE. In
ConnectionLifetime two users let one drop its pointer while the other is inside `send`,
and three closures are a `sendInLoop` on either side of `connectDestroyed`. In Logger
three calls let one be overlapped by two others. Histories
(`ran`, `callbacks`, `given`, `wire`, `lines`) are bounded by the bounded inputs.

The four violations are disagreements between the code and its own text:

1. `loop()` resets `quit_`, so an early `quit()` is lost and the join hangs (`EventLoop.cpp:61`).
   `~TcpServer` soon after `start()` meets it too: `Start`, `DestroyServer` and `QuitThread(1)`
   before `EnterLoop(1)`, and the destructor waits for a thread that was told and has
   forgotten. `DestructorEnds` excepts exactly that (`QuitLost`).
2. `ensureWritableBytes` doubles once, whatever is needed (`Buffer.h:66`).
3. `writeFd` and `handleWrite` both retire what was written (`Buffer.cpp:44`, `TcpConnection.cpp:69`).
4. `handleWrite` tests `kDisconnected` where `shutdown` set `kDisconnecting`
   (`TcpConnection.cpp:76`), so that the shutdown of `echoServer.cpp:43` does not close the
   write end while the echo waits.

Met on the way and expected by no run:

* A concurrent `shutdown` may set `kDisconnecting` after `handleClose` set
  `kDisconnected` (`TcpConnection.cpp:185-186`). A send queued before then finds the
  connection not disconnected, keeps what it cannot write and asks for the write event:
  the closed channel is back in the poller, `handleClose` runs again and the user sees a
  second "down"; or, after `connectDestroyed`, the poller keeps a raw pointer to it.
  `UpThenDown` and `RemovedForGood` checked with the constants of `TcpConnectionRace.cfg`
  show both, which is why `TcpConnection.cfg` has no `Shutters`. Nothing else is wrong with a
  concurrent `shutdown`: the theorems about these properties only assume that no
  `ShutdownSet` meets a closed connection (`InTime`).
* A sender that tests `kConnected` and is then overtaken by the whole closing, up to
  `connectDestroyed`, queues a raw `sendInLoop` on a connection that only its own
  pointer keeps; when it drops that, the closure runs on freed memory. `RawClosureIsSafe`
  without its condition `~late` shows it.
* A connection that is up when the server is destroyed may never be seen to go down:
  `MissedDowns` says in which two cases only.
* `queueInLoop` before `loop()` on the loop's own thread sends no wakeup
  (`EventLoop.cpp:99`): the first iteration sleeps on the closure until something else comes.
  `SleepingLoopIsWoken` with `QueueBeforeLoop = TRUE` shows it, and its theorem assumes the contrary.
* `getNextLoop` never advances `next_` (`EventLoopThreadPool.cpp:31`), so that every
  connection is on the first loop of the pool: `FirstLoopOnly`, a theorem.
* At EMFILE `handleRead` only logs (`Acceptor.cpp:52`): the socket stays readable and the
  base loop spins until a descriptor comes back. Then the client is taken (`WaitingClientIsTaken`).
* `accept` is given an uninitialized length (`Socket.cpp:32`): the client may be lost, or
  its address cut off, as `AcceptedAddress` says.
* A text that is no address is not refused (`MalformedIsNone`).
* A line of the log may show the level and the time of another thread's call, but only of
  one that overlapped it (`ShownIsOfAnOverlap`).
* `retrieveAsString(len)` does not compare `len` with what there is (`Buffer.h:56`): too large a
  `len` hands out stale bytes behind the readable ones, or reads past the vector. In the
  repository only `retrieveAllAsString` calls it, with exactly what there is.
* `handleRead` of the loop compares what `read` returns, 8, with the counter it read into `one`
  (`EventLoop.cpp:54`): it logs an error unless that counter stands at exactly eight.
* README.md of the repository says that a full buffer moves its data to the front;
  `makeSpace`, which would, is called by nobody. `MakeSpaceMakesRoom` says what it would do.
* With `MUDUO_USE_POLL` set `newDefaultPoller` returns a null pointer, which the loop uses;
  `echoServer.cpp` misspells `start`, and does not compile.

Fairness. A loop's thread is scheduled, callbacks return, a thread that has begun a call
finishes it, and epoll_wait returns when the eventfd is readable or, in TcpConnection,
when a descriptor it watches is ready. Not assumed: the poll timeout, any event of a socket
in EventLoop, that anybody ever sends, quits or destroys, or that a peer closes. In
TcpConnection and EchoServer the peer's acknowledgements go on (`PeerAcks`), or no output
would ever drain. In TcpServer `accept` is strongly fair, `NewConnection \/ NoConnection`: the
base loop leaves the place where it handles events again and again to run closures, and a
level-triggered poll reports the listening socket each time it comes back. Each thread of the
pool enters its loop; that main calls `loop()` of the base loop is not assumed. In
ConnectionLifetime a user drops its pointer in the end (strongly fair, as it may be in
`send` in between), without which nothing is ever freed; that its loop is told to quit is
not assumed.
`CHECK_DEADLOCK FALSE` is set where the system may stop for good: a thread that has ended,
a connection destroyed, a server gone, all calls logged.

## 4. The proofs

All theorems are checked by TLAPS for every value of the constants.

* **EventLoopProofs**. `TypeCorrect`: `TypeOK`. `NeverSleepsOnWork`: if the loop's own
  thread queues nothing before `loop()` (`~QueueBeforeLoop`), `SleepingLoopIsWoken` is an
  invariant. By itself it is not inductive, as work may arrive while the loop is not in epoll_wait;
  `WakeupInductive` carries the stronger statement about the other places of the loop's thread,
  from which the next entry into epoll_wait follows. `RefinesTaskQueue`: each step is a step of TaskQueue or a
  stutter, under the queue `functors \o pendingFunctors_`; the swap maps to a stutter because it
  happens only when `functors` is empty, which `TypeOK` gives.
* **EventLoopThreadProofs**. `OwnerInductive` relates the owner's place, the thread's and
  the loop's; from it `StartedLoopStaysLive`, `DestructorEndsLoop`, and `DestructorJoins` (the thread
  has ended, when only the destructor quits). `ThreadRunsAnEventLoop` shows that
  the composition implements EventLoop, so that the theorems about the loop carry over:
  `ThreadNeverSleepsOnWork`, `ThreadRefinesTaskQueue`.
* **BufferProofs**, from `PiecesFit`: no piece appended or read is longer than the initial
  vector (1032 bytes in the code). That is the condition under which one doubling is enough,
  and BufferOverrun shows that it is needed. `IndexesStayInOrder`, `RefinesByteStream` and
  `BufferTypeCorrect` follow from lemmas, one per operation, on what the operation does to
  the readable bytes: it adds behind them, takes the first ones, or takes all and hands out
  more (`Grows`, `Shrinks`, `Overruns`; `PeekedBytes` says that a copy of any length begins with the
  readable bytes). `OneDoublingSuffices` does without `PiecesFit` and gives the exact
  bound of the second violation: a piece stays inside the vector if and only if it is no longer
  than the room and the vector together. `BothTakeFromTheFront`: `writeFd(n)` and
  `retrieve(n)` each drop the first n readable bytes, which is what `AfterWrite` of
  TcpConnection does twice, as `handleWrite` calls both. `MakeSpaceMakesRoom`.
* **ChannelProofs**. `InStep` is stronger than `InSync`: it ties `index_`, `channels_` and
  the epoll entry to each other for each value of `index_`. Every function of Channel.h keeps
  it, so any sequence of them does (`ChannelStaysInStep`).
* **TcpConnectionProofs**, in layers. `PollerStaysInSync`: every step does to the channel
  what Channel's functions do, so `InStep` holds, and no epoll_ctl fails. `Typed`: the types of
  the places, the data and the queue (`TypeCorrect`). `Writing`: before
  `connectEstablished` has run there is no output; from then on, while the connection is up,
  the write event is asked for exactly if output waits (`WritesWhileOutput`). `Order`: the
  bytes on the wire, in the buffer, in queued `sendInLoop`s and still to be sent form, for
  each thread, an increasing sequence; `InOrder` is its first part and is not inductive
  without the others, since a queued closure carries bytes into the buffer
  (`BytesInOrder`). `MarkIsToldOnCrossing`: a step queues the high-water callback exactly if
  the output crosses the mark in it; `MarksOfAppend`, `MarksOfTail` and the lemmas around
  them count such closures in a queue that grows or loses its head. These hold whatever
  `Shutters` is. The following hold in every behaviour in which no `ShutdownSet` meets a
  closed connection, stated as `Spec /\ [][InTime]_vars`; `NobodyIsLate` says that this is
  every behaviour if `Shutters = {}`. `Life`: the state goes one way, a closing is told once,
  `connectDestroyed` is queued once and nothing queued behind it enables the channel
  again. From it `UpThenDownOnce`, `StaysRemoved` and `RefinesConnection`. `NoneLost`: while the
  connection is neither closed nor broken, every byte sent is on the wire, in the buffer or
  in the queue. With `Order` it gives `OutputComplete`, if `handleWrite` never writes
  a part of its output (`WholeWrites`): `NothingElseIsLost`, which makes the third
  violation, together with the late shutdown, the only ways in which bytes are lost.
  `OutputComplete` has to be carried along, as nothing follows about a broken connection
  but that its wire stands still (`StoppedIsOver`, `WireMoves`). `ProgramsUseAConnection`: the user code of
  the two programs takes only steps of TcpConnection, if the bound on a send is no smaller
  than that on the peer's messages; so the theorems hold of them (`ProgramsSeeUpThenDown`).
* **ConnectionLifetimeProofs**. `PolledIsAlive` and `RawClosureIsSafe` speak of the
  holders at two moments; the invariant `LifetimeInv` says who holds the connection at every
  moment. `connectEstablished` is first in the queue (`EstablishedFirst`); `connectDestroyed`
  is queued once, when the map lets go, and among the closures of the batch once it was taken
  (`DestroyedOnce`), so that until it has run the map or that closure keeps the connection
  (`KeptUntilRun`); what was queued before it was taken is run in the same batch, whose
  vector keeps the connection (`EarlyInBatch`); the channel is in epoll only in between
  (`ChannelFollows`); and a server that is going away has no other thread in `send`
  (`ServerFollows`). `LifetimeAlways` is that invariant; `PolledAlive`, `RawClosureSafe` and
  `FreedAfter` follow, and `LifetimeImplementsConnection` goes through the steps once more.
* **TcpServerProofs**, in layers, each proved with the help of those below it. `LifeInv`:
  the pool, `given` and `joining` (`Pool`), the acceptor's channel (`Accepting`), and where the loops
  and the destructor are (`Phases`: the base loop runs only while the server is started, a
  pool's thread is told to quit only when `connections_` is empty). `Queues`: closures are about
  accepted connections, and only the base loop is asked to remove one. `Told`: the callbacks
  follow from the state (`Lives`), and `connectEstablished` waits, once, before any
  `connectDestroyed`, for exactly the connections that are still connecting
  (`InOrderOfLife`). `Held`: `connectDestroyed` waits, once, for exactly what is neither in
  the map nor destroyed (`Downs`), and `removeConnection`, once at most, only for what went
  down and is still in the map (`Removals`, `GoneAreDown`); without the last two, the closing
  reported by the loop and the destructor could both destroy it. The properties follow:
  `ServerTypeCorrect`, `QuietWhenGone`, `DeadLoopsLeftAlone`, `UpThenDownOnce`,
  `HeldInOnePlace`, `WhoMissesItsDown`, and `ConnectionsLiveOn`, that each connection takes
  only the steps of Connection.
* **UtilityProofs**. `ShownOfAnOverlap`: `LoggerInv` says that any two calls under way know of
  each other, and that what a call reads next, or has read, is of a call it knows of; the
  property, about lines already written, is not inductive without. `LoggingAlone` is its
  corollary. InetAddress: `PortRoundTrip`, `IpPortRoundTrip`, `MalformedIsNone`,
  `AcceptedAddress`.

Connection is where the parts meet: `RefinesConnection` says that one connection,
with its socket, queue and senders, is to its user and server what Connection says,
`LifetimeImplementsConnection` that this is so with its holders and their pointers too, and
`ConnectionsLiveOn` that what TcpServer keeps of each is the same.

Assumptions: the `ASSUME`s of the modules (distinct threads, natural sizes), which TLC evaluates in
every run, and the ones named above. Every invariant and every action property of a passing
run is stated by a theorem. Only model-checked is liveness, as fairness and ENABLED are out of
the prover's reach: `QueuedFunctorRuns`, `QuitEndsLoop`, `StartLoopReturns`,
`DestructorReturnsOnceLooping`, `OutputDrains`, `CloseCompletes`, `FreedInTheEnd`,
`ClosedIsRemoved`, `DescriptorReturns`, `WaitingClientIsTaken` and `DestructorEnds`.

## 5. Not modelled

* `CurrentThread` (a cached thread id: in the models a thread is who it is), `noncopyable`,
  `copyable`, the names of connections and threads, and what the build directories contain.
* Socket options, and the growth of `events_`: a poll may report any part of what is ready.
* `main.cpp`, which prints a line, and `muduo_server.cpp`, which is commented out.
* `LOG_FATAL`, which ends the process, wherever it follows a failing system call; it is a step of
  Logger only.
* SIGPIPE: the application is taken to ignore it, as a write after RST would end the process.
* The string whose `c_str()` `send` binds on another thread: the caller keeps it until the
  closure has run. A `sendInLoop` queued after `connectDestroyed` was taken is undefined
  (section 3).
* A server destroyed inside its running base loop: the programs destroy it after `loop()`.
* In EventLoopThread, the destruction of a mutex that the ending thread still holds
  (`EventLoopThread.cpp:18` reads `loop_` with no lock): undefined from there on.

## 6. What is left

The concurrent `shutdown` in the abstract: a weaker Connection, in which a closed
connection may come back, would say exactly what a late `ShutdownSet` can do. An AfterWrite
without the second retirement, to show that `OutputComplete` then needs `InTime` only. The
refinement of Connection by ConnectionLifetime and by TcpConnection suggests a common
refinement of both, with bytes and holders together; it would answer nothing that the two
do not. A composition of TcpServer with the clients' bytes would ask whether an echo
returns, but answers nothing that TcpConnection and Connection do not.
