---------------------------- MODULE TcpServer ----------------------------
(***************************************************************************)
(* A TcpServer (TcpServer.cpp) with its Acceptor, its pool of loops and its *)
(* connections, from setThreadNum to the end of its destructor.             *)
(*                                                                          *)
(* A loop is what EventLoop and EventLoopThread show it to be: published     *)
(* before its thread enters loop(), it resets quit_, and then, until it      *)
(* finds quit_ set between two iterations, handles events, takes the closures *)
(* queued so far and runs them in order; what was queued since stays.  Of a  *)
(* connection only what the server's bookkeeping meets is here: TcpConnection *)
(* has the rest.  Connection c is the c-th one accepted, its loop given[c].  *)
(*                                                                          *)
(* A TcpConnection holds a descriptor for as long as somebody holds it: the  *)
(* server's map, a queued closure, or one already run, since the vector of   *)
(* doPendingFunctors is cleared as a whole when the function returns.        *)
(*                                                                          *)
(* The server is destroyed as in testServer.cpp, on the base loop's thread,  *)
(* when that thread is not inside loop().                                   *)
(***************************************************************************)
EXTENDS EventLoopThreadPool, Acceptor, FiniteSets

CONSTANT MaxFds     \* connections the process has descriptors for

ASSUME ServerAssumption == MaxFds \in Nat \ {0}

VARIABLES
  phase,         \* phase[l]: "init", "events", "functors" or "exited"
  quit_,
  batch,         \* batch[l]: closures of this iteration still to run
  queue,         \* queue[l]: closures of the server and its connections
  held,          \* held[l]: connections of the closures run in this iteration
  server,        \* "constructed", "started", "destroying" or "gone"
  connections_,
  state_,
  callbacks,     \* history: what connectionCallback_ saw of each connection
  destroyed      \* history: connections whose connectDestroyed has run

loopVars == <<phase, quit_, batch, queue, held>>
connVars == <<state_, callbacks, destroyed>>
serverVars == <<poolVars, acceptorVars, loopVars, connVars, server, connections_>>

Loops == {baseLoop_} \cup 1..Len(loops_)
AllLoops == {baseLoop_} \cup 1..MaxThreads
Conns == 1..MaxConns

ServerInit ==
  /\ PoolInit
  /\ AcceptorInit
  /\ phase = [l \in AllLoops |-> "init"]
  /\ quit_ = [l \in AllLoops |-> FALSE]
  /\ batch = [l \in AllLoops |-> 0]
  /\ queue = [l \in AllLoops |-> <<>>]
  /\ held = [l \in AllLoops |-> {}]
  /\ server = "constructed"
  /\ connections_ = {}
  /\ state_ = [c \in Conns |-> "kConnecting"]
  /\ callbacks = [c \in Conns |-> <<>>]
  /\ destroyed = {}

Functor(op, c) == [op |-> op, conn |-> c]

\* The queues q with one more closure on loop l.
Queued(q, l, f) == [q EXCEPT ![l] = Append(@, f)]

Saw(c, what) == callbacks' = [callbacks EXCEPT ![c] = Append(@, what)]

--------------------------------------------------------------------------
(* Descriptors.                                                             *)

\* Does a closure of loop l hold connection c?  A thread of the pool that left its
\* loop has destroyed it; the base loop outlives the server.
HeldBy(l, c) ==
  /\ l = baseLoop_ \/ phase[l] # "exited"
  /\ c \in held[l] \cup {queue[l][i].conn : i \in DOMAIN queue[l]}

\* Is the TcpConnection there, and its descriptor open?
Alive(c) == c \in connections_ \/ \E l \in Loops : HeldBy(l, c)

Free == MaxFds - Cardinality({c \in 1..Len(given) : Alive(c)})

--------------------------------------------------------------------------
(* The connection's part (TcpConnection.cpp), on its own loop.              *)

ConnectEstablished(c) ==
  /\ state_' = [state_ EXCEPT ![c] = "kConnected"]
  /\ Saw(c, "up")
  /\ UNCHANGED destroyed

\* Mutant of ConnectDestroyed: the callback is called whatever the state.
ConnectDestroyedAlwaysDown(c) ==
  /\ state_' = [state_ EXCEPT ![c] = "kDisconnected"]
  /\ Saw(c, "down")
  /\ destroyed' = destroyed \cup {c}

ConnectDestroyed(c) ==
  /\ IF state_[c] = "kConnected"
     THEN state_' = [state_ EXCEPT ![c] = "kDisconnected"] /\ Saw(c, "down")
     ELSE UNCHANGED <<state_, callbacks>>
  /\ destroyed' = destroyed \cup {c}

Shutdown(c) ==
  /\ state_[c] = "kConnected"
  /\ phase[given[c]] # "exited"
  /\ state_' = [state_ EXCEPT ![c] = "kDisconnecting"]
  /\ UNCHANGED <<poolVars, acceptorVars, loopVars, server, connections_, callbacks, destroyed>>

--------------------------------------------------------------------------
(* The server, on the base loop's thread.                                   *)

SetThreads(n) ==
  /\ server = "constructed"
  /\ SetThreadNum(n)
  /\ UNCHANGED <<acceptorVars, loopVars, connVars, server, connections_>>

\* start: startLoop has published the pool's loops, which their threads have yet to enter,
\* and the base loop's thread listens at once.
Start ==
  /\ server = "constructed"
  /\ server' = "started"
  /\ PoolStart
  /\ Listen
  /\ UNCHANGED <<loopVars, connVars, connections_>>

\* A thread of the pool, or main in the base loop's case, enters loop(): quit_ is reset,
\* and tested next, as it is after the closures of each iteration.
EnterLoop(l) ==
  /\ phase[l] = "init"
  /\ l = baseLoop_ => server = "started"
  /\ phase' = [phase EXCEPT ![l] = "functors"]
  /\ quit_' = [quit_ EXCEPT ![l] = FALSE]
  /\ UNCHANGED <<poolVars, acceptorVars, batch, queue, held, connVars, server, connections_>>

\* Somebody connects.  Bound: at most MaxConns clients in all.
Client ==
  /\ backlog + dropped + Len(given) < MaxConns
  /\ ClientConnects
  /\ UNCHANGED <<poolVars, loopVars, connVars, server, connections_>>

\* Acceptor::handleRead and newConnection.  runInLoop runs the closure here when the
\* connection's loop is the base loop.
NewConnection ==
  /\ phase[baseLoop_] = "events"
  /\ AcceptTakes(Free)
  /\ GetNextLoop
  /\ LET c == Len(given) + 1
     IN  /\ connections_' = connections_ \cup {c}
         /\ IF NextLoop = baseLoop_
            THEN ConnectEstablished(c) /\ UNCHANGED queue
            ELSE /\ queue' = Queued(queue, NextLoop, Functor("connectEstablished", c))
                 /\ UNCHANGED connVars
  /\ UNCHANGED <<phase, quit_, batch, held, server>>

\* Acceptor::handleRead, when accept fails.
NoConnection ==
  /\ phase[baseLoop_] = "events"
  /\ AcceptDrops(Free) \/ AcceptFails(Free)
  /\ UNCHANGED <<poolVars, loopVars, connVars, server, connections_>>

\* Mutant of RemoveConnectionInLoop: the map keeps the connection.
RemoveConnectionInLoopKeeps(c, q) ==
  /\ queue' = Queued(q, given[c], Functor("connectDestroyed", c))
  /\ UNCHANGED connections_

\* removeConnectionInLoop; q are the queues as it finds them.
RemoveConnectionInLoop(c, q) ==
  /\ connections_' = connections_ \ {c}
  /\ queue' = Queued(q, given[c], Functor("connectDestroyed", c))

--------------------------------------------------------------------------
(* What a loop does.                                                        *)

\* removeConnection, the connection's closeCallback_, on the connection's loop.
RemoveConnection(c) ==
  IF given[c] = baseLoop_
  THEN RemoveConnectionInLoop(c, queue)
  ELSE /\ queue' = Queued(queue, baseLoop_, Functor("removeConnection", c))
       /\ UNCHANGED connections_

\* Mutant of HandleClose: closeCallback_ is forgotten.
HandleCloseNotTold(c) ==
  /\ phase[given[c]] = "events"
  /\ state_[c] \in {"kConnected", "kDisconnecting"}
  /\ c \notin destroyed
  /\ state_' = [state_ EXCEPT ![c] = "kDisconnected"]
  /\ Saw(c, "down")
  /\ UNCHANGED <<poolVars, acceptorVars, loopVars, server, connections_, destroyed>>

\* The peer is gone, handleClose runs: the callback sees it, and then the server.
HandleClose(c) ==
  /\ phase[given[c]] = "events"
  /\ state_[c] \in {"kConnected", "kDisconnecting"}
  /\ c \notin destroyed
  /\ state_' = [state_ EXCEPT ![c] = "kDisconnected"]
  /\ Saw(c, "down")
  /\ RemoveConnection(c)
  /\ UNCHANGED <<poolVars, acceptorVars, phase, quit_, batch, held, server, destroyed>>

DoPendingFunctors(l) ==
  /\ phase[l] = "events"
  /\ queue[l] # <<>> \/ quit_[l]
  /\ batch' = [batch EXCEPT ![l] = Len(queue[l])]
  /\ phase' = [phase EXCEPT ![l] = "functors"]
  /\ UNCHANGED <<poolVars, acceptorVars, quit_, queue, held, connVars, server, connections_>>

\* Mutant of Taken: the closure is still counted after it was taken.
TakenStays(l) == batch' = batch

\* One closure of the batch is taken.
Taken(l) == batch' = [batch EXCEPT ![l] = @ - 1]

RunFunctor(l) ==
  /\ phase[l] = "functors"
  /\ batch[l] > 0
  /\ Taken(l)
  /\ LET c == Head(queue[l]).conn
         op == Head(queue[l]).op
         rest == [queue EXCEPT ![l] = Tail(@)]
     IN  /\ held' = [held EXCEPT ![l] = @ \cup {c}]
         /\ \/ /\ op = "connectEstablished"
               /\ ConnectEstablished(c)
               /\ queue' = rest
               /\ UNCHANGED connections_
            \/ /\ op = "removeConnection"
               /\ RemoveConnectionInLoop(c, rest)
               /\ UNCHANGED connVars
            \/ /\ op = "connectDestroyed"
               /\ ConnectDestroyed(c)
               /\ queue' = rest
               /\ UNCHANGED connections_
  /\ UNCHANGED <<poolVars, acceptorVars, phase, quit_, server>>

\* Mutant of PendingFunctorsDone: quit_ is not tested.
PendingFunctorsDoneNoTest(l) ==
  /\ phase[l] = "functors"
  /\ batch[l] = 0
  /\ phase' = [phase EXCEPT ![l] = "events"]
  /\ held' = [held EXCEPT ![l] = {}]
  /\ UNCHANGED <<poolVars, acceptorVars, quit_, batch, queue, connVars, server, connections_>>

\* Mutant of PendingFunctorsDone: the vector outlives the call.
PendingFunctorsDoneKeeps(l) ==
  /\ phase[l] = "functors"
  /\ batch[l] = 0
  /\ phase' = [phase EXCEPT ![l] = IF quit_[l] THEN "exited" ELSE "events"]
  /\ UNCHANGED <<poolVars, acceptorVars, quit_, batch, queue, held, connVars, server,
                 connections_>>

PendingFunctorsDone(l) ==
  /\ phase[l] = "functors"
  /\ batch[l] = 0
  /\ phase' = [phase EXCEPT ![l] = IF quit_[l] THEN "exited" ELSE "events"]
  /\ held' = [held EXCEPT ![l] = {}]
  /\ UNCHANGED <<poolVars, acceptorVars, quit_, batch, queue, connVars, server, connections_>>

\* Somebody calls quit() of the base loop.
BaseQuit ==
  /\ phase[baseLoop_] # "exited"
  /\ ~quit_[baseLoop_]
  /\ quit_' = [quit_ EXCEPT ![baseLoop_] = TRUE]
  /\ UNCHANGED <<poolVars, acceptorVars, phase, batch, queue, held, connVars, server,
                 connections_>>

--------------------------------------------------------------------------
(* ~TcpServer: its body, then its members, the pool's threads one by one and *)
(* the acceptor last.                                                       *)

DestroyServer ==
  /\ server \in {"constructed", "started"}
  /\ phase[baseLoop_] \in {"init", "exited"}
  /\ server' = "destroying"
  /\ UNCHANGED <<poolVars, acceptorVars, loopVars, connVars, connections_>>

\* Mutant of DestroyConnection: the map is cleared, the connection is not told.
DestroyConnectionNotTold(c) ==
  /\ server = "destroying"
  /\ c \in connections_
  /\ connections_' = connections_ \ {c}
  /\ UNCHANGED <<poolVars, acceptorVars, loopVars, connVars, server>>

DestroyConnection(c) ==
  /\ server = "destroying"
  /\ c \in connections_
  /\ connections_' = connections_ \ {c}
  /\ IF given[c] = baseLoop_
     THEN ConnectDestroyed(c) /\ UNCHANGED queue
     ELSE /\ queue' = Queued(queue, given[c], Functor("connectDestroyed", c))
          /\ UNCHANGED connVars
  /\ UNCHANGED <<poolVars, acceptorVars, phase, quit_, batch, held, server>>

\* Mutant of QuitThread: the pool is stopped before the connections are told.
QuitThreadFirst(i) ==
  /\ server = "destroying"
  /\ joining > 0 => phase[joining] = "exited"
  /\ PoolJoins(i)
  /\ quit_' = [quit_ EXCEPT ![i] = TRUE]
  /\ UNCHANGED <<acceptorVars, phase, batch, queue, held, connVars, server, connections_>>

\* ~EventLoopThread of the i-th thread, the one before it joined.
QuitThread(i) ==
  /\ server = "destroying"
  /\ connections_ = {}
  /\ joining > 0 => phase[joining] = "exited"
  /\ PoolJoins(i)
  /\ quit_' = [quit_ EXCEPT ![i] = TRUE]
  /\ UNCHANGED <<acceptorVars, phase, batch, queue, held, connVars, server, connections_>>

Destroyed ==
  /\ server = "destroying"
  /\ connections_ = {}
  /\ \A i \in 1..Len(loops_) : phase[i] = "exited"
  /\ AcceptorDestroyed
  /\ server' = "gone"
  /\ UNCHANGED <<poolVars, loopVars, connVars, connections_>>

--------------------------------------------------------------------------

LoopStep(l) == DoPendingFunctors(l) \/ RunFunctor(l) \/ PendingFunctorsDone(l)

DestructorStep ==
  \/ \E c \in connections_ : DestroyConnection(c)
  \/ \E i \in 1..Len(loops_) : QuitThread(i)
  \/ Destroyed

ServerNext ==
  \/ \E n \in 0..MaxThreads : SetThreads(n)
  \/ Start \/ BaseQuit
  \/ Client \/ NewConnection \/ NoConnection
  \/ \E c \in 1..Len(given) : HandleClose(c) \/ Shutdown(c)
  \/ \E l \in Loops : EnterLoop(l) \/ LoopStep(l)
  \/ DestroyServer
  \/ DestructorStep

\* Every loop's thread is scheduled, and so is the destructor once it is called; main need
\* not call loop() of the base loop.  A poll of that loop reports the listening socket as
\* long as a client waits, whatever else the loop has to do in between.
ServerFairness ==
  /\ \A l \in AllLoops : WF_serverVars(l \in Loops /\ LoopStep(l))
  /\ \A l \in 1..MaxThreads : WF_serverVars(l \in Loops /\ EnterLoop(l))
  /\ WF_serverVars(DestructorStep)
  /\ SF_serverVars(NewConnection \/ NoConnection)

ServerSpec == ServerInit /\ [][ServerNext]_serverVars

ServerFairSpec == ServerSpec /\ ServerFairness

--------------------------------------------------------------------------
(* Properties.                                                              *)

Functors ==
  [op : {"connectEstablished", "removeConnection", "connectDestroyed"}, conn : Conns]

\* Types; no loop counts on more closures than it has; epoll knows of the listening
\* socket what its channel asks.
ServerTypeOK ==
  /\ numThreads_ \in 0..MaxThreads
  /\ Len(loops_) \in 0..MaxThreads
  /\ given \in Seq(Loops)
  /\ joining \in 0..Len(loops_)
  /\ acceptSocket_ \in {"bound", "listening", "closed"}
  /\ acceptChannel_ \in ChannelType /\ InSync(acceptChannel_)
  /\ backlog \in Nat /\ dropped \in Nat
  /\ phase \in [AllLoops -> {"init", "events", "functors", "exited"}]
  /\ quit_ \in [AllLoops -> BOOLEAN]
  /\ queue \in [AllLoops -> Seq(Functors)]
  /\ held \in [AllLoops -> SUBSET Conns]
  /\ \A l \in AllLoops : batch[l] \in 0..Len(queue[l])
  /\ server \in {"constructed", "started", "destroying", "gone"}
  /\ connections_ \subseteq 1..Len(given)
  /\ state_ \in [Conns -> {"kConnecting", "kConnected", "kDisconnecting", "kDisconnected"}]
  /\ destroyed \subseteq Conns

\* How often the closure waits on loop l.
Waiting(l, f) == {i \in DOMAIN queue[l] : queue[l][i] = f}

\* A connection is in exactly one of three places, and once: in connections_, on its way
\* out with connectDestroyed queued, or destroyed.  Its closing, reported by its own
\* loop, and the server's destruction cannot both destroy it, nor can both miss it.
HeldOnce ==
  \A c \in 1..Len(given) :
    LET dying == Waiting(given[c], Functor("connectDestroyed", c))
    IN  \/ c \in connections_ /\ dying = {} /\ c \notin destroyed
        \/ c \notin connections_ /\ (\E i \in dying : dying = {i}) /\ c \notin destroyed
        \/ c \notin connections_ /\ dying = {} /\ c \in destroyed

\* The callback of each connection sees it up, then down once, and nothing is destroyed
\* before it was up: connectEstablished is first in the queue of the connection's loop.
EachUpThenDown ==
  \A c \in Conns :
    /\ callbacks[c] \in {<<>>, <<"up">>, <<"up", "down">>}
    /\ c \in destroyed => callbacks[c] # <<>>

\* When the server is gone, a connection that came up and was not seen to go down is one
\* the user had shut down (connectDestroyed tests kConnected only), or one whose
\* connectDestroyed came too late for the last iteration of its loop.
MissedDowns ==
  server = "gone" =>
    \A c \in 1..Len(given) :
      callbacks[c] = <<"up">> =>
        \/ state_[c] = "kDisconnecting"
        \/ Waiting(given[c], Functor("connectDestroyed", c)) # {}

\* When the destructor has returned no loop runs any more: no callback, and no closure
\* bound to the raw pointer to the server, is called after it.  The listening socket is
\* out of epoll, and the connections are freed, but for those in the base loop's queue.
GoneIsQuiet ==
  server = "gone" =>
    /\ \A l \in Loops : phase[l] \in {"init", "exited"} /\ (l # baseLoop_ => quit_[l])
    /\ acceptChannel_.epoll = {}
    /\ \A c \in 1..Len(given) : Alive(c) => HeldBy(baseLoop_, c)

\* What this module keeps of connection c, as Connection sees it.
Place(c) ==
  IF c \in connections_ \/ c > Len(given)
  THEN IF Waiting(baseLoop_, Functor("removeConnection", c)) = {} THEN "has" ELSE "told"
  ELSE "left"

Contract(c) ==
  INSTANCE Connection WITH
    state <- state_[c], callbacks <- callbacks[c], destroyed <- c \in destroyed,
    place <- Place(c)

\* The server, its loops and its destructor let each connection live as Connection does,
\* which TcpConnection implements: what is left out of a connection here is only that.
ConnectionsLive ==
  /\ \A c \in Conns : Contract(c)!Init
  /\ [][\A c \in Conns : [Contract(c)!Next]_(Contract(c)!vars)]_serverVars

\* No closure is queued on a loop whose thread has left it and destroyed it: the
\* destructor tells the connections before it stops the threads, and the base loop,
\* the only other one to queue there, has ended by then.
NothingForDeadLoops ==
  [][\A l \in AllLoops \ {baseLoop_} : phase[l] = "exited" => queue'[l] = queue[l]]_serverVars

\* A connection that went down leaves connections_, unless the base loop ends first.
ClosedIsRemoved ==
  \A c \in Conns :
    callbacks[c] = <<"up", "down">> ~> c \notin connections_ \/ phase[baseLoop_] = "exited"

\* The descriptor of a destroyed connection is given back: every closure that holds the
\* connection goes, unless the base loop ends with one in its queue.
DescriptorReturns ==
  \A c \in Conns : c \in destroyed ~> ~Alive(c) \/ phase[baseLoop_] = "exited"

\* As long as descriptors are left, who waits to be accepted is dealt with, unless the
\* base loop is told to quit: after EMFILE too, since the socket stays readable.
WaitingClientIsTaken ==
  <>[](Free > 0) =>
    (backlog > 0 /\ phase[baseLoop_] = "events" ~> backlog = 0 \/ quit_[baseLoop_])

\* The thread that the destructor joins entered loop() after it was told to quit.
QuitLost == joining > 0 /\ phase[joining] # "exited" /\ ~quit_[joining]

\* The destructor returns: each thread of the pool sees its quit_, whatever it was doing,
\* except when that came between the publication of its loop and loop()'s reset of it.
DestructorEnds == server = "destroying" ~> server = "gone" \/ QuitLost

==========================================================================
