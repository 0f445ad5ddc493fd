------------------------ MODULE ConnectionLifetime ------------------------
(***************************************************************************)
(* Who keeps a TcpConnection alive, and who uses it without keeping it      *)
(* (TcpServer.cpp, TcpConnection.cpp, Channel.cpp, EventLoop.cpp).  The      *)
(* connection is on a loop of the pool.  It is kept by the server's map, by  *)
(* the closures that bind a TcpConnectionPtr, until the vector they are in   *)
(* is cleared, by the guard Channel::handlerEvent takes through tie_, and by *)
(* users on other threads.  The poller's Channel* and the sendInLoop closure *)
(* of another thread's send are raw pointers.                               *)
(*                                                                          *)
(* Bytes are left out: a write may take all, some or nothing.  shutdown is   *)
(* called on the loop's thread only (TcpConnection has the others), and the  *)
(* server destroyed once no other thread is in send or has one queued.      *)
(***************************************************************************)
EXTENDS Naturals, Sequences, Channel

CONSTANTS
  Users,        \* the other threads that may hold the connection
  MaxQueue      \* bound: closures queued at once by send and its callbacks

ASSUME LifetimeAssumption == MaxQueue \in Nat \ {0}

VARIABLES
  pc,           \* where the connection's loop is
  reported,     \* reported events, the channel still in activeChannels_
  queue,        \* closures: op, and whether queued after connectDestroyed was taken
  batch,        \* closures of this iteration still to run
  held,         \* does a closure run in this iteration keep the connection?
  state_,
  channel_,
  destroyed,    \* history: "no", "taken" with its batch, or "run": connectDestroyed
  connections_, \* is the connection in the server's map?
  base,         \* removeConnection closures queued on the base loop
  baseHeld,     \* does a closure run in the base loop's iteration keep it?
  server,       \* "up", "gone" (~TcpServer's body ran) or "quit" (so did the pool's)
  user          \* user[u]: "none", "holds" a TcpConnectionPtr, or "send": tested state_

connVars == <<state_, channel_, destroyed>>
serverVars == <<connections_, base, baseHeld, server>>
vars == <<pc, reported, queue, batch, held, connVars, serverVars, user>>

Functor(op) == [op |-> op, late |-> destroyed # "no"]
Queued(op) == queue' = Append(queue, Functor(op))

\* sendInLoop is bound to the raw pointer, the others to a TcpConnectionPtr.
Keeps(f) == f.op # "sendInLoop"

Init ==
  /\ pc = "poll"
  /\ reported = {}
  /\ queue = <<[op |-> "connectEstablished", late |-> FALSE]>>
  /\ batch = 0
  /\ held = FALSE
  /\ state_ = "kConnecting"
  /\ channel_ = NewChannel
  /\ destroyed = "no"
  /\ connections_ = TRUE
  /\ base = 0
  /\ baseHeld = FALSE
  /\ server = "up"
  /\ user = [u \in Users |-> "none"]

\* Is the TcpConnection there?  A loop that was left takes its closures with it.
Alive ==
  \/ connections_ \/ base > 0 \/ baseHeld
  \/ held \/ pc = "handling"
  \/ pc # "exited" /\ \E i \in DOMAIN queue : Keeps(queue[i])
  \/ \E u \in Users : user[u] # "none"

--------------------------------------------------------------------------
(* The connection.                                                          *)

\* A callback may give copies of its TcpConnectionPtr away.
Copies ==
  \E us \in SUBSET Users :
    user' = [u \in Users |-> IF u \in us /\ user[u] = "none" THEN "holds" ELSE user[u]]

\* sendInLoop, the queue being q: all is written, or some of it, or nothing at all.
SendInLoop(q) ==
  \/ queue' = q /\ UNCHANGED channel_
  \/ /\ state_ # "kDisconnected"
     /\ Len(q) < MaxQueue
     /\ queue' = Append(q, Functor("callback"))
     /\ UNCHANGED channel_
  \/ /\ state_ # "kDisconnected"
     /\ channel_' = IF IsWriting(channel_) THEN channel_ ELSE EnableWriting(channel_)
     /\ queue' = q

\* What user code on the loop's thread does in a callback, the queue being q.
UserCode(q) ==
  /\ Copies
  /\ \/ queue' = q /\ UNCHANGED <<state_, channel_>>
     \/ state_ = "kConnected" /\ SendInLoop(q) /\ UNCHANGED state_
     \/ /\ state_ = "kConnected"
        /\ state_' = "kDisconnecting"
        /\ queue' = q
        /\ UNCHANGED channel_

\* Mutant of HandleClose: the server is not told.
HandleCloseNotTold ==
  /\ state_' = "kDisconnected"
  /\ channel_' = DisableAll(channel_)
  /\ Copies
  /\ UNCHANGED base

HandleClose ==
  /\ state_' = "kDisconnected"
  /\ channel_' = DisableAll(channel_)
  /\ Copies
  /\ base' = base + 1

--------------------------------------------------------------------------
(* The connection's loop.                                                   *)

Poll ==
  /\ pc = "poll"
  /\ \E conditions \in SUBSET {"in", "out", "hup"} :
       reported' = Reported(channel_, conditions)
  /\ reported' # {} \/ queue # <<>> \/ server = "quit"
  /\ pc' = "event"
  /\ UNCHANGED <<queue, batch, held, connVars, serverVars, user>>

\* handlerEvent: no handler is called when tie_ has expired.
HandlerEvent ==
  /\ pc = "event"
  /\ reported # {}
  /\ IF Alive
     THEN pc' = "handling" /\ UNCHANGED reported
     ELSE reported' = {} /\ UNCHANGED pc
  /\ UNCHANGED <<queue, batch, held, connVars, serverVars, user>>

Handles(e) ==
  /\ pc = "handling"
  /\ e \in reported
  /\ reported' = reported \ {e}
  /\ UNCHANGED <<pc, batch, held, destroyed, connections_, baseHeld, server>>

OnClose ==
  /\ Handles("hup")
  /\ IF "in" \in reported THEN UNCHANGED <<state_, channel_, base, user>> ELSE HandleClose
  /\ UNCHANGED queue

OnRead ==
  /\ Handles("in")
  /\ "hup" \notin reported
  /\ \/ UserCode(queue) /\ UNCHANGED base
     \/ HandleClose /\ UNCHANGED queue

OnWrite ==
  /\ Handles("out")
  /\ reported = {"out"}
  /\ \/ UNCHANGED <<channel_, queue>>
     \/ /\ IsWriting(channel_)
        /\ channel_' = DisableWriting(channel_)
        /\ Queued("callback")
  /\ UNCHANGED <<state_, base, user>>

\* The guard is released.
HandlersDone ==
  /\ pc = "handling"
  /\ reported = {}
  /\ pc' = "event"
  /\ UNCHANGED <<reported, queue, batch, held, connVars, serverVars, user>>

DoPendingFunctors ==
  /\ pc = "event"
  /\ reported = {}
  /\ batch' = Len(queue)
  /\ destroyed' = IF \E i \in DOMAIN queue : queue[i].op = "connectDestroyed"
                  THEN "taken" ELSE destroyed
  /\ pc' = "functors"
  /\ UNCHANGED <<reported, queue, held, state_, channel_, serverVars, user>>

\* Mutant of Runs: a closure is destroyed as soon as it was run.
RunsAndFrees(op) ==
  /\ pc = "functors"
  /\ batch > 0
  /\ Head(queue).op = op
  /\ batch' = batch - 1
  /\ UNCHANGED <<pc, reported, held, serverVars>>

\* The next closure is op; it stays in the vector until all of them are run.
Runs(op) ==
  /\ pc = "functors"
  /\ batch > 0
  /\ Head(queue).op = op
  /\ batch' = batch - 1
  /\ held' = (held \/ Keeps(Head(queue)))
  /\ UNCHANGED <<pc, reported, serverVars>>

ConnectEstablished ==
  /\ Runs("connectEstablished")
  /\ queue' = Tail(queue)
  /\ state_' = "kConnected"
  /\ channel_' = EnableReading(channel_)
  /\ Copies
  /\ UNCHANGED destroyed

RunCallback ==
  /\ Runs("callback")
  /\ UserCode(Tail(queue))
  /\ UNCHANGED destroyed

\* On a connection that is gone this is undefined; RawClosureIsSafe says when it is not.
RunSendInLoop ==
  /\ Runs("sendInLoop")
  /\ IF Alive THEN SendInLoop(Tail(queue)) ELSE queue' = Tail(queue) /\ UNCHANGED channel_
  /\ UNCHANGED <<state_, destroyed, user>>

\* Mutant of ConnectDestroyed: the channel is not removed.
ConnectDestroyedNoRemove ==
  /\ Runs("connectDestroyed")
  /\ queue' = Tail(queue)
  /\ destroyed' = "run"
  /\ state_' = IF state_ = "kConnected" THEN "kDisconnected" ELSE state_
  /\ IF state_ = "kConnected" THEN Copies ELSE UNCHANGED user
  /\ UNCHANGED channel_

ConnectDestroyed ==
  /\ Runs("connectDestroyed")
  /\ queue' = Tail(queue)
  /\ destroyed' = "run"
  /\ IF state_ = "kConnected"
     THEN /\ state_' = "kDisconnected"
          /\ channel_' = Remove(DisableAll(channel_))
          /\ Copies
     ELSE /\ channel_' = Remove(channel_)
          /\ UNCHANGED <<state_, user>>

\* Mutant of PendingFunctorsDone: the vector is not cleared.
PendingFunctorsDoneKeeps ==
  /\ pc = "functors"
  /\ batch = 0
  /\ pc' = IF server = "quit" THEN "exited" ELSE "poll"
  /\ UNCHANGED <<reported, queue, batch, held, connVars, serverVars, user>>

PendingFunctorsDone ==
  /\ pc = "functors"
  /\ batch = 0
  /\ held' = FALSE
  /\ pc' = IF server = "quit" THEN "exited" ELSE "poll"
  /\ UNCHANGED <<reported, queue, batch, connVars, serverVars, user>>

--------------------------------------------------------------------------
(* The other threads: users, the base loop, the server's destructor.         *)

\* A user's own copy, or its call of send: the test of state_, then the closure.
UserStep(u, from, to) ==
  /\ user[u] = from
  /\ user' = [user EXCEPT ![u] = to]
  /\ UNCHANGED <<pc, reported, batch, held, connVars, serverVars>>

SendTest(u) ==
  /\ state_ = "kConnected" /\ server = "up"
  /\ UserStep(u, "holds", "send")
  /\ UNCHANGED queue
SendQueue(u) == Len(queue) < MaxQueue /\ UserStep(u, "send", "holds") /\ Queued("sendInLoop")
Drop(u) == UserStep(u, "holds", "none") /\ UNCHANGED queue

RemoveConnectionInLoop ==
  /\ server = "up"
  /\ base > 0
  /\ base' = base - 1
  /\ baseHeld' = TRUE
  /\ connections_' = FALSE
  /\ Queued("connectDestroyed")
  /\ UNCHANGED <<pc, reported, batch, held, connVars, server, user>>

BaseFunctorsDone ==
  /\ baseHeld
  /\ baseHeld' = FALSE
  /\ UNCHANGED <<pc, reported, queue, batch, held, connVars, connections_, base, server, user>>

\* ~TcpServer's body, the base loop having ended.
ServerMayGo ==
  /\ server = "up"
  /\ ~baseHeld
  /\ \A u \in Users : user[u] # "send"
  /\ \A i \in DOMAIN queue : Keeps(queue[i])

\* Mutant of ServerDestroyed: the map is cleared and nobody told.
ServerDestroyedNotTold ==
  /\ ServerMayGo
  /\ server' = "gone"
  /\ connections_' = FALSE
  /\ UNCHANGED <<pc, reported, queue, batch, held, connVars, base, baseHeld, user>>

ServerDestroyed ==
  /\ ServerMayGo
  /\ server' = "gone"
  /\ connections_' = FALSE
  /\ IF connections_ THEN Queued("connectDestroyed") ELSE UNCHANGED queue
  /\ UNCHANGED <<pc, reported, batch, held, connVars, base, baseHeld, user>>

\* ~EventLoopThread calls quit() of the connection's loop.  The quit is not lost here: one
\* that loop() resets changes nothing, like one that never comes, as Fairness allows.
Quit ==
  /\ server = "gone"
  /\ server' = "quit"
  /\ UNCHANGED <<pc, reported, queue, batch, held, connVars, connections_, base, baseHeld, user>>

--------------------------------------------------------------------------

LoopStep ==
  \/ HandlerEvent \/ OnClose \/ OnRead \/ OnWrite \/ HandlersDone
  \/ DoPendingFunctors \/ PendingFunctorsDone
  \/ ConnectEstablished \/ RunCallback \/ RunSendInLoop \/ ConnectDestroyed

BaseStep == RemoveConnectionInLoop \/ BaseFunctorsDone \/ Quit

Next ==
  \/ Poll \/ LoopStep \/ BaseStep \/ ServerDestroyed
  \/ \E u \in Users : SendTest(u) \/ SendQueue(u) \/ Drop(u)

\* The two loops' threads are scheduled, epoll_wait returns for a wakeup, and no user keeps
\* a copy for ever.  The quit of the connection's loop may never come or be lost.
Fairness ==
  /\ WF_vars(LoopStep)
  /\ WF_vars((queue # <<>> \/ server = "quit") /\ Poll)
  /\ WF_vars(RemoveConnectionInLoop \/ BaseFunctorsDone)
  /\ \A u \in Users : WF_vars(SendQueue(u)) /\ SF_vars(Drop(u))

Spec == Init /\ [][Next]_vars

FairSpec == Spec /\ Fairness

--------------------------------------------------------------------------
(* Properties.                                                              *)

\* The poller and the list of active channels never point to a channel that was freed
\* with its connection: what tie_ guards against (Channel.cpp:41-46) does not happen.
PolledIsAlive == pc # "exited" /\ (channel_.epoll # {} \/ reported # {}) => Alive

\* A send of another thread whose closure was queued before the loop took
\* connectDestroyed out of the queue finds the connection there, although nothing but
\* that keeps it: the vector of doPendingFunctors is freed as a whole.
RawClosureIsSafe ==
  pc = "functors" /\ batch > 0 /\ Head(queue).op = "sendInLoop" /\ ~Head(queue).late => Alive

\* A connection is freed after connectDestroyed took its channel out of the poller, or
\* when its loop is over: whoever lets it go last.
FreedAfterDestroyed == [][Alive /\ ~Alive' => destroyed' = "run" \/ pc' = "exited"]_vars

\* What the user was told, which state_ determines, and the server's side of it.
Callbacks ==
  IF state_ = "kConnecting" THEN <<>>
  ELSE IF state_ = "kDisconnected" THEN <<"up", "down">> ELSE <<"up">>

Place == IF ~connections_ THEN "left" ELSE IF base > 0 THEN "told" ELSE "has"

Contract == INSTANCE Connection WITH
  state <- state_, callbacks <- Callbacks, destroyed <- destroyed = "run", place <- Place

\* With holders on every thread, closures of two loops and a server that may go away at
\* any time, the connection still goes through the life Connection promises: it closes
\* once, its server lets go of it once, and connectDestroyed is run once, only then.
ImplementsConnection == Contract!Spec

\* Once out of the map the connection is freed, and its descriptor closed, unless the
\* base loop ended with a removeConnection in its queue: the holders do not keep each other.
FreedInTheEnd == ~connections_ ~> ~Alive \/ (server # "up" /\ base > 0)

===========================================================================
