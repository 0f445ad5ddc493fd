------------------------- MODULE TcpServerProofs -------------------------
(***************************************************************************)
(* Proofs about TcpServer, for any number of threads, connections and       *)
(* descriptors.                                                             *)
(*                                                                          *)
(* The invariant is built in layers, each one proved with the help of those *)
(* below it: where the loops and the destructor are (Phases), what is queued *)
(* on which loop (Queues), in which order a connection is told (Told), and  *)
(* who holds it (Held).  On top of them each connection lives as Connection *)
(* does.                                                                    *)
(***************************************************************************)
EXTENDS TcpServer, ChannelProofs, SequenceTheorems

--------------------------------------------------------------------------
(* The pool, the acceptor, and where each loop is while the server lives.    *)

Pool ==
  /\ numThreads_ \in 0..MaxThreads
  /\ loops_ \in Seq(1..MaxThreads)
  /\ Len(loops_) \in 0..MaxThreads
  /\ \A i \in 1..Len(loops_) : loops_[i] = i
  /\ next_ = 0
  /\ given \in Seq(Loops)
  /\ Len(given) \in 0..MaxConns
  /\ joining \in 0..Len(loops_)
  /\ connections_ \subseteq 1..Len(given)
  /\ server = "constructed" => loops_ = <<>> /\ given = <<>>

Accepting ==
  /\ acceptSocket_ \in {"bound", "listening", "closed"}
  /\ InStep(acceptChannel_)
  /\ backlog \in Nat /\ dropped \in Nat

\* The base loop runs only while the server is started.  The threads of the pool are
\* told to quit only by the destructor, once it has no connection left, and each of them
\* has left its loop before the destructor returns.
Phases ==
  /\ phase \in [AllLoops -> {"init", "events", "functors", "exited"}]
  /\ quit_ \in [AllLoops -> BOOLEAN]
  /\ server \in {"constructed", "started", "destroying", "gone"}
  /\ phase[baseLoop_] \in {"events", "functors"} => server = "started"
  /\ \A l \in AllLoops : phase[l] = "exited" => quit_[l]
  /\ \A l \in AllLoops \ {baseLoop_} :
       quit_[l] => server \in {"destroying", "gone"} /\ connections_ = {}
  /\ server = "gone" => /\ connections_ = {}
                        /\ acceptChannel_.epoll = {}
                        /\ \A i \in 1..Len(loops_) : phase[i] = "exited"

LifeInv == Pool /\ Accepting /\ Phases

\* Each step is one of these.
LEMMA ServerSteps ==
  ASSUME [ServerNext]_serverVars
  PROVE  \/ \E n \in 0..MaxThreads : SetThreads(n)
         \/ Start \/ BaseQuit \/ (\E m \in Loops : EnterLoop(m))
         \/ Client \/ NewConnection \/ NoConnection
         \/ \E c \in 1..Len(given) : HandleClose(c)
         \/ \E c \in 1..Len(given) : Shutdown(c)
         \/ \E l \in Loops : DoPendingFunctors(l)
         \/ \E l \in Loops : RunFunctor(l)
         \/ \E l \in Loops : PendingFunctorsDone(l)
         \/ DestroyServer
         \/ \E c \in connections_ : DestroyConnection(c)
         \/ \E i \in 1..Len(loops_) : QuitThread(i)
         \/ Destroyed
         \/ UNCHANGED serverVars
BY DEF ServerNext, LoopStep, DestructorStep

\* What the pool gives: the base loop, or else its first thread.
LEMMA LoopsAre ==
  ASSUME Pool
  PROVE  /\ Loops \subseteq AllLoops
         /\ baseLoop_ \in Loops
         /\ NextLoop \in Loops /\ NextAfter = 0
         /\ NextLoop = IF loops_ = <<>> THEN baseLoop_ ELSE 1
         /\ 0..MaxThreads = AllLoops
<1>1. MaxThreads \in Nat
  BY PoolAssumption
<1>2. Loops \subseteq AllLoops /\ baseLoop_ \in Loops /\ 0..MaxThreads = AllLoops
  BY <1>1 DEF Pool, Loops, AllLoops, baseLoop_
<1>3. loops_ # <<>> => Len(loops_) >= 1
  BY DEF Pool
<1>4. NextAfter = 0
  BY <1>3 DEF Pool, NextAfter
<1>5. NextLoop = IF loops_ = <<>> THEN baseLoop_ ELSE 1
  BY <1>3 DEF Pool, NextLoop
<1> QED
  BY <1>2, <1>3, <1>4, <1>5 DEF Pool, Loops

\* Every step keeps Pool.
LEMMA PoolStep ==
  ASSUME Pool, Phases, [ServerNext]_serverVars
  PROVE  Pool'
<1> USE PoolAssumption
<1>1. ASSUME NEW n \in 0..MaxThreads, SetThreads(n) PROVE Pool'
  BY <1>1 DEF Pool, SetThreads, SetThreadNum, Loops
<1>2. CASE Start
  <2>1. loops_ = <<>> /\ given = <<>> /\ server' = "started"
    BY <1>2 DEF Start, Pool
  <2>2. loops_' = [i \in 1..numThreads_ |-> i]
    BY <1>2, <2>1 DEF Start, PoolStart, Pool
  <2>3. UNCHANGED <<numThreads_, next_, given, joining, connections_>>
    BY <1>2 DEF Start, PoolStart
  <2>4. loops_' \in Seq(1..MaxThreads) /\ Len(loops_') = numThreads_
    BY <2>2 DEF Pool
  <2>5. given' = <<>> /\ Len(given') = 0 /\ given' \in Seq(Loops')
    BY <2>1, <2>3
  <2>6. \A i \in 1..Len(loops_') : loops_'[i] = i
    BY <2>2, <2>4 DEF Pool
  <2>7. connections_' \subseteq 1..Len(given') /\ Len(given') \in 0..MaxConns
    BY <2>1, <2>3, <2>5 DEF Pool
  <2>8. joining' \in 0..Len(loops_')
    BY <2>1, <2>3, <2>4 DEF Pool
  <2> QED
    BY <2>1, <2>3, <2>4, <2>5, <2>6, <2>7, <2>8 DEF Pool
<1>3. CASE NewConnection
  <2>1. server = "started" /\ server' = server
    BY <1>3 DEF NewConnection, Phases
  <2>2. loops_' = loops_ /\ numThreads_' = numThreads_ /\ next_' = 0 /\ joining' = joining
        /\ given' = Append(given, NextLoop) /\ Len(given) < MaxConns
    BY <1>3, LoopsAre DEF NewConnection, GetNextLoop
  <2>3. connections_' = connections_ \cup {Len(given) + 1}
    BY <1>3 DEF NewConnection
  <2>4. Loops' = Loops
    BY <2>2 DEF Loops
  <2>5. given' \in Seq(Loops) /\ Len(given') = Len(given) + 1
    BY <2>2, LoopsAre DEF Pool
  <2>6. connections_' \subseteq 1..Len(given') /\ Len(given') \in 0..MaxConns
    <3> DEFINE n == Len(given)
    <3>1. /\ n \in 0..MaxConns /\ n < MaxConns /\ Len(given') = n + 1
          /\ connections_ \subseteq 1..n /\ connections_' = connections_ \cup {n + 1}
      BY <2>2, <2>3, <2>5 DEF Pool
    <3> HIDE DEF n
    <3> QED
      BY <3>1
  <2> QED
    BY <2>1, <2>2, <2>4, <2>5, <2>6 DEF Pool
<1>4. CASE DestroyServer
  BY <1>4 DEF Pool, DestroyServer, poolVars, Loops
<1>5. CASE Destroyed
  BY <1>5 DEF Pool, Destroyed, poolVars, Loops
<1>6. ASSUME NEW c \in connections_, DestroyConnection(c) PROVE Pool'
  BY <1>6 DEF Pool, DestroyConnection, poolVars, Loops
<1>7. ASSUME NEW c \in 1..Len(given), HandleClose(c) PROVE Pool'
  BY <1>7 DEF Pool, HandleClose, RemoveConnection, RemoveConnectionInLoop, poolVars, Loops
<1>8. ASSUME NEW l \in Loops, RunFunctor(l) PROVE Pool'
  BY <1>8 DEF Pool, RunFunctor, RemoveConnectionInLoop, poolVars, Loops
<1>9. ASSUME UNCHANGED <<poolVars, server, connections_>> PROVE Pool'
  BY <1>9 DEF Pool, poolVars, Loops
<1>10. ASSUME \/ BaseQuit \/ (\E m \in Loops : EnterLoop(m)) \/ Client \/ NoConnection
              \/ \E c \in 1..Len(given) : Shutdown(c)
              \/ \E l \in Loops : DoPendingFunctors(l) \/ PendingFunctorsDone(l)
              \/ UNCHANGED serverVars
       PROVE  UNCHANGED <<poolVars, server, connections_>>
  BY <1>10 DEF EnterLoop, BaseQuit, Client, NoConnection, Shutdown, DoPendingFunctors,
               PendingFunctorsDone, serverVars
<1>11. ASSUME NEW i \in 1..Len(loops_), QuitThread(i) PROVE Pool'
  <2>1. /\ joining' = i
        /\ UNCHANGED <<numThreads_, loops_, next_, given, server, connections_>>
    BY <1>11 DEF QuitThread, PoolJoins
  <2> QED
    BY <1>11, <2>1 DEF Pool, Loops
<1> QED
  BY <1>1, <1>2, <1>3, <1>4, <1>5, <1>6, <1>7, <1>8, <1>9, <1>10, <1>11, ServerSteps

\* Every step keeps Accepting.
LEMMA AcceptingStep ==
  ASSUME Accepting, [ServerNext]_serverVars
  PROVE  Accepting'
<1>1. CASE Start
  BY <1>1, EnablesInStep DEF Start, Listen, SocketListen, Accepting
<1>2. CASE Client
  BY <1>2 DEF Client, ClientConnects, Accepting
<1>3. ASSUME AcceptReady PROVE backlog > 0
  BY <1>3 DEF AcceptReady, Reported, Accepting
<1>4. CASE NewConnection
  BY <1>3, <1>4 DEF NewConnection, AcceptTakes, Accepting
<1>5. CASE NoConnection
  BY <1>3, <1>5 DEF NoConnection, AcceptDrops, AcceptFails, Accepting, acceptorVars
<1>6. CASE Destroyed
  BY <1>6, DisablesInStep, RemoveInStep
  DEF Destroyed, AcceptorDestroyed, SocketClosed, Accepting
<1>7. ASSUME UNCHANGED acceptorVars PROVE Accepting'
  BY <1>7 DEF Accepting, acceptorVars
<1>8. ASSUME \/ \E n \in 0..MaxThreads : SetThreads(n)
             \/ BaseQuit \/ (\E m \in Loops : EnterLoop(m)) \/ DestroyServer
             \/ \E c \in 1..Len(given) : HandleClose(c) \/ Shutdown(c)
             \/ \E l \in Loops : DoPendingFunctors(l) \/ RunFunctor(l) \/ PendingFunctorsDone(l)
             \/ \E c \in connections_ : DestroyConnection(c)
             \/ \E i \in 1..Len(loops_) : QuitThread(i)
             \/ UNCHANGED serverVars
      PROVE  UNCHANGED acceptorVars
  BY <1>8 DEF SetThreads, EnterLoop, BaseQuit, DestroyServer, HandleClose, Shutdown,
              DoPendingFunctors, RunFunctor, PendingFunctorsDone, DestroyConnection,
              QuitThread, PoolJoins, serverVars
<1> QED
  BY <1>1, <1>2, <1>4, <1>5, <1>6, <1>7, <1>8, ServerSteps

\* No thread of the pool quits before the destructor tells it to, so none of them has left
\* its loop while a connection is there or the server is started.
LEMMA PhasesStep ==
  ASSUME Pool, Accepting, Phases, [ServerNext]_serverVars
  PROVE  Phases'
<1> USE DEF Phases
<1>0. baseLoop_ \in AllLoops /\ AllLoops = 0..MaxThreads /\ Loops \subseteq AllLoops
  BY LoopsAre
<1>1. CASE Start
  <2>1. /\ server = "constructed" /\ server' = "started"
        /\ UNCHANGED <<phase, quit_, connections_>>
    BY <1>1 DEF Start, loopVars
  <2> QED
    BY <2>1
<1>2. ASSUME NEW l \in Loops, EnterLoop(l) PROVE Phases'
  <2>1. /\ l = baseLoop_ => server = "started"
        /\ phase[l] = "init" /\ phase' = [phase EXCEPT ![l] = "functors"]
        /\ quit_' = [quit_ EXCEPT ![l] = FALSE]
        /\ UNCHANGED <<server, connections_, loops_, acceptChannel_>>
    BY <1>2 DEF EnterLoop, poolVars, acceptorVars
  <2>2. server = "gone" => \A i \in 1..Len(loops_) : i # l
    BY <2>1
  <2> QED
    BY <1>0, <2>1, <2>2 DEF Loops
<1>3. CASE BaseQuit
  <2>1. /\ quit_' = [quit_ EXCEPT ![baseLoop_] = TRUE]
        /\ UNCHANGED <<phase, server, connections_, loops_, acceptChannel_>>
    BY <1>3 DEF BaseQuit, poolVars, acceptorVars
  <2> QED
    BY <1>0, <2>1
<1>4. CASE NewConnection
  <2>1. /\ server = "started" /\ UNCHANGED <<phase, quit_, server>>
    BY <1>4 DEF NewConnection
  <2> QED
    BY <2>1
<1>5. ASSUME NEW l \in Loops, DoPendingFunctors(l) PROVE Phases'
  <2>1. /\ phase[l] = "events" /\ phase' = [phase EXCEPT ![l] = "functors"]
        /\ UNCHANGED <<quit_, server, connections_, loops_, acceptChannel_>>
    BY <1>5 DEF DoPendingFunctors, poolVars, acceptorVars
  <2>2. server = "gone" => \A i \in 1..Len(loops_) : i # l
    BY <2>1
  <2> QED
    BY <1>0, <2>1, <2>2 DEF Loops
<1>6. ASSUME NEW l \in Loops, PendingFunctorsDone(l) PROVE Phases'
  <2>1. /\ phase[l] = "functors"
        /\ phase' = [phase EXCEPT ![l] = IF quit_[l] THEN "exited" ELSE "events"]
        /\ UNCHANGED <<quit_, server, connections_, loops_, acceptChannel_>>
    BY <1>6 DEF PendingFunctorsDone, poolVars, acceptorVars
  <2>2. server = "gone" => \A i \in 1..Len(loops_) : i # l
    BY <2>1
  <2> QED
    BY <1>0, <2>1, <2>2 DEF Loops
<1>7. CASE DestroyServer
  BY <1>7 DEF DestroyServer, loopVars
<1>8. ASSUME NEW c \in connections_, DestroyConnection(c) PROVE Phases'
  <2>1. /\ server = "destroying" /\ connections_ # {}
        /\ UNCHANGED <<phase, quit_, server>>
    BY <1>8 DEF DestroyConnection
  <2> QED
    BY <2>1
<1>9. ASSUME NEW i \in 1..Len(loops_), QuitThread(i) PROVE Phases'
  <2>1. /\ server = "destroying" /\ connections_ = {}
        /\ quit_' = [quit_ EXCEPT ![i] = TRUE]
        /\ UNCHANGED <<phase, server, connections_>>
    BY <1>9 DEF QuitThread
  <2> QED
    BY <1>0, <2>1
<1>10. CASE Destroyed
  <2>1. /\ server = "destroying" /\ connections_ = {} /\ server' = "gone"
        /\ \A i \in 1..Len(loops_) : phase[i] = "exited"
        /\ acceptChannel_' = Remove(DisableAll(acceptChannel_))
        /\ UNCHANGED <<phase, quit_, loops_, connections_>>
    BY <1>10 DEF Destroyed, AcceptorDestroyed, poolVars, loopVars
  <2>2. acceptChannel_'.epoll = {}
    BY <2>1, DisablesInStep, RemoveInStep DEF Accepting
  <2> QED
    BY <2>1, <2>2
<1>11. ASSUME NEW c \in 1..Len(given), HandleClose(c) PROVE Phases'
  <2>1. /\ connections_' \subseteq connections_
        /\ UNCHANGED <<phase, quit_, server, loops_, acceptChannel_>>
    BY <1>11 DEF HandleClose, RemoveConnection, RemoveConnectionInLoop, poolVars, acceptorVars
  <2> QED
    BY <2>1
<1>12. ASSUME NEW l \in Loops, RunFunctor(l) PROVE Phases'
  <2>1. /\ connections_' \subseteq connections_
        /\ UNCHANGED <<phase, quit_, server, loops_, acceptChannel_>>
    BY <1>12 DEF RunFunctor, RemoveConnectionInLoop, poolVars, acceptorVars
  <2> QED
    BY <2>1
<1>13. ASSUME NEW n \in 0..MaxThreads, SetThreads(n) PROVE Phases'
  BY <1>13 DEF SetThreads, SetThreadNum, loopVars, acceptorVars
<1>14. CASE Client \/ NoConnection
  <2>1. UNCHANGED <<acceptChannel_, loops_, phase, quit_, server, connections_>>
    BY <1>14 DEF Client, ClientConnects, NoConnection, AcceptDrops, AcceptFails, acceptorVars,
                 poolVars, loopVars
  <2> QED
    BY <2>1
<1>15. CASE (\E c \in 1..Len(given) : Shutdown(c)) \/ UNCHANGED serverVars
  <2>1. UNCHANGED <<acceptChannel_, loops_, phase, quit_, server, connections_>>
    BY <1>15 DEF Shutdown, serverVars, acceptorVars, poolVars, loopVars
  <2> QED
    BY <2>1
<1> QED
  BY <1>1, <1>2, <1>3, <1>4, <1>5, <1>6, <1>7, <1>8, <1>9, <1>10, <1>11, <1>12, <1>13, <1>14,
     <1>15, ServerSteps

\* The pool, the acceptor and the loops' phases keep in step in every behaviour of the
\* server: LifeInv, the first layer of the inductive invariant.
THEOREM LifeInductive == ServerSpec => []LifeInv
<1>1. ASSUME ServerInit PROVE LifeInv
  <2> USE <1>1, PoolAssumption DEF ServerInit
  <2>1. Pool
    BY DEF PoolInit, Pool
  <2>2. Accepting
    BY NewChannelInStep DEF AcceptorInit, SocketBound, Accepting
  <2>3. Phases
    BY DEF Phases, AllLoops
  <2> QED
    BY <2>1, <2>2, <2>3 DEF LifeInv
<1>2. ASSUME LifeInv, [ServerNext]_serverVars PROVE LifeInv'
  BY <1>2, PoolStep, AcceptingStep, PhasesStep DEF LifeInv
<1> QED
  BY <1>1, <1>2, PTL DEF ServerSpec

--------------------------------------------------------------------------
(* What the loops have queued.                                               *)

\* The queues q when n connections have been given a loop: a closure is about one of
\* these, and only the base loop is asked to remove one from the map.
Closures(q, n) ==
  /\ q \in [AllLoops -> Seq(Functors)]
  /\ \A l \in AllLoops : \A i \in 1..Len(q[l]) :
       /\ q[l][i].conn \in 1..n
       /\ q[l][i].op = "removeConnection" => l = baseLoop_

Popped(q, l) == [q EXCEPT ![l] = Tail(@)]

\* A closure is what it was made of.
LEMMA FunctorIs ==
  ASSUME NEW op \in {"connectEstablished", "removeConnection", "connectDestroyed"},
         NEW c \in Conns
  PROVE  /\ Functor(op, c) \in Functors
         /\ Functor(op, c).op = op /\ Functor(op, c).conn = c
BY DEF Functor, Functors

\* The queues with one closure more.
LEMMA QueuedIs ==
  ASSUME NEW q \in [AllLoops -> Seq(Functors)], NEW l \in AllLoops, NEW f \in Functors,
         NEW r, r = Queued(q, l, f)
  PROVE  /\ r \in [AllLoops -> Seq(Functors)]
         /\ Len(r[l]) = Len(q[l]) + 1
         /\ \A i \in 1..Len(q[l]) : r[l][i] = q[l][i]
         /\ r[l][Len(q[l]) + 1] = f
         /\ \A k \in AllLoops : k # l => r[k] = q[k]
BY DEF Queued

\* The queues without the head of one.
LEMMA PoppedIs ==
  ASSUME NEW q \in [AllLoops -> Seq(Functors)], NEW l \in AllLoops, q[l] # <<>>,
         NEW r, r = Popped(q, l)
  PROVE  /\ r \in [AllLoops -> Seq(Functors)]
         /\ Len(q[l]) \in Nat \ {0}
         /\ Len(r[l]) = Len(q[l]) - 1
         /\ \A i \in 1..Len(r[l]) : i + 1 \in 1..Len(q[l]) /\ r[l][i] = q[l][i + 1]
         /\ Head(q[l]) = q[l][1]
         /\ \A k \in AllLoops : k # l => r[k] = q[k]
BY DEF Popped

\* A closure more keeps the types of the queues.
LEMMA QueuedClosures ==
  ASSUME NEW n \in 0..MaxConns, NEW q, Closures(q, n), NEW l \in AllLoops,
         NEW op \in {"connectEstablished", "removeConnection", "connectDestroyed"},
         NEW c \in 1..n, op = "removeConnection" => l = baseLoop_
  PROVE  /\ Closures(Queued(q, l, Functor(op, c)), n)
         /\ \A k \in AllLoops : Len(q[k]) <= Len(Queued(q, l, Functor(op, c))[k])
<1> DEFINE f == Functor(op, c)
           r == Queued(q, l, f)
<1>0. c \in Conns /\ q \in [AllLoops -> Seq(Functors)]
  BY PoolAssumption DEF Conns, Closures
<1>1. f \in Functors /\ f.op = op /\ f.conn = c
  BY <1>0, FunctorIs
<1> HIDE DEF f
<1>2. /\ r \in [AllLoops -> Seq(Functors)]
      /\ Len(r[l]) = Len(q[l]) + 1
      /\ \A i \in 1..Len(q[l]) : r[l][i] = q[l][i]
      /\ r[l][Len(q[l]) + 1] = f
      /\ \A k \in AllLoops : k # l => r[k] = q[k]
  <2>1. r[l] = Append(q[l], f) /\ q[l] \in Seq(Functors)
    BY <1>0 DEF Queued
  <2>2. r \in [AllLoops -> Seq(Functors)]
    BY <1>0, <1>1 DEF Queued
  <2>3. \A k \in AllLoops : k # l => r[k] = q[k]
    BY <1>0 DEF Queued
  <2> HIDE DEF r
  <2>4. /\ Len(r[l]) = Len(q[l]) + 1
        /\ \A i \in 1..Len(q[l]) : r[l][i] = q[l][i]
        /\ r[l][Len(q[l]) + 1] = f
    BY <1>1, <2>1
  <2> QED
    BY <2>2, <2>3, <2>4
<1> HIDE DEF r
<1>3. ASSUME NEW k \in AllLoops, NEW i \in 1..Len(r[k])
      PROVE  r[k][i].conn \in 1..n /\ (r[k][i].op = "removeConnection" => k = baseLoop_)
  <2>1. CASE k = l /\ i = Len(q[l]) + 1
    BY <1>1, <1>2, <2>1
  <2>2. CASE k = l /\ i # Len(q[l]) + 1
    <3>1. i \in 1..Len(q[l])
      BY <1>0, <1>2, <1>3, <2>2
    <3> QED
      BY <1>2, <2>2, <3>1 DEF Closures
  <2>3. CASE k # l
    BY <1>2, <1>3, <2>3 DEF Closures
  <2> QED
    BY <2>1, <2>2, <2>3
<1>4. \A k \in AllLoops : Len(q[k]) <= Len(r[k])
  BY <1>0, <1>2
<1> QED
  BY <1>2, <1>3, <1>4 DEF Closures, r, f

\* A closure less keeps the types of the queues.
LEMMA PoppedClosures ==
  ASSUME NEW n, NEW q, Closures(q, n), NEW l \in AllLoops, q[l] # <<>>
  PROVE  Closures(Popped(q, l), n)
<1> DEFINE r == Popped(q, l)
<1>0. q \in [AllLoops -> Seq(Functors)] /\ r = Popped(q, l)
  BY DEF Closures
<1> HIDE DEF r
<1>1. /\ r \in [AllLoops -> Seq(Functors)]
      /\ \A i \in 1..Len(r[l]) : i + 1 \in 1..Len(q[l]) /\ r[l][i] = q[l][i + 1]
      /\ \A k \in AllLoops : k # l => r[k] = q[k]
  BY <1>0, PoppedIs
<1>2. ASSUME NEW k \in AllLoops, NEW i \in 1..Len(r[k])
      PROVE  r[k][i].conn \in 1..n /\ (r[k][i].op = "removeConnection" => k = baseLoop_)
  <2>1. CASE k = l
    <3>1. i + 1 \in 1..Len(q[l]) /\ r[l][i] = q[l][i + 1]
      BY <1>1, <2>1
    <3> QED
      BY <2>1, <3>1 DEF Closures
  <2>2. CASE k # l
    BY <1>1, <2>2 DEF Closures
  <2> QED
    BY <2>1, <2>2
<1> QED
  BY <1>1, <1>2 DEF Closures, r

\* One connection more keeps the types of the queues.
LEMMA MoreClosures ==
  ASSUME NEW n \in Nat, NEW q, Closures(q, n)
  PROVE  Closures(q, n + 1)
<1>1. 1..n \subseteq 1..(n + 1)
  OBVIOUS
<1> QED
  BY <1>1 DEF Closures

Queues ==
  /\ Closures(queue, Len(given))
  /\ batch \in [AllLoops -> Nat]
  /\ \A l \in AllLoops : batch[l] <= Len(queue[l])
  /\ held \in [AllLoops -> SUBSET Conns]
  /\ state_ \in [Conns -> {"kConnecting", "kConnected", "kDisconnecting", "kDisconnected"}]
  /\ destroyed \subseteq Conns

\* Every step keeps Queues.
LEMMA QueuesStep ==
  ASSUME Pool, Phases, Queues, [ServerNext]_serverVars
  PROVE  Queues'
<1> USE PoolAssumption DEF Queues
<1> DEFINE n == Len(given)
<1>0. /\ baseLoop_ \in AllLoops /\ Loops \subseteq AllLoops /\ NextLoop \in AllLoops
      /\ n \in 0..MaxConns /\ \A c \in 1..n : c \in Conns /\ given[c] \in AllLoops
  <2>1. \A c \in 1..n : given[c] \in Loops
    BY DEF Pool
  <2>2. n \in 0..MaxConns
    BY DEF Pool
  <2>3. \A c \in 1..n : c \in Conns
    BY <2>2 DEF Conns
  <2> QED
    BY <2>1, <2>2, <2>3, LoopsAre
<1>1. ASSUME NEW q, queue' = q, Closures(q, n), given' = given,
             \A l \in AllLoops : Len(queue[l]) <= Len(q[l]),
             UNCHANGED <<batch, held>>,
             \/ UNCHANGED <<state_, destroyed>>
             \/ \E c \in Conns, s \in {"kConnecting", "kConnected", "kDisconnecting",
                                       "kDisconnected"} :
                  state_' = [state_ EXCEPT ![c] = s] /\ destroyed' \subseteq destroyed \cup {c}
             \/ \E c \in Conns : state_' = state_ /\ destroyed' = destroyed \cup {c}
      PROVE  Queues'
  <2>1. Closures(queue', Len(given'))
    BY <1>1
  <2>2. \A l \in AllLoops : batch'[l] <= Len(queue'[l])
    <3>1. q \in [AllLoops -> Seq(Functors)] /\ queue \in [AllLoops -> Seq(Functors)]
      BY <1>1 DEF Closures
    <3> QED
      BY <1>1, <3>1
  <2>3. /\ state_' \in [Conns -> {"kConnecting", "kConnected", "kDisconnecting",
                                  "kDisconnected"}]
        /\ destroyed' \subseteq Conns
    BY <1>1
  <2> QED
    BY <1>1, <2>1, <2>2, <2>3
<1>2. CASE NewConnection
  <2>1. n < MaxConns /\ given' = Append(given, NextLoop) /\ UNCHANGED <<batch, held>>
    BY <1>2 DEF NewConnection, GetNextLoop
  <2>2. Len(given') = n + 1 /\ n + 1 \in Conns /\ n + 1 \in 0..MaxConns
    BY <1>0, <2>1 DEF Pool, Conns
  <2>3. Closures(queue, n + 1)
    BY <1>0, MoreClosures
  <2>4. CASE ConnectEstablished(n + 1) /\ UNCHANGED queue
    BY <2>1, <2>2, <2>3, <2>4 DEF ConnectEstablished
  <2>5. CASE /\ queue' = Queued(queue, NextLoop, Functor("connectEstablished", n + 1))
             /\ UNCHANGED connVars
    <3>1. n + 1 \in 1..(n + 1)
      BY <1>0
    <3>2. /\ Closures(queue', n + 1)
          /\ \A l \in AllLoops : Len(queue[l]) <= Len(queue'[l])
      BY <1>0, <2>2, <2>3, <2>5, <3>1, QueuedClosures
    <3>3. \A l \in AllLoops : batch'[l] <= Len(queue'[l])
      <4>1. queue' \in [AllLoops -> Seq(Functors)] /\ queue \in [AllLoops -> Seq(Functors)]
        BY <3>2 DEF Closures
      <4> QED
        BY <2>1, <3>2, <4>1
    <3> QED
      BY <2>1, <2>2, <2>5, <3>2, <3>3 DEF connVars
  <2> QED
    BY <1>2, <2>4, <2>5 DEF NewConnection
<1>3. ASSUME NEW c \in 1..n, RemoveConnection(c)
      PROVE  /\ Closures(queue', n)
             /\ \A l \in AllLoops : Len(queue[l]) <= Len(queue'[l])
  <2>1. Closures(queue, n)
    OBVIOUS
  <2> HIDE DEF n, Queues
  <2>2. CASE queue' = Queued(queue, baseLoop_, Functor("removeConnection", c))
    BY <1>0, <2>1, <2>2, QueuedClosures
  <2>3. CASE given[c] = baseLoop_ /\ queue' = Queued(queue, given[c], Functor("connectDestroyed", c))
    BY <1>0, <2>1, <2>3, QueuedClosures
  <2> QED
    BY <1>3, <2>2, <2>3 DEF RemoveConnection, RemoveConnectionInLoop
<1>4. ASSUME NEW c \in 1..Len(given), HandleClose(c) PROVE Queues'
  <2>1. /\ given' = given /\ UNCHANGED <<batch, held, destroyed>>
        /\ state_' = [state_ EXCEPT ![c] = "kDisconnected"]
        /\ c \in Conns /\ destroyed' \subseteq destroyed \cup {c}
    BY <1>0, <1>4 DEF HandleClose, poolVars
  <2>2. Closures(queue', n) /\ \A l \in AllLoops : Len(queue[l]) <= Len(queue'[l])
    BY <1>3, <1>4 DEF HandleClose
  <2> QED
    BY <1>1, <2>1, <2>2
<1>5. ASSUME NEW c \in connections_, DestroyConnection(c) PROVE Queues'
  <2>1. given' = given /\ UNCHANGED <<batch, held>> /\ c \in 1..n /\ c \in Conns
    BY <1>0, <1>5 DEF DestroyConnection, poolVars, Pool
  <2>2. CASE ConnectDestroyed(c) /\ UNCHANGED queue
    <3>1. \A l \in AllLoops : Len(queue[l]) <= Len(queue'[l])
      BY <2>2 DEF Closures
    <3> QED
      BY <1>1, <2>1, <2>2, <3>1 DEF ConnectDestroyed
  <2>3. CASE /\ queue' = Queued(queue, given[c], Functor("connectDestroyed", c))
             /\ UNCHANGED connVars
    <3>1. Closures(queue', n) /\ \A l \in AllLoops : Len(queue[l]) <= Len(queue'[l])
      BY <1>0, <2>1, <2>3, QueuedClosures
    <3> QED
      BY <1>1, <2>1, <2>3, <3>1 DEF connVars
  <2> QED
    BY <1>5, <2>2, <2>3 DEF DestroyConnection
<1>6. ASSUME NEW l \in Loops, RunFunctor(l) PROVE Queues'
  <2> DEFINE c == Head(queue[l]).conn
             rest == Popped(queue, l)
  <2>1. /\ l \in AllLoops /\ batch[l] > 0 /\ batch' = [batch EXCEPT ![l] = @ - 1]
        /\ given' = given /\ held' = [held EXCEPT ![l] = @ \cup {c}]
    BY <1>0, <1>6 DEF RunFunctor, Taken, poolVars
  <2>2. /\ queue \in [AllLoops -> Seq(Functors)]
        /\ queue[l] # <<>> /\ Len(queue[l]) >= 1
    BY <2>1 DEF Closures
  <2>3. /\ rest \in [AllLoops -> Seq(Functors)]
        /\ Len(rest[l]) = Len(queue[l]) - 1
        /\ Head(queue[l]) = queue[l][1]
        /\ \A k \in AllLoops : k # l => rest[k] = queue[k]
    <3>1. /\ l \in AllLoops /\ queue[l] # <<>>
          /\ queue \in [AllLoops -> Seq(Functors)] /\ rest = Popped(queue, l)
      BY <2>1, <2>2
    <3> HIDE DEF rest, c, n, Queues
    <3> QED
      BY <3>1, PoppedIs
  <2>4. Closures(rest, n)
    BY <2>1, <2>2, PoppedClosures
  <2>5. c \in 1..n /\ c \in Conns
    BY <1>0, <2>1, <2>2, <2>3, SMTT(30) DEF Closures
  <2>6. \A k \in AllLoops : batch'[k] <= Len(rest[k])
    BY <2>1, <2>2, <2>3
  <2> HIDE DEF c, rest
  <2>7. /\ Closures(queue', n)
        /\ \A k \in AllLoops : Len(rest[k]) <= Len(queue'[k])
    <3>1. CASE queue' = rest
      BY <2>3, <2>4, <3>1
    <3>2. CASE RemoveConnectionInLoop(c, rest)
      BY <1>0, <2>4, <2>5, <3>2, QueuedClosures DEF RemoveConnectionInLoop
    <3> QED
      BY <1>6, <3>1, <3>2 DEF RunFunctor, c, rest, Popped
  <2>8. \A k \in AllLoops : batch'[k] <= Len(queue'[k])
    <3>1. queue' \in [AllLoops -> Seq(Functors)]
      BY <2>7 DEF Closures
    <3>2. batch' \in [AllLoops -> Nat]
      BY <2>1
    <3> QED
      BY <2>3, <2>6, <2>7, <3>1, <3>2
  <2>9. /\ batch' \in [AllLoops -> Nat]
        /\ held' \in [AllLoops -> SUBSET Conns]
    BY <2>1, <2>5
  <2>10. /\ state_' \in [Conns -> {"kConnecting", "kConnected", "kDisconnecting",
                                  "kDisconnected"}]
         /\ destroyed' \subseteq Conns
    BY <1>6, <2>5 DEF RunFunctor, ConnectEstablished, ConnectDestroyed, connVars, c
  <2> QED
    BY <2>1, <2>7, <2>8, <2>9, <2>10
<1>7. ASSUME NEW l \in Loops, DoPendingFunctors(l) PROVE Queues'
  <2>1. /\ given' = given /\ batch' = [batch EXCEPT ![l] = Len(queue[l])]
        /\ UNCHANGED <<queue, held, state_, destroyed>>
    BY <1>7 DEF DoPendingFunctors, poolVars, connVars
  <2> QED
    BY <1>0, <2>1 DEF Closures
<1>8. ASSUME NEW l \in Loops, PendingFunctorsDone(l) PROVE Queues'
  <2>1. /\ given' = given /\ held' = [held EXCEPT ![l] = {}]
        /\ UNCHANGED <<queue, batch, state_, destroyed>>
    BY <1>8 DEF PendingFunctorsDone, poolVars, connVars
  <2> QED
    BY <1>0, <2>1
<1>9. ASSUME NEW c \in 1..Len(given), Shutdown(c) PROVE Queues'
  <2>1. /\ state_' = [state_ EXCEPT ![c] = "kDisconnecting"]
        /\ UNCHANGED <<given, queue, batch, held, destroyed>>
    BY <1>9 DEF Shutdown, poolVars, loopVars
  <2> QED
    BY <2>1
<1>10. ASSUME UNCHANGED <<given, queue, batch, held, state_, destroyed>> PROVE Queues'
  BY <1>10
<1>11. ASSUME \/ \E k \in 0..MaxThreads : SetThreads(k)
              \/ Start \/ BaseQuit \/ (\E m \in Loops : EnterLoop(m)) \/ Client \/ NoConnection
              \/ DestroyServer \/ Destroyed
              \/ \E i \in 1..Len(loops_) : QuitThread(i)
              \/ UNCHANGED serverVars
       PROVE  UNCHANGED <<given, queue, batch, held, state_, destroyed>>
  BY <1>11 DEF SetThreads, SetThreadNum, Start, PoolStart, EnterLoop, BaseQuit, Client,
               NoConnection, DestroyServer, Destroyed, QuitThread, PoolJoins, serverVars, poolVars,
               loopVars, connVars
<1> QED
  BY <1>2, <1>4, <1>5, <1>6, <1>7, <1>8, <1>9, <1>10, <1>11, ServerSteps

\* The closures in the loops' queues are about connections that were given out, and only
\* the base loop runs removeConnection: Queues, the second layer.
THEOREM QueuesInductive == ServerSpec => []Queues
<1>1. ASSUME ServerInit PROVE Queues
  BY <1>1, PoolAssumption DEF ServerInit, PoolInit, Queues, Closures
<1>2. ASSUME LifeInv, Queues, [ServerNext]_serverVars PROVE Queues'
  BY <1>2, QueuesStep DEF LifeInv
<1> QED
  BY <1>1, <1>2, LifeInductive, PTL DEF ServerSpec

--------------------------------------------------------------------------
(* What follows.                                                             *)

\* The types of TcpServer.tla; in particular getNextLoop gives loops of the pool, no loop
\* counts on more closures than it has, and epoll knows what the acceptor's channel asks.
THEOREM ServerTypeCorrect == ServerSpec => []ServerTypeOK
<1>1. ASSUME Pool, Accepting, Phases, Queues PROVE ServerTypeOK
  <2>1. /\ numThreads_ \in 0..MaxThreads
        /\ Len(loops_) \in 0..MaxThreads
        /\ given \in Seq(Loops)
        /\ joining \in 0..Len(loops_)
        /\ connections_ \subseteq 1..Len(given)
    BY <1>1 DEF Pool
  <2>2. /\ acceptSocket_ \in {"bound", "listening", "closed"}
        /\ acceptChannel_ \in ChannelType /\ InSync(acceptChannel_)
        /\ backlog \in Nat /\ dropped \in Nat
    BY <1>1 DEF Accepting, InStep
  <2>3. /\ phase \in [AllLoops -> {"init", "events", "functors", "exited"}]
        /\ quit_ \in [AllLoops -> BOOLEAN]
        /\ server \in {"constructed", "started", "destroying", "gone"}
    BY <1>1 DEF Phases
  <2>4. \A l \in AllLoops : batch[l] \in 0..Len(queue[l])
    BY <1>1 DEF Queues, Closures
  <2> QED
    BY <1>1, <2>1, <2>2, <2>3, <2>4 DEF ServerTypeOK, Queues, Closures
<1> QED
  BY <1>1, LifeInductive, QueuesInductive, PTL DEF LifeInv

\* When the destructor has returned no loop runs any more, the listening socket is out of
\* epoll, and only what the base loop left in its queue still holds a connection.
THEOREM QuietWhenGone == ServerSpec => []GoneIsQuiet
<1>1. ASSUME Pool, Phases PROVE GoneIsQuiet
  <2> SUFFICES ASSUME server = "gone"
               PROVE  /\ \A l \in Loops : /\ phase[l] \in {"init", "exited"}
                                          /\ l # baseLoop_ => quit_[l]
                      /\ acceptChannel_.epoll = {}
                      /\ \A c \in 1..Len(given) : Alive(c) => HeldBy(baseLoop_, c)
    BY DEF GoneIsQuiet
  <2>0. Loops \subseteq AllLoops /\ baseLoop_ \in AllLoops
    BY <1>1, LoopsAre
  <2>1. phase[baseLoop_] \in {"init", "exited"}
    BY <1>1, <2>0 DEF Phases
  <2>2. ASSUME NEW l \in Loops, l # baseLoop_ PROVE phase[l] = "exited" /\ quit_[l]
    BY <1>1, <2>0, <2>2 DEF Phases, Loops
  <2>3. \A c \in 1..Len(given) : Alive(c) => HeldBy(baseLoop_, c)
    BY <1>1, <2>2 DEF Alive, HeldBy, Phases
  <2> QED
    BY <1>1, <2>1, <2>2, <2>3 DEF Phases
<1> QED
  BY <1>1, LifeInductive, PTL DEF LifeInv

\* No closure is queued on a loop of the pool whose thread has destroyed it.
THEOREM DeadLoopsLeftAlone == ServerSpec => NothingForDeadLoops
<1>1. ASSUME Pool, Phases, Queues, [ServerNext]_serverVars,
             NEW l \in AllLoops \ {baseLoop_}, phase[l] = "exited"
      PROVE  queue'[l] = queue[l]
  <2>0. /\ server \in {"destroying", "gone"} /\ connections_ = {}
        /\ queue \in [AllLoops -> Seq(Functors)]
    BY <1>1 DEF Phases, Queues, Closures
  <2>1. ASSUME NEW k \in AllLoops, k # l, NEW f, queue' = Queued(queue, k, f)
        PROVE  queue'[l] = queue[l]
    BY <2>0, <2>1 DEF Queued
  <2>2. baseLoop_ \in AllLoops /\ Loops \subseteq AllLoops
    BY <1>1, LoopsAre
  <2>3. CASE NewConnection
    BY <1>1, <2>0, <2>3 DEF NewConnection, Phases
  <2>4. ASSUME NEW c \in 1..Len(given), HandleClose(c) PROVE queue'[l] = queue[l]
    <3>1. PICK f : queue' = Queued(queue, baseLoop_, f)
      BY <2>4 DEF HandleClose, RemoveConnection, RemoveConnectionInLoop
    <3> QED
      BY <1>1, <2>1, <2>2, <3>1
  <2>5. ASSUME NEW k \in Loops, RunFunctor(k) PROVE queue'[l] = queue[l]
    <3>1. phase[k] = "functors" /\ k \in AllLoops /\ k # l /\ k # baseLoop_
      BY <1>1, <2>0, <2>2, <2>5 DEF RunFunctor, Phases
    <3>2. batch[k] > 0 /\ batch[k] \in Nat /\ batch[k] <= Len(queue[k])
      BY <1>1, <2>5, <3>1 DEF RunFunctor, Queues
    <3>3. Len(queue[k]) >= 1 /\ Head(queue[k]) = queue[k][1]
      BY <2>0, <3>1, <3>2
    <3>4. Head(queue[k]).op # "removeConnection"
      BY <1>1, <3>1, <3>3 DEF Queues, Closures
    <3>5. queue' = [queue EXCEPT ![k] = Tail(@)]
      BY <2>5, <3>4 DEF RunFunctor
    <3> QED
      BY <2>0, <3>1, <3>5
  <2>6. ASSUME NEW c \in connections_, DestroyConnection(c) PROVE queue'[l] = queue[l]
    BY <2>0, <2>6
  <2>7. ASSUME \/ \E n \in 0..MaxThreads : SetThreads(n)
               \/ Start \/ BaseQuit \/ (\E m \in Loops : EnterLoop(m)) \/ Client \/ NoConnection
               \/ \E c \in 1..Len(given) : Shutdown(c)
               \/ \E k \in Loops : DoPendingFunctors(k) \/ PendingFunctorsDone(k)
               \/ DestroyServer \/ Destroyed
               \/ \E i \in 1..Len(loops_) : QuitThread(i)
               \/ UNCHANGED serverVars
        PROVE  queue' = queue
    BY <2>7 DEF SetThreads, Start, EnterLoop, BaseQuit, Client, NoConnection, Shutdown,
                DoPendingFunctors, PendingFunctorsDone, DestroyServer, Destroyed, QuitThread,
                PoolJoins, serverVars, loopVars
  <2> QED
    BY <1>1, <2>3, <2>4, <2>5, <2>6, <2>7, ServerSteps
<1>2. ASSUME LifeInv, Queues, [ServerNext]_serverVars
      PROVE  [\A l \in AllLoops \ {baseLoop_} :
                phase[l] = "exited" => queue'[l] = queue[l]]_serverVars
  BY <1>1, <1>2 DEF LifeInv
<1> QED
  BY <1>2, LifeInductive, QueuesInductive, PTL DEF ServerSpec, NothingForDeadLoops

\* Since next_ is never advanced, a pool with threads gives every connection to its first
\* loop; getLoopForHash and getAllLoops, which nobody calls, would give loops of the pool.
THEOREM FirstLoopOnly ==
  ServerSpec => [](/\ NextLoop = (IF loops_ = <<>> THEN baseLoop_ ELSE 1)
                   /\ \A hashCode \in Nat : LoopForHash(hashCode) \in Loops
                   /\ \A i \in 1..Len(GetAllLoops) : GetAllLoops[i] \in Loops)
<1>1. ASSUME Pool
      PROVE  /\ NextLoop = (IF loops_ = <<>> THEN baseLoop_ ELSE 1)
             /\ \A hashCode \in Nat : LoopForHash(hashCode) \in Loops
             /\ \A i \in 1..Len(GetAllLoops) : GetAllLoops[i] \in Loops
  <2>1. /\ NextLoop = IF loops_ = <<>> THEN baseLoop_ ELSE 1
        /\ baseLoop_ \in Loops
    BY <1>1, LoopsAre
  <2>2. ASSUME NEW h \in Nat PROVE LoopForHash(h) \in Loops
    <3>1. CASE loops_ = <<>>
      BY <2>1, <3>1 DEF LoopForHash
    <3>2. CASE loops_ # <<>>
      <4>1. Len(loops_) \in Nat \ {0}
        BY <1>1, <3>2 DEF Pool
      <4>2. h % Len(loops_) \in 0..(Len(loops_) - 1)
        BY <4>1
      <4>3. (h % Len(loops_)) + 1 \in 1..Len(loops_)
        BY <4>1, <4>2
      <4> QED
        BY <1>1, <3>2, <4>3 DEF LoopForHash, Pool, Loops
    <3> QED
      BY <3>1, <3>2
  <2>3. ASSUME NEW i \in 1..Len(GetAllLoops) PROVE GetAllLoops[i] \in Loops
    BY <1>1, <2>1 DEF GetAllLoops, Pool, Loops
  <2> QED
    BY <2>1, <2>2, <2>3
<1> QED
  BY <1>1, LifeInductive, PTL DEF LifeInv

--------------------------------------------------------------------------
(* In which order a connection is told.                                      *)

IsUp(f) == f.op = "connectEstablished"
IsDown(f) == f.op = "connectDestroyed"

\* The queues q, when the connections of K are still connecting and gv are the loops given.
\* connectEstablished is queued for connections that are connecting and not the base
\* loop's, and once for each; it and connectDestroyed are queued on the connection's loop;
\* connectDestroyed comes after connectEstablished, which every connecting one waits for.
UpsAreConnecting(q, K) ==
  \A l \in AllLoops : \A i \in 1..Len(q[l]) : IsUp(q[l][i]) => q[l][i].conn \in K /\ l # baseLoop_
OnOwnLoop(q, gv) ==
  \A l \in AllLoops : \A i \in 1..Len(q[l]) :
    IsUp(q[l][i]) \/ IsDown(q[l][i]) => gv[q[l][i].conn] = l
UpOnce(q) ==
  \A l \in AllLoops : \A i, j \in 1..Len(q[l]) : IsUp(q[l][i]) /\ q[l][j] = q[l][i] => i = j
UpBeforeDown(q, K) ==
  \A l \in AllLoops : \A i \in 1..Len(q[l]) :
    IsDown(q[l][i]) /\ q[l][i].conn \in K =>
      \E k \in 1..(i - 1) : q[l][k] = Functor("connectEstablished", q[l][i].conn)
UpIsComing(q, K, gv) ==
  \A c \in 1..Len(gv) : c \in K =>
    \E k \in 1..Len(q[gv[c]]) : q[gv[c]][k] = Functor("connectEstablished", c)

InOrderOfLife(q, K, gv) ==
  /\ UpsAreConnecting(q, K)
  /\ OnOwnLoop(q, gv)
  /\ UpOnce(q)
  /\ UpBeforeDown(q, K)
  /\ UpIsComing(q, K, gv)

\* A closure is its operation and its connection.
LEMMA SameFunctor ==
  ASSUME NEW f \in Functors
  PROVE  f = Functor(f.op, f.conn)
BY DEF Functors, Functor

\* Where an element of a queue with one more closure comes from.
LEMMA QueuedFrom ==
  ASSUME NEW q \in [AllLoops -> Seq(Functors)], NEW m \in AllLoops, NEW f \in Functors,
         NEW r, r = Queued(q, m, f), NEW l \in AllLoops
  PROVE  /\ \A i \in 1..Len(r[l]) : \/ i \in 1..Len(q[l]) /\ r[l][i] = q[l][i]
                                    \/ l = m /\ i = Len(q[m]) + 1 /\ r[l][i] = f
         /\ \A i \in 1..Len(q[l]) : i \in 1..Len(r[l]) /\ r[l][i] = q[l][i]
         /\ l = m => Len(q[m]) + 1 \in 1..Len(r[l]) /\ r[l][Len(q[m]) + 1] = f
<1>1. /\ r[m] = Append(q[m], f)
      /\ \A k \in AllLoops : k # m => r[k] = q[k]
  BY DEF Queued
<1>2. Len(q[m]) \in Nat
  OBVIOUS
<1> QED
  BY <1>1, <1>2

\* A closure is queued on loop m, as the code queues them: connectEstablished for a
\* connection nothing is queued for yet, connectDestroyed for one that is up or has
\* connectEstablished in the queue.
LEMMA OrderQueued ==
  ASSUME NEW gv \in Seq(AllLoops), NEW q \in [AllLoops -> Seq(Functors)], NEW K,
         InOrderOfLife(q, K, gv), NEW m \in AllLoops, NEW f \in Functors,
         IsUp(f) \/ IsDown(f) => f.conn \in 1..Len(gv) /\ gv[f.conn] = m,
         IsUp(f) => /\ m # baseLoop_
                    /\ \A l \in AllLoops : \A i \in 1..Len(q[l]) : q[l][i].conn # f.conn,
         NEW K2, K2 = IF IsUp(f) THEN K \cup {f.conn} ELSE K
  PROVE  InOrderOfLife(Queued(q, m, f), K2, gv)
<1> DEFINE r == Queued(q, m, f)
<1>1. ASSUME NEW l \in AllLoops
      PROVE  /\ \A i \in 1..Len(r[l]) : \/ i \in 1..Len(q[l]) /\ r[l][i] = q[l][i]
                                        \/ l = m /\ i = Len(q[m]) + 1 /\ r[l][i] = f
             /\ \A i \in 1..Len(q[l]) : i \in 1..Len(r[l]) /\ r[l][i] = q[l][i]
             /\ l = m => Len(q[m]) + 1 \in 1..Len(r[l]) /\ r[l][Len(q[m]) + 1] = f
             /\ Len(q[l]) \in Nat
  BY QueuedFrom, SMTT(30)
<1>2. f = Functor(f.op, f.conn)
  BY SameFunctor
<1>3. ~(IsUp(f) /\ IsDown(f))
  BY DEF IsUp, IsDown
<1> HIDE DEF r
<1>4. UpsAreConnecting(r, K2)
  <2> SUFFICES ASSUME NEW l \in AllLoops, NEW i \in 1..Len(r[l]), IsUp(r[l][i])
               PROVE  r[l][i].conn \in K2 /\ l # baseLoop_
    BY DEF UpsAreConnecting
  <2>1. CASE i \in 1..Len(q[l]) /\ r[l][i] = q[l][i]
    BY <2>1 DEF InOrderOfLife, UpsAreConnecting
  <2>2. CASE l = m /\ r[l][i] = f
    BY <2>2
  <2> QED
    BY <1>1, <2>1, <2>2
<1>5. OnOwnLoop(r, gv)
  <2> SUFFICES ASSUME NEW l \in AllLoops, NEW i \in 1..Len(r[l]),
                      IsUp(r[l][i]) \/ IsDown(r[l][i])
               PROVE  gv[r[l][i].conn] = l
    BY DEF OnOwnLoop
  <2>1. CASE i \in 1..Len(q[l]) /\ r[l][i] = q[l][i]
    BY <2>1 DEF InOrderOfLife, OnOwnLoop
  <2>2. CASE l = m /\ r[l][i] = f
    BY <2>2
  <2> QED
    BY <1>1, <2>1, <2>2
<1>6. UpOnce(r)
  <2> SUFFICES ASSUME NEW l \in AllLoops, NEW i \in 1..Len(r[l]), NEW j \in 1..Len(r[l]),
                      IsUp(r[l][i]), r[l][j] = r[l][i]
               PROVE  i = j
    BY DEF UpOnce
  <2>1. CASE i \in 1..Len(q[l]) /\ r[l][i] = q[l][i] /\ j \in 1..Len(q[l]) /\ r[l][j] = q[l][j]
    BY <2>1 DEF InOrderOfLife, UpOnce
  <2>2. ASSUME NEW k \in 1..Len(r[l]), k \in 1..Len(q[l]), r[l][k] = q[l][k], IsUp(f)
        PROVE  r[l][k] # f
    BY <2>2
  <2>3. CASE i = Len(q[m]) + 1 /\ l = m /\ r[l][i] = f
    BY <1>1, <2>2, <2>3, ZenonT(60)
  <2>4. CASE j = Len(q[m]) + 1 /\ l = m /\ r[l][j] = f
    BY <1>1, <2>2, <2>4, ZenonT(60)
  <2> QED
    BY <1>1, <2>1, <2>3, <2>4
<1>7. UpBeforeDown(r, K2)
  <2> SUFFICES ASSUME NEW l \in AllLoops, NEW i \in 1..Len(r[l]), IsDown(r[l][i]),
                      r[l][i].conn \in K2
               PROVE  \E k \in 1..(i - 1) :
                        r[l][k] = Functor("connectEstablished", r[l][i].conn)
    BY DEF UpBeforeDown
  <2>1. CASE i \in 1..Len(q[l]) /\ r[l][i] = q[l][i]
    <3>1. r[l][i].conn \in K
      BY <2>1
    <3>2. PICK k \in 1..(i - 1) : q[l][k] = Functor("connectEstablished", q[l][i].conn)
      BY <2>1, <3>1 DEF InOrderOfLife, UpBeforeDown
    <3>3. k \in 1..Len(q[l])
      BY <1>1, <2>1, <3>2
    <3> QED
      BY <1>1, <2>1, <3>2, <3>3
  <2>2. CASE l = m /\ i = Len(q[m]) + 1 /\ r[l][i] = f
    <3>1. f.conn \in K /\ f.conn \in 1..Len(gv) /\ gv[f.conn] = m
      BY <1>3, <2>2
    <3>2. PICK k \in 1..Len(q[m]) : q[m][k] = Functor("connectEstablished", f.conn)
      BY <3>1 DEF InOrderOfLife, UpIsComing
    <3>3. k \in 1..(i - 1) /\ r[m][k] = q[m][k]
      BY <1>1, <2>2, <3>2
    <3> QED
      BY <2>2, <3>2, <3>3
  <2> QED
    BY <1>1, <2>1, <2>2
<1>8. UpIsComing(r, K2, gv)
  <2> SUFFICES ASSUME NEW d \in 1..Len(gv), d \in K2
               PROVE  \E k \in 1..Len(r[gv[d]]) :
                        r[gv[d]][k] = Functor("connectEstablished", d)
    BY DEF UpIsComing
  <2>1. PICK g \in AllLoops : g = gv[d]
    OBVIOUS
  <2>2. CASE d \in K
    <3>1. PICK k \in 1..Len(q[g]) : q[g][k] = Functor("connectEstablished", d)
      BY <2>1, <2>2 DEF InOrderOfLife, UpIsComing
    <3>2. k \in 1..Len(r[g]) /\ r[g][k] = q[g][k]
      BY <1>1
    <3> QED
      BY <2>1, <3>1, <3>2
  <2>3. CASE IsUp(f) /\ d = f.conn
    <3>1. gv[d] = m /\ f = Functor("connectEstablished", d)
      BY <1>2, <2>3 DEF IsUp
    <3> QED
      BY <1>1, <3>1
  <2> QED
    BY <2>2, <2>3
<1>9. InOrderOfLife(r, K2, gv)
  BY <1>4, <1>5, <1>6, <1>7, <1>8 DEF InOrderOfLife
<1> QED
  BY <1>9 DEF r

\* A closure is taken from loop m; connectEstablished ends the connecting.
LEMMA OrderPopped ==
  ASSUME NEW gv \in Seq(AllLoops), NEW q \in [AllLoops -> Seq(Functors)], NEW K,
         InOrderOfLife(q, K, gv), NEW m \in AllLoops, q[m] # <<>>,
         NEW K2, K2 = IF IsUp(Head(q[m])) THEN K \ {Head(q[m]).conn} ELSE K
  PROVE  InOrderOfLife(Popped(q, m), K2, gv)
<1> DEFINE r == Popped(q, m)
           f == Head(q[m])
<1>1. /\ Len(q[m]) \in Nat \ {0}
      /\ Len(r[m]) = Len(q[m]) - 1
      /\ \A i \in 1..Len(r[m]) : i + 1 \in 1..Len(q[m]) /\ r[m][i] = q[m][i + 1]
      /\ f = q[m][1]
      /\ \A k \in AllLoops : k # m => r[k] = q[k]
      /\ f \in Functors
  BY PoppedIs
<1>2. f = Functor(f.op, f.conn)
  BY <1>1, SameFunctor
<1> HIDE DEF r, f
<1>3. \A l \in AllLoops : \A i \in 1..Len(r[l]) : \E j \in 1..Len(q[l]) : r[l][i] = q[l][j]
  BY <1>1
\* Nothing but f is a connectEstablished of f's connection.
<1>4. ASSUME NEW l \in AllLoops, NEW j \in 1..Len(q[l]), IsUp(q[l][j]), IsUp(f),
             q[l][j].conn = f.conn
      PROVE  l = m /\ j = 1
  <2>0. 1 \in 1..Len(q[m])
    BY <1>1
  <2>1. gv[f.conn] = l /\ gv[f.conn] = m
    BY <1>1, <1>4, <2>0, ZenonT(60) DEF InOrderOfLife, OnOwnLoop
  <2>2. q[l][j] = f
    <3>1. q[l][j] \in Functors
      OBVIOUS
    <3>2. q[l][j] = Functor(q[l][j].op, q[l][j].conn)
      BY <3>1, SameFunctor
    <3> QED
      BY <1>2, <1>4, <3>2 DEF IsUp
  <2> QED
    BY <1>1, <1>4, <2>0, <2>1, <2>2 DEF InOrderOfLife, UpOnce
<1>5. ASSUME NEW l \in AllLoops, NEW i \in 1..Len(r[l])
      PROVE  /\ r[l][i].conn \in K2 => r[l][i].conn \in K
             /\ IsUp(r[l][i]) /\ r[l][i].conn \in K => r[l][i].conn \in K2
  <2>1. CASE ~IsUp(f)
    BY <2>1 DEF f
  <2>2. CASE IsUp(f)
    <3>1. K2 = K \ {f.conn}
      BY <2>2 DEF f
    <3>2. IsUp(r[l][i]) => r[l][i].conn # f.conn
      <4>1. CASE l = m
        <5>1. i + 1 \in 1..Len(q[m]) /\ r[m][i] = q[m][i + 1] /\ i + 1 # 1
          BY <1>1, <4>1
        <5> QED
          BY <1>4, <2>2, <4>1, <5>1
      <4>2. CASE l # m
        BY <1>1, <1>4, <2>2, <4>2
      <4> QED
        BY <4>1, <4>2
    <3> QED
      BY <3>1, <3>2
  <2> QED
    BY <2>1, <2>2
<1>6. UpsAreConnecting(r, K2)
  <2> SUFFICES ASSUME NEW l \in AllLoops, NEW i \in 1..Len(r[l]), IsUp(r[l][i])
               PROVE  r[l][i].conn \in K2 /\ l # baseLoop_
    BY DEF UpsAreConnecting
  <2>1. r[l][i].conn \in K /\ l # baseLoop_
    <3>1. PICK j \in 1..Len(q[l]) : r[l][i] = q[l][j]
      BY <1>3
    <3> QED
      BY <3>1 DEF InOrderOfLife, UpsAreConnecting
  <2> QED
    BY <1>5, <2>1
<1>7. OnOwnLoop(r, gv)
  <2> SUFFICES ASSUME NEW l \in AllLoops, NEW i \in 1..Len(r[l]),
                      IsUp(r[l][i]) \/ IsDown(r[l][i])
               PROVE  gv[r[l][i].conn] = l
    BY DEF OnOwnLoop
  <2>1. PICK j \in 1..Len(q[l]) : r[l][i] = q[l][j]
    BY <1>3
  <2> QED
    BY <2>1 DEF InOrderOfLife, OnOwnLoop
<1>8. UpOnce(r)
  <2> SUFFICES ASSUME NEW l \in AllLoops, NEW i \in 1..Len(r[l]), NEW j \in 1..Len(r[l]),
                      IsUp(r[l][i]), r[l][j] = r[l][i]
               PROVE  i = j
    BY DEF UpOnce
  <2>1. CASE l = m
    <3>1. /\ i + 1 \in 1..Len(q[m]) /\ r[m][i] = q[m][i + 1]
          /\ j + 1 \in 1..Len(q[m]) /\ r[m][j] = q[m][j + 1]
      BY <1>1, <2>1
    <3>2. i + 1 = j + 1
      BY <2>1, <3>1 DEF InOrderOfLife, UpOnce
    <3> QED
      BY <3>2
  <2>2. CASE l # m
    BY <1>1, <2>2 DEF InOrderOfLife, UpOnce
  <2> QED
    BY <2>1, <2>2
<1>9. UpBeforeDown(r, K2)
  <2> SUFFICES ASSUME NEW l \in AllLoops, NEW i \in 1..Len(r[l]), IsDown(r[l][i]),
                      r[l][i].conn \in K2
               PROVE  \E k \in 1..(i - 1) :
                        r[l][k] = Functor("connectEstablished", r[l][i].conn)
    BY DEF UpBeforeDown
  <2>0. r[l][i].conn \in K
    BY <1>5
  <2>1. CASE l = m
    <3>1. i + 1 \in 1..Len(q[m]) /\ r[m][i] = q[m][i + 1]
      BY <1>1, <2>1
    <3>2. PICK k \in 1..((i + 1) - 1) :
            q[m][k] = Functor("connectEstablished", q[m][i + 1].conn)
      BY <2>0, <2>1, <3>1 DEF InOrderOfLife, UpBeforeDown
    <3>3. k # 1
      <4> SUFFICES ASSUME k = 1 PROVE FALSE
        OBVIOUS
      <4>1. f = Functor("connectEstablished", r[m][i].conn)
        BY <1>1, <3>1, <3>2
      <4>2. IsUp(f) /\ f.conn = r[m][i].conn
        BY <4>1 DEF IsUp, Functor
      <4> QED
        BY <2>1, <4>2 DEF f
    <3>4. k - 1 \in 1..(i - 1) /\ k - 1 \in 1..Len(r[m]) /\ (k - 1) + 1 = k
      BY <1>1, <2>1, <3>1, <3>2, <3>3
    <3>5. r[m][k - 1] = q[m][k]
      BY <1>1, <3>4
    <3> QED
      BY <2>1, <3>1, <3>2, <3>4, <3>5
  <2>2. CASE l # m
    <3>1. r[l] = q[l]
      BY <1>1, <2>2
    <3> QED
      BY <2>0, <3>1 DEF InOrderOfLife, UpBeforeDown
  <2> QED
    BY <2>1, <2>2
<1>10. UpIsComing(r, K2, gv)
  <2> SUFFICES ASSUME NEW d \in 1..Len(gv), d \in K2
               PROVE  \E k \in 1..Len(r[gv[d]]) :
                        r[gv[d]][k] = Functor("connectEstablished", d)
    BY DEF UpIsComing
  <2>1. d \in K
    BY DEF f
  <2>5. PICK g \in AllLoops : g = gv[d]
    OBVIOUS
  <2>2. PICK k \in 1..Len(q[g]) : q[g][k] = Functor("connectEstablished", d)
    BY <2>1, <2>5 DEF InOrderOfLife, UpIsComing
  <2>3. CASE g = m
    <3>1. k # 1
      <4> SUFFICES ASSUME k = 1 PROVE FALSE
        OBVIOUS
      <4>1. IsUp(f) /\ f.conn = d
        BY <1>1, <2>2, <2>3 DEF IsUp, Functor
      <4> QED
        BY <4>1 DEF f
    <3>4. k \in 1..Len(q[m])
      BY <2>2, <2>3
    <3>5. k - 1 \in 1..(Len(q[m]) - 1) /\ (k - 1) + 1 = k
      BY <1>1, <3>1, <3>4
    <3>2. k - 1 \in 1..Len(r[m]) /\ (k - 1) + 1 = k
      BY <1>1, <3>5
    <3>3. r[m][k - 1] = q[m][k]
      BY <1>1, <3>2
    <3> QED
      BY <2>2, <2>3, <2>5, <3>2, <3>3
  <2>4. CASE g # m
    BY <1>1, <2>2, <2>4, <2>5
  <2> QED
    BY <2>3, <2>4
<1>11. InOrderOfLife(r, K2, gv)
  BY <1>6, <1>7, <1>8, <1>9, <1>10 DEF InOrderOfLife
<1> QED
  BY <1>11 DEF r

\* One more loop is given.
LEMMA OrderGiven ==
  ASSUME NEW gv \in Seq(AllLoops), NEW m \in AllLoops, NEW q, Closures(q, Len(gv)),
         NEW K \in SUBSET (1..Len(gv)), InOrderOfLife(q, K, gv)
  PROVE  InOrderOfLife(q, K, Append(gv, m))
<1> DEFINE g == Append(gv, m)
<1>1. /\ Len(g) = Len(gv) + 1 /\ \A c \in 1..Len(gv) : g[c] = gv[c]
      /\ \A c \in 1..Len(gv) : c \in 1..Len(g)
  OBVIOUS
<1> HIDE DEF g
<1>2. OnOwnLoop(q, g)
  <2> SUFFICES ASSUME NEW l \in AllLoops, NEW i \in 1..Len(q[l]),
                      IsUp(q[l][i]) \/ IsDown(q[l][i])
               PROVE  g[q[l][i].conn] = l
    BY DEF OnOwnLoop
  <2>1. q[l][i].conn \in 1..Len(gv)
    BY DEF Closures
  <2>2. gv[q[l][i].conn] = l
    BY DEF InOrderOfLife, OnOwnLoop
  <2> QED
    BY <1>1, <2>1, <2>2
<1>3. UpIsComing(q, K, g)
  <2> SUFFICES ASSUME NEW d \in 1..Len(g), d \in K
               PROVE  \E k \in 1..Len(q[g[d]]) :
                        q[g[d]][k] = Functor("connectEstablished", d)
    BY DEF UpIsComing
  <2>1. d \in 1..Len(gv) /\ g[d] = gv[d]
    BY <1>1
  <2> QED
    BY <2>1 DEF InOrderOfLife, UpIsComing
<1>4. InOrderOfLife(q, K, g)
  BY <1>2, <1>3 DEF InOrderOfLife
<1> QED
  BY <1>4 DEF g

\* The connections that have a loop and were not up yet.
Connecting == {c \in Conns : c <= Len(given) /\ state_[c] = "kConnecting"}

\* What the callback saw of a connection follows from its state.
Lives ==
  /\ callbacks \in [Conns -> Seq({"up", "down"})]
  /\ \A c \in Conns :
       /\ state_[c] = "kConnecting" => callbacks[c] = <<>>
       /\ state_[c] \in {"kConnected", "kDisconnecting"} => callbacks[c] = <<"up">>
       /\ state_[c] = "kDisconnected" => callbacks[c] = <<"up", "down">>
       /\ c \in destroyed => state_[c] \in {"kDisconnecting", "kDisconnected"}
       /\ c > Len(given) => state_[c] = "kConnecting"

Told == Lives /\ InOrderOfLife(queue, Connecting, given)

\* The callbacks of a connection that goes down.
LEMMA UpAndDown == Append(<<"up">>, "down") = <<"up", "down">>
<1> DEFINE S == {"up", "down"}
           s == Append(<<"up">>, "down")
           t == <<"up", "down">>
<1>1. <<"up">> \in Seq(S) /\ "down" \in S /\ Len(<<"up">>) = 1 /\ <<"up">>[1] = "up"
  OBVIOUS
<1>2. t \in Seq(S) /\ Len(t) = 2 /\ t[1] = "up" /\ t[2] = "down"
  OBVIOUS
<1>3. s \in Seq(S) /\ Len(s) = 2 /\ s[1] = "up" /\ s[2] = "down"
  BY <1>1, AppendProperties
<1> HIDE DEF s, t, S
<1>4. \A i \in 1..Len(s) : s[i] = t[i]
  BY <1>2, <1>3
<1>5. s = t
  BY <1>2, <1>3, <1>4, SeqEqual
<1> QED
  BY <1>5 DEF s, t

\* The steps of a life.
LEMMA LivesStep ==
  ASSUME Lives, Queues, NEW c \in Conns,
         \A d \in Conns : d > Len(given') => d > Len(given) /\ d # c
  PROVE  /\ ConnectEstablished(c) /\ state_[c] = "kConnecting" => Lives'
         /\ ConnectDestroyed(c) /\ state_[c] # "kConnecting" => Lives'
         /\ (/\ state_' = [state_ EXCEPT ![c] = "kDisconnected"]
             /\ Saw(c, "down") /\ UNCHANGED destroyed
             /\ state_[c] \in {"kConnected", "kDisconnecting"}) => Lives'
<1>0. state_ \in [Conns -> {"kConnecting", "kConnected", "kDisconnecting", "kDisconnected"}]
  BY DEF Queues
<1>1. ASSUME ConnectEstablished(c), state_[c] = "kConnecting" PROVE Lives'
  <2>1. /\ callbacks[c] = <<>> /\ UNCHANGED destroyed /\ c \notin destroyed
        /\ state_' = [state_ EXCEPT ![c] = "kConnected"]
        /\ callbacks' = [callbacks EXCEPT ![c] = Append(@, "up")]
    BY <1>1 DEF Lives, ConnectEstablished, Saw
  <2>2. callbacks'[c] = <<"up">> /\ callbacks' \in [Conns -> Seq({"up", "down"})]
    BY <2>1 DEF Lives
  <2> QED
    BY <1>0, <2>1, <2>2 DEF Lives
<1>2. ASSUME state_' = [state_ EXCEPT ![c] = "kDisconnected"], Saw(c, "down"),
             destroyed' \subseteq destroyed \cup {c},
             state_[c] \in {"kConnected", "kDisconnecting"}
      PROVE  Lives'
  <2>1. /\ callbacks[c] = <<"up">>
        /\ callbacks' = [callbacks EXCEPT ![c] = Append(@, "down")]
    BY <1>2 DEF Lives, Saw
  <2>3. Append(<<"up">>, "down") = <<"up", "down">>
    BY UpAndDown
  <2>2. callbacks'[c] = <<"up", "down">> /\ callbacks' \in [Conns -> Seq({"up", "down"})]
    BY <2>1, <2>3 DEF Lives
  <2> QED
    BY <1>0, <1>2, <2>1, <2>2 DEF Lives
<1>3. ASSUME ConnectDestroyed(c), state_[c] # "kConnecting" PROVE Lives'
  <2>1. CASE state_[c] = "kConnected"
    BY <1>2, <1>3, <2>1 DEF ConnectDestroyed
  <2>2. CASE state_[c] # "kConnected"
    <3>1. UNCHANGED <<state_, callbacks>> /\ destroyed' = destroyed \cup {c}
          /\ state_[c] \in {"kDisconnecting", "kDisconnected"}
      BY <1>0, <1>3, <2>2 DEF ConnectDestroyed
    <3> QED
      BY <1>0, <3>1 DEF Lives
  <2> QED
    BY <2>1, <2>2
<1>4. ASSUME state_' = [state_ EXCEPT ![c] = "kDisconnected"], Saw(c, "down"),
             UNCHANGED destroyed, state_[c] \in {"kConnected", "kDisconnecting"}
      PROVE  Lives'
  <2>1. destroyed' \subseteq destroyed \cup {c}
    BY <1>4
  <2> QED
    BY <1>2, <1>4, <2>1
<1> QED
  BY <1>1, <1>3, <1>4

\* Every step keeps Told.
LEMMA ToldStep ==
  ASSUME Pool, Phases, Queues, Told, [ServerNext]_serverVars
  PROVE  Told'
<1> DEFINE n == Len(given)
           K == Connecting
<1>0. /\ given \in Seq(AllLoops) /\ n \in 0..MaxConns /\ MaxConns \in Nat
      /\ \A c \in 1..n : c \in Conns /\ given[c] \in AllLoops
      /\ Closures(queue, n) /\ queue \in [AllLoops -> Seq(Functors)]
      /\ InOrderOfLife(queue, K, given) /\ Lives
      /\ baseLoop_ \in AllLoops /\ Loops \subseteq AllLoops
      /\ state_ \in [Conns -> {"kConnecting", "kConnected", "kDisconnecting", "kDisconnected"}]
  <2>1. n \in 0..MaxConns /\ MaxConns \in Nat /\ given \in Seq(Loops)
    BY PoolAssumption DEF Pool
  <2>2. Loops \subseteq AllLoops /\ baseLoop_ \in AllLoops
    BY LoopsAre
  <2>3. given \in Seq(AllLoops) /\ \A c \in 1..n : c \in Conns /\ given[c] \in AllLoops
    BY <2>1, <2>2 DEF Conns
  <2> QED
    BY <2>1, <2>2, <2>3 DEF Told, Queues, Closures
<1>1. K \in SUBSET (1..n) /\ \A c \in 1..n : c \in K <=> state_[c] = "kConnecting"
  BY <1>0 DEF Connecting, Conns
<1>2. ASSUME NEW c \in 1..n, c \in K PROVE given[c] # baseLoop_
  <2>1. PICK k \in 1..Len(queue[given[c]]) :
          queue[given[c]][k] = Functor("connectEstablished", c)
    BY <1>0, <1>2 DEF InOrderOfLife, UpIsComing
  <2>2. IsUp(queue[given[c]][k])
    BY <2>1 DEF IsUp, Functor
  <2> QED
    BY <1>0, <2>1, <2>2 DEF InOrderOfLife, UpsAreConnecting
\* A closure other than connectEstablished is queued.
<1>3. ASSUME NEW q \in [AllLoops -> Seq(Functors)], NEW J, InOrderOfLife(q, J, given),
             NEW c \in 1..n, NEW r,
             \/ r = Queued(q, baseLoop_, Functor("removeConnection", c))
             \/ r = Queued(q, given[c], Functor("connectDestroyed", c))
      PROVE  InOrderOfLife(r, J, given)
  <2>1. c \in Conns /\ given[c] \in AllLoops
    BY <1>0
  <2>2. CASE r = Queued(q, baseLoop_, Functor("removeConnection", c))
    <3> DEFINE f == Functor("removeConnection", c)
    <3>1. f \in Functors /\ ~IsUp(f) /\ ~IsDown(f)
      BY <2>1, FunctorIs DEF IsUp, IsDown
    <3> HIDE DEF f
    <3>2. InOrderOfLife(Queued(q, baseLoop_, f), J, given)
      BY <1>0, <1>3, <3>1, OrderQueued
    <3> QED
      BY <2>2, <3>2 DEF f
  <2>3. CASE r = Queued(q, given[c], Functor("connectDestroyed", c))
    <3> DEFINE f == Functor("connectDestroyed", c)
    <3>1. f \in Functors /\ ~IsUp(f) /\ f.conn = c
      BY <2>1, FunctorIs DEF IsUp
    <3> HIDE DEF f
    <3>2. InOrderOfLife(Queued(q, given[c], f), J, given)
      BY <1>0, <1>3, <2>1, <3>1, OrderQueued
    <3> QED
      BY <2>3, <3>2 DEF f
  <2> QED
    BY <1>3, <2>2, <2>3
<1>4. ASSUME UNCHANGED given, InOrderOfLife(queue', Connecting', given), Lives' PROVE Told'
  BY <1>4 DEF Told
<1>5. ASSUME UNCHANGED given,
             \A d \in Conns : state_'[d] = "kConnecting" <=> state_[d] = "kConnecting"
      PROVE  Connecting' = K
  BY <1>5 DEF Connecting
<1>6. CASE NewConnection
  <2>1. /\ n < MaxConns /\ given' = Append(given, NextLoop) /\ n + 1 \in Conns
        /\ NextLoop \in AllLoops
    BY <1>0, <1>6, LoopsAre DEF NewConnection, GetNextLoop, Conns
  <2>2. /\ Len(given') = n + 1 /\ given'[n + 1] = NextLoop /\ n + 1 \in 1..Len(given')
        /\ given' \in Seq(AllLoops)
    BY <1>0, <2>1
  <2>3. InOrderOfLife(queue, K, given')
    BY <1>0, <1>1, <2>1, OrderGiven
  <2>4. state_[n + 1] = "kConnecting"
    BY <1>0, <2>1 DEF Lives
  <2>5. \A d \in Conns : d > Len(given') => d > Len(given) /\ d # n + 1
    BY <1>0, <2>2 DEF Conns
  <2>6. CASE ConnectEstablished(n + 1) /\ UNCHANGED queue
    <3>1. Lives'
      BY <1>0, <2>1, <2>4, <2>5, <2>6, LivesStep
    <3>2. Connecting' = K
      <4>1. state_' = [state_ EXCEPT ![n + 1] = "kConnected"]
        BY <2>6 DEF ConnectEstablished
      <4>2. \A d \in Conns : d <= Len(given') /\ d # n + 1 <=> d <= n
        BY <1>0, <2>2 DEF Conns
      <4> QED
        BY <1>0, <2>1, <4>1, <4>2 DEF Connecting
    <3> QED
      BY <2>3, <2>6, <3>1, <3>2 DEF Told
  <2>7. CASE /\ queue' = Queued(queue, NextLoop, Functor("connectEstablished", n + 1))
             /\ UNCHANGED connVars /\ NextLoop # baseLoop_
    <3> DEFINE f == Functor("connectEstablished", n + 1)
    <3>1. Lives'
      BY <1>0, <2>5, <2>7 DEF Lives, connVars
    <3>2. Connecting' = K \cup {n + 1}
      <4>1. \A d \in Conns : d <= Len(given') <=> d <= n \/ d = n + 1
        BY <1>0, <2>2 DEF Conns
      <4> QED
        BY <1>0, <2>1, <2>4, <2>7, <4>1 DEF Connecting, connVars
    <3>3. f \in Functors /\ IsUp(f) /\ ~IsDown(f) /\ f.conn = n + 1
      BY <2>1, FunctorIs DEF IsUp, IsDown
    <3>4. \A l \in AllLoops : \A i \in 1..Len(queue[l]) : queue[l][i].conn # n + 1
      BY <1>0 DEF Closures
    <3> HIDE DEF f
    <3>5. InOrderOfLife(Queued(queue, NextLoop, f), K \cup {n + 1}, given')
      BY <1>0, <2>1, <2>2, <2>3, <2>7, <3>3, <3>4, OrderQueued
    <3> QED
      BY <2>7, <3>1, <3>2, <3>5 DEF Told, f
  <2> QED
    BY <1>6, <2>6, <2>7 DEF NewConnection
<1>7. ASSUME NEW c \in 1..Len(given), HandleClose(c) PROVE Told'
  <2>1. /\ c \in Conns /\ given' = given
        /\ state_' = [state_ EXCEPT ![c] = "kDisconnected"] /\ Saw(c, "down")
        /\ UNCHANGED destroyed /\ state_[c] \in {"kConnected", "kDisconnecting"}
    BY <1>0, <1>7 DEF HandleClose, poolVars
  <2>2. \A d \in Conns : d > Len(given') => d > Len(given) /\ d # c
    BY <1>0, <2>1
  <2>3. Lives'
    BY <1>0, <2>1, <2>2, LivesStep
  <2>4. Connecting' = K
    BY <1>0, <1>5, <2>1
  <2>5. InOrderOfLife(queue', K, given)
    <3>1. \/ queue' = Queued(queue, baseLoop_, Functor("removeConnection", c))
          \/ queue' = Queued(queue, given[c], Functor("connectDestroyed", c))
      BY <1>7 DEF HandleClose, RemoveConnection, RemoveConnectionInLoop
    <3> QED
      BY <1>0, <1>3, <3>1
  <2> QED
    BY <1>4, <2>1, <2>3, <2>4, <2>5
<1>8. ASSUME NEW c \in connections_, DestroyConnection(c) PROVE Told'
  <2>1. c \in 1..n /\ c \in Conns /\ given' = given
    BY <1>0, <1>8 DEF DestroyConnection, poolVars, Pool
  <2>2. CASE given[c] = baseLoop_ /\ ConnectDestroyed(c) /\ UNCHANGED queue
    <3>1. state_[c] # "kConnecting"
      BY <1>1, <1>2, <2>1, <2>2
    <3>2. \A d \in Conns : d > Len(given') => d > Len(given) /\ d # c
      BY <1>0, <2>1
    <3>3. Lives'
      BY <1>0, <2>1, <2>2, <3>1, <3>2, LivesStep
    <3>4. Connecting' = K
      BY <1>0, <1>5, <2>1, <2>2, <3>1 DEF ConnectDestroyed
    <3> QED
      BY <1>0, <1>4, <2>1, <2>2, <3>3, <3>4
  <2>3. CASE /\ queue' = Queued(queue, given[c], Functor("connectDestroyed", c))
             /\ UNCHANGED connVars
    <3>1. InOrderOfLife(queue', K, given)
      BY <1>0, <1>3, <2>1, <2>3
    <3>2. Lives' /\ Connecting' = K
      BY <1>0, <2>1, <2>3 DEF connVars, Lives, Connecting
    <3> QED
      BY <1>4, <2>1, <3>1, <3>2
  <2> QED
    BY <1>8, <2>2, <2>3 DEF DestroyConnection
<1>9. ASSUME NEW l \in Loops, RunFunctor(l) PROVE Told'
  <2> DEFINE f == Head(queue[l])
             rest == Popped(queue, l)
             J == IF IsUp(f) THEN K \ {f.conn} ELSE K
  <2>1. /\ l \in AllLoops /\ given' = given /\ batch[l] > 0 /\ batch[l] <= Len(queue[l])
        /\ batch[l] \in Nat
    BY <1>0, <1>9 DEF RunFunctor, poolVars, Queues
  <2>2. queue[l] # <<>> /\ 1 \in 1..Len(queue[l])
    BY <1>0, <2>1
  <2>3. /\ rest \in [AllLoops -> Seq(Functors)]
        /\ f = queue[l][1] /\ f \in Functors
    BY <1>0, <2>1, <2>2, PoppedIs, SMTT(30)
  <2>4. InOrderOfLife(rest, J, given)
    BY <1>0, <2>1, <2>2, OrderPopped
  <2>5. f.conn \in 1..n /\ f.conn \in Conns
    BY <1>0, <2>1, <2>2, <2>3 DEF Closures
  <2>6. /\ IsUp(f) => f.conn \in K
        /\ IsDown(f) => f.conn \notin K
    <3>1. IsUp(f) => f.conn \in K
      BY <1>0, <2>1, <2>2, <2>3 DEF InOrderOfLife, UpsAreConnecting
    <3>2. ASSUME IsDown(f), f.conn \in K PROVE FALSE
      <4>1. \E k \in 1..(1 - 1) : queue[l][k] = Functor("connectEstablished", f.conn)
        BY <1>0, <2>1, <2>2, <2>3, <3>2 DEF InOrderOfLife, UpBeforeDown
      <4> QED
        BY <4>1
    <3> QED
      BY <3>1, <3>2
  <2>7. \A d \in Conns : d > Len(given') => d > Len(given) /\ d # f.conn
    BY <1>0, <2>1, <2>5
  <2>8. \/ f.op = "connectEstablished" /\ ConnectEstablished(f.conn) /\ queue' = rest
        \/ /\ f.op = "removeConnection" /\ RemoveConnectionInLoop(f.conn, rest)
           /\ UNCHANGED connVars
        \/ f.op = "connectDestroyed" /\ ConnectDestroyed(f.conn) /\ queue' = rest
    BY <1>9 DEF RunFunctor, Popped
  <2> HIDE DEF f, rest
  <2>9. CASE f.op = "connectEstablished" /\ ConnectEstablished(f.conn) /\ queue' = rest
    <3>1. IsUp(f) /\ state_[f.conn] = "kConnecting"
      BY <1>1, <2>5, <2>6, <2>9 DEF IsUp
    <3>2. Lives'
      BY <1>0, <2>5, <2>7, <2>9, <3>1, LivesStep
    <3>3. Connecting' = K \ {f.conn}
      BY <1>0, <2>1, <2>5, <2>9 DEF ConnectEstablished, Connecting
    <3> QED
      BY <1>4, <2>1, <2>4, <2>9, <3>1, <3>2, <3>3
  <2>10. CASE /\ f.op = "removeConnection" /\ RemoveConnectionInLoop(f.conn, rest)
              /\ UNCHANGED connVars
    <3>1. ~IsUp(f)
      BY <2>10 DEF IsUp
    <3>2. InOrderOfLife(queue', K, given)
      BY <1>3, <2>3, <2>4, <2>5, <2>10, <3>1 DEF RemoveConnectionInLoop
    <3>3. Lives' /\ Connecting' = K
      BY <1>0, <2>1, <2>10 DEF connVars, Lives, Connecting
    <3> QED
      BY <1>4, <2>1, <3>2, <3>3
  <2>11. CASE f.op = "connectDestroyed" /\ ConnectDestroyed(f.conn) /\ queue' = rest
    <3>1. ~IsUp(f) /\ IsDown(f)
      BY <2>11 DEF IsUp, IsDown
    <3>2. state_[f.conn] # "kConnecting"
      BY <1>1, <2>5, <2>6, <3>1
    <3>3. Lives'
      BY <1>0, <2>5, <2>7, <2>11, <3>2, LivesStep
    <3>4. Connecting' = K
      BY <1>0, <1>5, <2>1, <2>5, <2>11, <3>2 DEF ConnectDestroyed
    <3> QED
      BY <1>4, <2>1, <2>4, <2>11, <3>1, <3>3, <3>4
  <2> QED
    BY <2>8, <2>9, <2>10, <2>11
<1>10. ASSUME NEW c \in 1..Len(given), Shutdown(c) PROVE Told'
  <2>1. /\ c \in Conns /\ state_[c] = "kConnected"
        /\ state_' = [state_ EXCEPT ![c] = "kDisconnecting"]
        /\ UNCHANGED <<given, queue, callbacks, destroyed>>
    BY <1>0, <1>10 DEF Shutdown, poolVars, loopVars
  <2>2. Connecting' = K
    BY <1>0, <1>5, <2>1
  <2>3. Lives'
    BY <1>0, <2>1 DEF Lives
  <2> QED
    BY <1>0, <1>4, <2>1, <2>2, <2>3
<1>11. ASSUME UNCHANGED <<given, queue, state_, callbacks, destroyed>> PROVE Told'
  BY <1>0, <1>11 DEF Told, Lives, Connecting
<1>12. ASSUME \/ \E k \in 0..MaxThreads : SetThreads(k)
              \/ Start \/ BaseQuit \/ (\E m \in Loops : EnterLoop(m)) \/ Client \/ NoConnection
              \/ \E l \in Loops : DoPendingFunctors(l) \/ PendingFunctorsDone(l)
              \/ DestroyServer \/ Destroyed
              \/ \E i \in 1..Len(loops_) : QuitThread(i)
              \/ UNCHANGED serverVars
       PROVE  UNCHANGED <<given, queue, state_, callbacks, destroyed>>
  BY <1>12 DEF SetThreads, SetThreadNum, Start, PoolStart, EnterLoop, BaseQuit, Client,
               NoConnection, DoPendingFunctors, PendingFunctorsDone, DestroyServer, Destroyed,
               QuitThread, PoolJoins, serverVars, poolVars, loopVars, connVars
<1> QED
  BY <1>6, <1>7, <1>8, <1>9, <1>10, <1>11, <1>12, ServerSteps

\* Each queue holds what its loop still has to do for a connection in the order of that
\* connection's life, and the callbacks it made agree with its state: Told, the third layer.
THEOREM ToldInductive == ServerSpec => []Told
<1>1. ASSUME ServerInit PROVE Told
  <2>1. \A l \in AllLoops : queue[l] = <<>> /\ Len(queue[l]) = 0
    BY <1>1 DEF ServerInit
  <2>2. given = <<>> /\ Len(given) = 0
    BY <1>1 DEF ServerInit, PoolInit
  <2>3. InOrderOfLife(queue, Connecting, given)
    BY <2>1, <2>2 DEF InOrderOfLife, UpsAreConnecting, OnOwnLoop, UpOnce, UpBeforeDown,
                      UpIsComing
  <2>4. Lives
    BY <1>1 DEF ServerInit, Lives
  <2> QED
    BY <2>3, <2>4 DEF Told
<1>2. ASSUME LifeInv, Queues, Told, [ServerNext]_serverVars PROVE Told'
  BY <1>2, ToldStep DEF LifeInv
<1> QED
  BY <1>1, <1>2, LifeInductive, QueuesInductive, PTL DEF ServerSpec

\* The callback of each connection sees it up, then down once, and nothing is destroyed
\* before it was up.
THEOREM UpThenDownOnce == ServerSpec => []EachUpThenDown
<1>1. ASSUME Queues, Told PROVE EachUpThenDown
  <2> SUFFICES ASSUME NEW c \in Conns
               PROVE  /\ callbacks[c] \in {<<>>, <<"up">>, <<"up", "down">>}
                      /\ c \in destroyed => callbacks[c] # <<>>
    BY DEF EachUpThenDown
  <2>1. state_[c] \in {"kConnecting", "kConnected", "kDisconnecting", "kDisconnected"}
    BY <1>1 DEF Queues
  <2>2. /\ state_[c] = "kConnecting" => callbacks[c] = <<>>
        /\ state_[c] \in {"kConnected", "kDisconnecting"} => callbacks[c] = <<"up">>
        /\ state_[c] = "kDisconnected" => callbacks[c] = <<"up", "down">>
        /\ c \in destroyed => state_[c] \in {"kDisconnecting", "kDisconnected"}
    BY <1>1 DEF Told, Lives
  <2>3. <<"up">> # <<>> /\ <<"up", "down">> # <<>>
    OBVIOUS
  <2> QED
    BY <2>1, <2>2, <2>3
<1> QED
  BY <1>1, QueuesInductive, ToldInductive, PTL

--------------------------------------------------------------------------
(* Who holds a connection.                                                   *)

\* The queues q, when conns are in the server's map, dest were destroyed and gv are the
\* loops given: connectDestroyed waits, once, for exactly the connections that are in
\* neither.
DownsAreOut(q, conns, dest) ==
  \A l \in AllLoops : \A i \in 1..Len(q[l]) :
    IsDown(q[l][i]) => q[l][i].conn \notin conns \cup dest
DownOnce(q) ==
  \A l \in AllLoops : \A i, j \in 1..Len(q[l]) : IsDown(q[l][i]) /\ q[l][j] = q[l][i] => i = j
DownIsComing(q, conns, dest, gv) ==
  \A c \in 1..Len(gv) : c \notin conns \cup dest =>
    \E k \in 1..Len(q[gv[c]]) : q[gv[c]][k] = Functor("connectDestroyed", c)

Downs(q, conns, dest, gv) ==
  /\ DownsAreOut(q, conns, dest)
  /\ DownOnce(q)
  /\ DownIsComing(q, conns, dest, gv)
  /\ conns \cap dest = {}

\* connectDestroyed closures when one closure is queued.
LEMMA DownsQueued ==
  ASSUME NEW gv \in Seq(AllLoops), NEW q \in [AllLoops -> Seq(Functors)],
         NEW conns, NEW dest, Downs(q, conns, dest, gv),
         NEW m \in AllLoops, NEW f \in Functors,
         IsDown(f) => f.conn \in 1..Len(gv) /\ gv[f.conn] = m /\ f.conn \in conns,
         NEW conns2, conns2 = IF IsDown(f) THEN conns \ {f.conn} ELSE conns
  PROVE  Downs(Queued(q, m, f), conns2, dest, gv)
<1> DEFINE r == Queued(q, m, f)
<1>1. ASSUME NEW l \in AllLoops
      PROVE  /\ \A i \in 1..Len(r[l]) : \/ i \in 1..Len(q[l]) /\ r[l][i] = q[l][i]
                                        \/ l = m /\ i = Len(q[m]) + 1 /\ r[l][i] = f
             /\ \A i \in 1..Len(q[l]) : i \in 1..Len(r[l]) /\ r[l][i] = q[l][i]
             /\ l = m => Len(q[m]) + 1 \in 1..Len(r[l]) /\ r[l][Len(q[m]) + 1] = f
  <2>1. /\ r[m] = Append(q[m], f) /\ \A k \in AllLoops : k # m => r[k] = q[k]
        /\ q[m] \in Seq(Functors) /\ Len(q[m]) \in Nat
    BY DEF Queued
  <2> HIDE DEF r
  <2>2. CASE l = m
    <3>1. /\ Len(r[m]) = Len(q[m]) + 1 /\ r[m][Len(q[m]) + 1] = f
          /\ \A i \in 1..Len(q[m]) : r[m][i] = q[m][i]
      BY <2>1
    <3>2. \A i \in 1..Len(r[m]) : i \in 1..Len(q[m]) \/ i = Len(q[m]) + 1
      BY <2>1, <3>1
    <3>3. \A i \in 1..Len(q[m]) : i \in 1..Len(r[m])
      BY <2>1, <3>1
    <3>4. Len(q[m]) + 1 \in 1..Len(r[m])
      BY <2>1, <3>1
    <3> QED
      BY <2>2, <3>1, <3>2, <3>3, <3>4
  <2>3. CASE l # m
    <3>1. r[l] = q[l]
      BY <2>1, <2>3
    <3> QED
      BY <2>3, <3>1
  <2> QED
    BY <2>2, <2>3
<1>2. f = Functor(f.op, f.conn)
  BY SameFunctor
<1>3. conns2 \subseteq conns
  OBVIOUS
<1>4. conns2 \cap dest = {}
  BY <1>3 DEF Downs
<1> HIDE DEF r
<1>5. DownsAreOut(r, conns2, dest)
  <2> SUFFICES ASSUME NEW l \in AllLoops, NEW i \in 1..Len(r[l]), IsDown(r[l][i])
               PROVE  r[l][i].conn \notin conns2 \cup dest
    BY DEF DownsAreOut
  <2>1. CASE i \in 1..Len(q[l]) /\ r[l][i] = q[l][i]
    BY <1>3, <2>1 DEF Downs, DownsAreOut
  <2>2. CASE l = m /\ r[l][i] = f
    BY <2>2 DEF Downs
  <2> QED
    BY <1>1, <2>1, <2>2
<1>6. DownOnce(r)
  <2> SUFFICES ASSUME NEW l \in AllLoops, NEW i \in 1..Len(r[l]), NEW j \in 1..Len(r[l]),
                      IsDown(r[l][i]), r[l][j] = r[l][i]
               PROVE  i = j
    BY DEF DownOnce
  <2>1. CASE i \in 1..Len(q[l]) /\ r[l][i] = q[l][i] /\ j \in 1..Len(q[l]) /\ r[l][j] = q[l][j]
    BY <2>1 DEF Downs, DownOnce
  <2>2. ASSUME NEW k \in 1..Len(r[l]), k \in 1..Len(q[l]), r[l][k] = q[l][k], IsDown(f)
        PROVE  r[l][k] # f
    BY <2>2 DEF Downs, DownsAreOut
  <2>3. CASE i = Len(q[m]) + 1 /\ l = m /\ r[l][i] = f
    BY <1>1, <2>2, <2>3
  <2>4. CASE j = Len(q[m]) + 1 /\ l = m /\ r[l][j] = f
    BY <1>1, <2>2, <2>4, SMTT(30)
  <2> QED
    BY <1>1, <2>1, <2>3, <2>4
<1>7. DownIsComing(r, conns2, dest, gv)
  <2> SUFFICES ASSUME NEW d \in 1..Len(gv), d \notin conns2 \cup dest
               PROVE  \E k \in 1..Len(r[gv[d]]) : r[gv[d]][k] = Functor("connectDestroyed", d)
    BY DEF DownIsComing
  <2>1. PICK g \in AllLoops : g = gv[d]
    OBVIOUS
  <2>2. CASE d \notin conns
    <3>1. PICK k \in 1..Len(q[g]) : q[g][k] = Functor("connectDestroyed", d)
      BY <2>1, <2>2 DEF Downs, DownIsComing
    <3>2. k \in 1..Len(r[g]) /\ r[g][k] = q[g][k]
      BY <1>1
    <3> QED
      BY <2>1, <3>1, <3>2
  <2>3. CASE d \in conns
    <3>1. IsDown(f) /\ d = f.conn
      BY <2>3
    <3>2. g = m /\ f = Functor("connectDestroyed", d)
      BY <1>2, <2>1, <3>1 DEF IsDown
    <3>3. Len(q[m]) + 1 \in 1..Len(r[m]) /\ r[m][Len(q[m]) + 1] = f
      BY <1>1
    <3> QED
      BY <2>1, <3>2, <3>3
  <2> QED
    BY <2>2, <2>3
<1>8. Downs(r, conns2, dest, gv)
  BY <1>4, <1>5, <1>6, <1>7 DEF Downs
<1> QED
  BY <1>8 DEF r

\* connectDestroyed closures when the head of a queue is run.
LEMMA DownsPopped ==
  ASSUME NEW gv \in Seq(AllLoops), NEW q \in [AllLoops -> Seq(Functors)],
         NEW conns, NEW dest, Downs(q, conns, dest, gv), OnOwnLoop(q, gv),
         NEW m \in AllLoops, q[m] # <<>>,
         NEW dest2, dest2 = IF IsDown(Head(q[m])) THEN dest \cup {Head(q[m]).conn} ELSE dest
  PROVE  Downs(Popped(q, m), conns, dest2, gv)
<1> DEFINE r == Popped(q, m)
           f == Head(q[m])
<1>1. /\ Len(q[m]) \in Nat \ {0}
      /\ Len(r[m]) = Len(q[m]) - 1
      /\ \A i \in 1..Len(r[m]) : i + 1 \in 1..Len(q[m]) /\ r[m][i] = q[m][i + 1]
      /\ f = q[m][1]
      /\ \A k \in AllLoops : k # m => r[k] = q[k]
      /\ f \in Functors
  BY PoppedIs
<1>2. f = Functor(f.op, f.conn) /\ 1 \in 1..Len(q[m])
  BY <1>1, SameFunctor
<1>3. dest2 = IF IsDown(f) THEN dest \cup {f.conn} ELSE dest
  OBVIOUS
<1> HIDE DEF r, f
\* Nothing but f is a connectDestroyed of f's connection.
<1>4. ASSUME NEW l \in AllLoops, NEW j \in 1..Len(q[l]), IsDown(q[l][j]), IsDown(f),
             q[l][j].conn = f.conn
      PROVE  l = m /\ j = 1
  <2>1. gv[f.conn] = l /\ gv[f.conn] = m
    BY <1>1, <1>2, <1>4 DEF OnOwnLoop
  <2>2. q[l][j] = f
    <3>1. q[l][j] \in Functors
      OBVIOUS
    <3>2. q[l][j] = Functor(q[l][j].op, q[l][j].conn)
      BY <3>1, SameFunctor
    <3> QED
      BY <1>2, <1>4, <3>2 DEF IsDown
  <2> QED
    BY <1>1, <1>2, <1>4, <2>1, <2>2 DEF Downs, DownOnce
<1>5. DownsAreOut(r, conns, dest2)
  <2> SUFFICES ASSUME NEW l \in AllLoops, NEW i \in 1..Len(r[l]), IsDown(r[l][i])
               PROVE  r[l][i].conn \notin conns \cup dest2
    BY DEF DownsAreOut
  <2>1. PICK j \in 1..Len(q[l]) : r[l][i] = q[l][j] /\ (l = m => j # 1)
    <3>1. CASE l = m
      <4>1. i + 1 \in 1..Len(q[m]) /\ r[m][i] = q[m][i + 1] /\ i + 1 # 1
        BY <1>1, <3>1
      <4> QED
        BY <3>1, <4>1
    <3>2. CASE l # m
      BY <1>1, <3>2
    <3> QED
      BY <3>1, <3>2
  <2>2. q[l][j].conn \notin conns \cup dest
    BY <2>1 DEF Downs, DownsAreOut
  <2>3. IsDown(f) => q[l][j].conn # f.conn
    BY <1>4, <2>1
  <2> QED
    BY <1>3, <2>1, <2>2, <2>3
<1>6. DownOnce(r)
  <2> SUFFICES ASSUME NEW l \in AllLoops, NEW i \in 1..Len(r[l]), NEW j \in 1..Len(r[l]),
                      IsDown(r[l][i]), r[l][j] = r[l][i]
               PROVE  i = j
    BY DEF DownOnce
  <2>1. CASE l = m
    <3>1. /\ i + 1 \in 1..Len(q[m]) /\ r[m][i] = q[m][i + 1]
          /\ j + 1 \in 1..Len(q[m]) /\ r[m][j] = q[m][j + 1]
      BY <1>1, <2>1
    <3>2. i + 1 = j + 1
      BY <2>1, <3>1 DEF Downs, DownOnce
    <3> QED
      BY <3>2
  <2>2. CASE l # m
    BY <1>1, <2>2 DEF Downs, DownOnce
  <2> QED
    BY <2>1, <2>2
<1>7. DownIsComing(r, conns, dest2, gv)
  <2> SUFFICES ASSUME NEW d \in 1..Len(gv), d \notin conns \cup dest2
               PROVE  \E k \in 1..Len(r[gv[d]]) : r[gv[d]][k] = Functor("connectDestroyed", d)
    BY DEF DownIsComing
  <2>1. d \notin conns \cup dest /\ (IsDown(f) => d # f.conn)
    BY <1>3
  <2>2. PICK g \in AllLoops : g = gv[d]
    OBVIOUS
  <2>3. PICK k \in 1..Len(q[g]) : q[g][k] = Functor("connectDestroyed", d)
    BY <2>1, <2>2 DEF Downs, DownIsComing
  <2>4. CASE g = m
    <3>1. k # 1
      <4> SUFFICES ASSUME k = 1 PROVE FALSE
        OBVIOUS
      <4>1. IsDown(f) /\ f.conn = d
        BY <1>1, <2>3, <2>4 DEF IsDown, Functor
      <4> QED
        BY <2>1, <4>1
    <3>2. k \in 1..Len(q[m])
      BY <2>3, <2>4
    <3>3. k - 1 \in 1..(Len(q[m]) - 1) /\ (k - 1) + 1 = k
      BY <1>1, <3>1, <3>2
    <3>4. k - 1 \in 1..Len(r[m])
      BY <1>1, <3>3
    <3>5. r[m][k - 1] = q[m][k]
      BY <1>1, <3>3, <3>4
    <3> QED
      BY <2>2, <2>3, <2>4, <3>4, <3>5
  <2>5. CASE g # m
    BY <1>1, <2>2, <2>3, <2>5
  <2> QED
    BY <2>4, <2>5
<1>8. conns \cap dest2 = {}
  <2>1. IsDown(f) => f.conn \notin conns
    BY <1>1, <1>2 DEF Downs, DownsAreOut
  <2> QED
    BY <1>3, <2>1 DEF Downs
<1>9. Downs(r, conns, dest2, gv)
  BY <1>5, <1>6, <1>7, <1>8 DEF Downs
<1> QED
  BY <1>9 DEF r

\* connectDestroyed closures when a connection is accepted.
LEMMA DownsGiven ==
  ASSUME NEW gv \in Seq(AllLoops), NEW m \in AllLoops, NEW q, Closures(q, Len(gv)),
         NEW conns, NEW dest, Downs(q, conns, dest, gv), Len(gv) + 1 \notin dest
  PROVE  Downs(q, conns \cup {Len(gv) + 1}, dest, Append(gv, m))
<1> DEFINE g == Append(gv, m)
           n == Len(gv)
<1>1. /\ Len(g) = n + 1 /\ n \in Nat /\ \A c \in 1..n : g[c] = gv[c]
  OBVIOUS
<1> HIDE DEF g
<1>2. DownsAreOut(q, conns \cup {n + 1}, dest)
  <2> SUFFICES ASSUME NEW l \in AllLoops, NEW i \in 1..Len(q[l]), IsDown(q[l][i])
               PROVE  q[l][i].conn \notin conns \cup {n + 1} \cup dest
    BY DEF DownsAreOut
  <2>1. q[l][i].conn \in 1..n
    BY DEF Closures
  <2> QED
    BY <1>1, <2>1 DEF Downs, DownsAreOut
<1>3. DownIsComing(q, conns \cup {n + 1}, dest, g)
  <2> SUFFICES ASSUME NEW d \in 1..Len(g), d \notin conns \cup {n + 1} \cup dest
               PROVE  \E k \in 1..Len(q[g[d]]) : q[g[d]][k] = Functor("connectDestroyed", d)
    BY DEF DownIsComing
  <2>1. d \in 1..n /\ g[d] = gv[d]
    BY <1>1
  <2> QED
    BY <2>1 DEF Downs, DownIsComing
<1>4. (conns \cup {n + 1}) \cap dest = {}
  BY DEF Downs
<1> HIDE DEF n
<1>5. Downs(q, conns \cup {n + 1}, dest, g)
  BY <1>2, <1>3, <1>4 DEF Downs
<1> QED
  BY <1>5 DEF g, n

IsRemoval(f) == f.op = "removeConnection"

\* removeConnection is queued, once, for connections that went down, and while the server
\* is started for none that it has removed.
RemovalsAreDown(q, st, conns, srv) ==
  \A i \in 1..Len(q[baseLoop_]) : IsRemoval(q[baseLoop_][i]) =>
    /\ st[q[baseLoop_][i].conn] = "kDisconnected"
    /\ srv = "started" => q[baseLoop_][i].conn \in conns
RemovalOnce(q) ==
  \A i, j \in 1..Len(q[baseLoop_]) :
    IsRemoval(q[baseLoop_][i]) /\ q[baseLoop_][j] = q[baseLoop_][i] => i = j

Removals(q, st, conns, srv) == RemovalsAreDown(q, st, conns, srv) /\ RemovalOnce(q)

\* removeConnection closures when one closure is queued.
LEMMA RemovalsQueued ==
  ASSUME NEW q \in [AllLoops -> Seq(Functors)], NEW st, NEW conns, NEW srv,
         Removals(q, st, conns, srv), NEW m \in AllLoops, NEW f \in Functors,
         IsRemoval(f) => /\ st[f.conn] = "kDisconnected"
                         /\ srv = "started" => f.conn \in conns
                         /\ \A i \in 1..Len(q[baseLoop_]) : q[baseLoop_][i] # f
  PROVE  Removals(Queued(q, m, f), st, conns, srv)
<1> DEFINE r == Queued(q, m, f)
           b == baseLoop_
<1>0. b \in AllLoops
  BY PoolAssumption DEF AllLoops, baseLoop_
<1>1. \A i \in 1..Len(r[b]) : \/ i \in 1..Len(q[b]) /\ r[b][i] = q[b][i]
                              \/ i = Len(q[b]) + 1 /\ r[b][i] = f
  <2>1. b = m \/ r[b] = q[b]
    BY <1>0 DEF Queued
  <2>2. CASE b = m
    <3>1. /\ Len(r[b]) = Len(q[b]) + 1 /\ Len(q[b]) \in Nat
          /\ \A i \in 1..Len(q[b]) : r[b][i] = q[b][i]
          /\ r[b][Len(q[b]) + 1] = f
      BY <1>0, <2>2 DEF Queued
    <3> HIDE DEF r, b
    <3> QED
      BY <3>1
  <2>3. CASE r[b] = q[b]
    BY <2>3
  <2> QED
    BY <2>1, <2>2, <2>3
<1> HIDE DEF r
<1>2. RemovalsAreDown(r, st, conns, srv)
  BY <1>1 DEF Removals, RemovalsAreDown
<1>3. RemovalOnce(r)
  <2> SUFFICES ASSUME NEW i \in 1..Len(r[b]), NEW j \in 1..Len(r[b]),
                      IsRemoval(r[b][i]), r[b][j] = r[b][i]
               PROVE  i = j
    BY DEF RemovalOnce
  <2>1. CASE i \in 1..Len(q[b]) /\ r[b][i] = q[b][i] /\ j \in 1..Len(q[b]) /\ r[b][j] = q[b][j]
    BY <2>1 DEF Removals, RemovalOnce
  <2>2. CASE i = Len(q[b]) + 1 /\ r[b][i] = f
    BY <1>1, <2>2
  <2>3. CASE j = Len(q[b]) + 1 /\ r[b][j] = f
    BY <1>1, <2>3
  <2> QED
    BY <1>1, <2>1, <2>2, <2>3
<1>4. Removals(r, st, conns, srv)
  BY <1>2, <1>3 DEF Removals
<1> QED
  BY <1>4 DEF r

\* removeConnection closures when the head of a queue is run.
LEMMA RemovalsPopped ==
  ASSUME NEW q \in [AllLoops -> Seq(Functors)], NEW st, NEW conns, NEW srv,
         Removals(q, st, conns, srv), NEW m \in AllLoops, q[m] # <<>>,
         NEW conns2, conns2 = IF m = baseLoop_ /\ IsRemoval(Head(q[m]))
                              THEN conns \ {Head(q[m]).conn} ELSE conns
  PROVE  Removals(Popped(q, m), st, conns2, srv)
<1> DEFINE r == Popped(q, m)
           b == baseLoop_
           f == Head(q[m])
<1>0. b \in AllLoops
  BY PoolAssumption DEF AllLoops, baseLoop_
<1>1. CASE m # b
  <2>1. r[b] = q[b] /\ conns2 = conns
    BY <1>0, <1>1 DEF Popped
  <2> QED
    BY <2>1 DEF Removals, RemovalsAreDown, RemovalOnce
<1>2. CASE m = b
  <2>1. /\ Len(q[b]) \in Nat \ {0}
        /\ \A i \in 1..Len(r[b]) : i + 1 \in 1..Len(q[b]) /\ r[b][i] = q[b][i + 1]
        /\ f = q[b][1] /\ f \in Functors
    BY <1>2, PoppedIs
  <2>2. conns2 = IF IsRemoval(f) THEN conns \ {f.conn} ELSE conns
    BY <1>2
  <2>3. f = Functor(f.op, f.conn) /\ 1 \in 1..Len(q[b])
    BY <2>1, SameFunctor
  <2> HIDE DEF r, f
  <2>4. RemovalsAreDown(r, st, conns2, srv)
    <3> SUFFICES ASSUME NEW i \in 1..Len(r[b]), IsRemoval(r[b][i])
                 PROVE  /\ st[r[b][i].conn] = "kDisconnected"
                        /\ srv = "started" => r[b][i].conn \in conns2
      BY DEF RemovalsAreDown
    <3>1. i + 1 \in 1..Len(q[b]) /\ r[b][i] = q[b][i + 1] /\ i + 1 # 1
      BY <2>1
    <3>2. /\ st[r[b][i].conn] = "kDisconnected"
          /\ srv = "started" => r[b][i].conn \in conns
      BY <3>1 DEF Removals, RemovalsAreDown
    <3>3. IsRemoval(f) => r[b][i].conn # f.conn
      <4> SUFFICES ASSUME IsRemoval(f), r[b][i].conn = f.conn PROVE FALSE
        OBVIOUS
      <4>1. r[b][i] = Functor(r[b][i].op, r[b][i].conn)
        <5>1. q[b][i + 1] \in Functors
          BY <1>0, <3>1
        <5> QED
          BY <3>1, <5>1, SameFunctor
      <4>2. q[b][i + 1] = q[b][1]
        BY <2>1, <2>3, <3>1, <4>1 DEF IsRemoval
      <4> QED
        BY <2>1, <2>3, <3>1, <4>2 DEF Removals, RemovalOnce
    <3> QED
      BY <2>2, <3>2, <3>3
  <2>5. RemovalOnce(r)
    <3> SUFFICES ASSUME NEW i \in 1..Len(r[b]), NEW j \in 1..Len(r[b]),
                        IsRemoval(r[b][i]), r[b][j] = r[b][i]
                 PROVE  i = j
      BY DEF RemovalOnce
    <3>1. /\ i + 1 \in 1..Len(q[b]) /\ r[b][i] = q[b][i + 1]
          /\ j + 1 \in 1..Len(q[b]) /\ r[b][j] = q[b][j + 1]
      BY <2>1
    <3>2. i + 1 = j + 1
      BY <3>1 DEF Removals, RemovalOnce
    <3> QED
      BY <3>2
  <2>6. Removals(r, st, conns2, srv)
    BY <2>4, <2>5 DEF Removals
  <2> QED
    BY <2>6 DEF r
<1> QED
  BY <1>1, <1>2

\* While the server lives, what is not in its map has gone down.
GoneAreDown ==
  server \in {"constructed", "started"} =>
    \A c \in 1..Len(given) : c \notin connections_ => state_[c] = "kDisconnected"

Held ==
  /\ Downs(queue, connections_, destroyed, given)
  /\ Removals(queue, state_, connections_, server)
  /\ GoneAreDown

\* Every step keeps Held.
LEMMA HeldStep ==
  ASSUME Pool, Phases, Queues, Told, Held, [ServerNext]_serverVars
  PROVE  Held'
<1> DEFINE n == Len(given)
<1>0. /\ given \in Seq(AllLoops) /\ n \in 0..MaxConns /\ MaxConns \in Nat
      /\ \A c \in 1..n : c \in Conns /\ given[c] \in AllLoops
      /\ Closures(queue, n) /\ queue \in [AllLoops -> Seq(Functors)]
      /\ OnOwnLoop(queue, given) /\ UpsAreConnecting(queue, Connecting) /\ Lives
      /\ baseLoop_ \in AllLoops /\ Loops \subseteq AllLoops
      /\ state_ \in [Conns -> {"kConnecting", "kConnected", "kDisconnecting", "kDisconnected"}]
  <2>1. n \in 0..MaxConns /\ MaxConns \in Nat /\ given \in Seq(Loops)
    BY PoolAssumption DEF Pool
  <2>2. Loops \subseteq AllLoops /\ baseLoop_ \in AllLoops
    BY LoopsAre
  <2>3. given \in Seq(AllLoops) /\ \A c \in 1..n : c \in Conns /\ given[c] \in AllLoops
    BY <2>1, <2>2 DEF Conns
  <2> QED
    BY <2>1, <2>2, <2>3 DEF Told, InOrderOfLife, Queues, Closures
<1>1. /\ Downs(queue, connections_, destroyed, given)
      /\ Removals(queue, state_, connections_, server) /\ GoneAreDown
  BY DEF Held
\* A state that only leaves kConnecting, kConnected and kDisconnecting, and connections_
\* that loses only what is not to be removed, leave Removals as it is.
<1>2. ASSUME NEW st, NEW conns, NEW srv,
             \A c \in 1..n : state_[c] = "kDisconnected" => st[c] = "kDisconnected",
             srv = "started" =>
               /\ server = "started"
               /\ \A c \in connections_ : state_[c] = "kDisconnected" => c \in conns
      PROVE  Removals(queue, st, conns, srv)
  <2>1. \A i \in 1..Len(queue[baseLoop_]) : queue[baseLoop_][i].conn \in 1..n
    BY <1>0 DEF Closures
  <2>2. RemovalsAreDown(queue, st, conns, srv)
    BY <1>1, <1>2, <2>1 DEF Removals, RemovalsAreDown
  <2> QED
    BY <1>1, <2>2 DEF Removals
<1>3. CASE NewConnection
  <2>1. /\ n < MaxConns /\ given' = Append(given, NextLoop) /\ NextLoop \in AllLoops
        /\ n + 1 \in Conns /\ connections_' = connections_ \cup {n + 1}
        /\ server' = server /\ server = "started"
    <3>1. /\ n < MaxConns /\ given' = Append(given, NextLoop)
          /\ connections_' = connections_ \cup {n + 1}
          /\ server' = server /\ phase[baseLoop_] = "events"
      BY <1>3 DEF NewConnection, GetNextLoop
    <3>2. n + 1 \in Conns
      BY <1>0, <3>1 DEF Conns
    <3>3. NextLoop \in AllLoops
      BY <1>0, LoopsAre
    <3>4. server = "started"
      BY <3>1 DEF Phases
    <3> QED
      BY <3>1, <3>2, <3>3, <3>4, Zenon
  <2>2. state_[n + 1] = "kConnecting" /\ n + 1 \notin destroyed
    <3>1. Lives
      BY <1>0
    <3>2. n \in Nat /\ n + 1 \in Conns
      BY <1>0, <2>1
    <3>3. n + 1 > n
      BY <3>2
    <3>4. state_[n + 1] = "kConnecting"
      BY <3>1, <3>2, <3>3 DEF Lives
    <3> QED
      BY <3>1, <3>2, <3>4 DEF Lives
  <2>3. Downs(queue, connections_', destroyed, given')
    BY <1>0, <1>1, <2>1, <2>2, DownsGiven
  <2>4. given' \in Seq(AllLoops) /\ Len(given') = n + 1
    BY <1>0, <2>1
  <2>5. /\ destroyed' = destroyed
        /\ \A c \in 1..n : state_'[c] = state_[c]
    <3>1. CASE ConnectEstablished(n + 1)
      BY <1>0, <2>1, <3>1 DEF ConnectEstablished
    <3>2. CASE UNCHANGED connVars
      BY <3>2 DEF connVars
    <3> QED
      BY <1>3, <3>1, <3>2 DEF NewConnection
  <2>6. GoneAreDown'
    <3> SUFFICES ASSUME NEW c \in 1..Len(given'), c \notin connections_'
                 PROVE  state_'[c] = "kDisconnected"
      BY DEF GoneAreDown
    <3>1. c \in 1..n /\ c \notin connections_
      BY <1>0, <2>1, <2>4
    <3> QED
      BY <1>1, <2>1, <2>5, <3>1 DEF GoneAreDown
  <2>7. Removals(queue, state_', connections_', server')
    BY <1>2, <2>1, <2>5
  <2>8. CASE UNCHANGED queue
    BY <2>3, <2>5, <2>6, <2>7, <2>8 DEF Held
  <2>9. CASE queue' = Queued(queue, NextLoop, Functor("connectEstablished", n + 1))
    <3> DEFINE f == Functor("connectEstablished", n + 1)
    <3>1. f \in Functors /\ ~IsDown(f) /\ ~IsRemoval(f)
      BY <2>1, FunctorIs DEF IsDown, IsRemoval
    <3> HIDE DEF f
    <3>2. Downs(Queued(queue, NextLoop, f), connections_', destroyed, given')
      BY <1>0, <2>1, <2>3, <2>4, <3>1, DownsQueued
    <3>3. Removals(Queued(queue, NextLoop, f), state_', connections_', server')
      BY <1>0, <2>1, <2>7, <3>1, RemovalsQueued
    <3> QED
      BY <2>5, <2>6, <2>9, <3>2, <3>3 DEF Held, f
  <2> QED
    BY <1>3, <2>8, <2>9 DEF NewConnection
<1>4. ASSUME NEW c \in 1..Len(given), HandleClose(c) PROVE Held'
  <2>1. /\ c \in Conns /\ given' = given /\ server' = server /\ destroyed' = destroyed
        /\ state_' = [state_ EXCEPT ![c] = "kDisconnected"]
        /\ state_[c] \in {"kConnected", "kDisconnecting"}
        /\ phase[given[c]] = "events"
    BY <1>0, <1>4 DEF HandleClose, poolVars
  <2>2. server \in {"constructed", "started"} => c \in connections_
    BY <1>1, <2>1 DEF GoneAreDown
  <2>3. \A i \in 1..Len(queue[baseLoop_]) :
          IsRemoval(queue[baseLoop_][i]) => queue[baseLoop_][i].conn # c
    BY <1>1, <2>1 DEF Removals, RemovalsAreDown
  <2>4. \A d \in 1..n : state_[d] = "kDisconnected" => state_'[d] = "kDisconnected"
    BY <1>0, <2>1
  <2>5. CASE given[c] = baseLoop_ /\ RemoveConnectionInLoop(c, queue)
    <3> DEFINE f == Functor("connectDestroyed", c)
    <3>1. f \in Functors /\ IsDown(f) /\ ~IsRemoval(f) /\ f.conn = c
      BY <2>1, FunctorIs DEF IsDown, IsRemoval
    <3>2. /\ queue' = Queued(queue, given[c], f) /\ connections_' = connections_ \ {c}
          /\ server = "started" /\ c \in connections_
      BY <2>1, <2>2, <2>5 DEF RemoveConnectionInLoop, Phases
    <3> HIDE DEF f
    <3>3. Downs(queue', connections_', destroyed, given)
      BY <1>0, <1>1, <3>1, <3>2, DownsQueued
    <3>4. Removals(queue, state_', connections_', server)
      BY <1>2, <2>1, <2>4, <3>2
    <3>5. Removals(queue', state_', connections_', server)
      BY <1>0, <3>1, <3>2, <3>4, RemovalsQueued
    <3>6. GoneAreDown'
      BY <1>0, <1>1, <2>1, <2>4, <3>2 DEF GoneAreDown
    <3> QED
      BY <2>1, <3>3, <3>5, <3>6 DEF Held
  <2>6. CASE /\ queue' = Queued(queue, baseLoop_, Functor("removeConnection", c))
             /\ UNCHANGED connections_
    <3> DEFINE f == Functor("removeConnection", c)
    <3>1. f \in Functors /\ ~IsDown(f) /\ IsRemoval(f) /\ f.conn = c
      BY <2>1, FunctorIs DEF IsDown, IsRemoval
    <3>2. queue' = Queued(queue, baseLoop_, f) /\ connections_' = connections_
      BY <2>6
    <3> HIDE DEF f
    <3>3. Downs(queue', connections_, destroyed, given)
      BY <1>0, <1>1, <3>1, <3>2, DownsQueued
    <3>4. Removals(queue, state_', connections_, server)
      BY <1>2, <2>4
    <3>7. \A i \in 1..Len(queue[baseLoop_]) : queue[baseLoop_][i] # f
      BY <2>3, <3>1
    <3>5. Removals(queue', state_', connections_, server)
      BY <1>0, <2>1, <2>2, <3>1, <3>2, <3>4, <3>7, RemovalsQueued
    <3>6. GoneAreDown'
      BY <1>0, <1>1, <2>1, <2>4, <3>2 DEF GoneAreDown
    <3> QED
      BY <2>1, <3>2, <3>3, <3>5, <3>6 DEF Held
  <2> QED
    BY <1>4, <2>5, <2>6 DEF HandleClose, RemoveConnection
<1>5. ASSUME NEW c \in connections_, DestroyConnection(c) PROVE Held'
  <2>1. /\ c \in 1..n /\ c \in Conns /\ given' = given /\ server = "destroying"
        /\ server' = server /\ connections_' = connections_ \ {c}
    BY <1>0, <1>5 DEF DestroyConnection, poolVars, Pool
  <2>2. GoneAreDown'
    BY <2>1 DEF GoneAreDown
  <2>3. CASE ConnectDestroyed(c) /\ UNCHANGED queue
    <3>1. /\ destroyed' = destroyed \cup {c}
          /\ \A d \in 1..n : state_[d] = "kDisconnected" => state_'[d] = "kDisconnected"
      BY <1>0, <2>1, <2>3 DEF ConnectDestroyed
    <3>2. Downs(queue, connections_', destroyed', given)
      <4>1. connections_' \cup destroyed' = connections_ \cup destroyed
        BY <2>1, <3>1
      <4>2. connections_' \cap destroyed' = {}
        BY <1>1, <2>1, <3>1 DEF Downs
      <4> QED
        BY <1>1, <4>1, <4>2 DEF Downs, DownsAreOut, DownIsComing
    <3>3. Removals(queue, state_', connections_', server)
      BY <1>2, <2>1, <3>1
    <3> QED
      BY <2>1, <2>2, <2>3, <3>2, <3>3 DEF Held
  <2>4. CASE /\ queue' = Queued(queue, given[c], Functor("connectDestroyed", c))
             /\ UNCHANGED connVars
    <3> DEFINE f == Functor("connectDestroyed", c)
    <3>1. f \in Functors /\ IsDown(f) /\ ~IsRemoval(f) /\ f.conn = c
      BY <2>1, FunctorIs DEF IsDown, IsRemoval
    <3>2. queue' = Queued(queue, given[c], f) /\ UNCHANGED <<state_, destroyed>>
      BY <2>4 DEF connVars
    <3> HIDE DEF f
    <3>3. Downs(queue', connections_', destroyed, given)
      BY <1>0, <1>1, <2>1, <3>1, <3>2, DownsQueued
    <3>4. Removals(queue, state_, connections_', server)
      BY <1>2, <2>1
    <3>5. Removals(queue', state_, connections_', server)
      BY <1>0, <2>1, <3>1, <3>2, <3>4, RemovalsQueued
    <3> QED
      BY <2>1, <2>2, <3>2, <3>3, <3>5 DEF Held
  <2> QED
    BY <1>5, <2>3, <2>4 DEF DestroyConnection
<1>6. ASSUME NEW l \in Loops, RunFunctor(l) PROVE Held'
  <2> DEFINE f == Head(queue[l])
             rest == Popped(queue, l)
             dest == IF IsDown(f) THEN destroyed \cup {f.conn} ELSE destroyed
             conns == IF l = baseLoop_ /\ IsRemoval(f) THEN connections_ \ {f.conn}
                                                       ELSE connections_
  <2>1. /\ l \in AllLoops /\ given' = given /\ server' = server /\ phase[l] = "functors"
        /\ batch[l] > 0 /\ batch[l] <= Len(queue[l]) /\ batch[l] \in Nat
    BY <1>0, <1>6 DEF RunFunctor, poolVars, Queues
  <2>2. queue[l] # <<>> /\ 1 \in 1..Len(queue[l])
    BY <1>0, <2>1
  <2>3. /\ rest \in [AllLoops -> Seq(Functors)]
        /\ f = queue[l][1] /\ f \in Functors
    BY <1>0, <2>1, <2>2, PoppedIs
  <2>4. Downs(rest, connections_, dest, given)
    BY <1>0, <1>1, <2>1, <2>2, DownsPopped
  <2>5. Removals(rest, state_, conns, server)
    BY <1>0, <1>1, <2>1, <2>2, RemovalsPopped
  <2>6. f.conn \in 1..n /\ f.conn \in Conns /\ (IsRemoval(f) => l = baseLoop_)
    BY <1>0, <2>1, <2>2, <2>3 DEF Closures, IsRemoval
  <2>7. \/ f.op = "connectEstablished" /\ ConnectEstablished(f.conn) /\ queue' = rest
           /\ UNCHANGED connections_
        \/ /\ f.op = "removeConnection" /\ RemoveConnectionInLoop(f.conn, rest)
           /\ UNCHANGED connVars
        \/ f.op = "connectDestroyed" /\ ConnectDestroyed(f.conn) /\ queue' = rest
           /\ UNCHANGED connections_
    BY <1>6 DEF RunFunctor, Popped
  <2>8. Closures(rest, n)
    BY <1>0, <2>1, <2>2, PoppedClosures
  <2>9. IsUp(f) => state_[f.conn] = "kConnecting"
    BY <1>0, <2>1, <2>2, <2>3 DEF UpsAreConnecting, Connecting
  <2>10. ASSUME IsRemoval(f)
         PROVE  server = "started" /\ f.conn \in connections_ /\ state_[f.conn] = "kDisconnected"
    <3>1. server = "started"
      BY <2>1, <2>6, <2>10 DEF Phases
    <3> QED
      BY <1>1, <2>2, <2>3, <2>6, <2>10, <3>1 DEF Removals, RemovalsAreDown
  <2> HIDE DEF f, rest
  \* The states change, and Removals of rest stays.
  <2>11. ASSUME NEW st, \A d \in 1..n : state_[d] = "kDisconnected" => st[d] = "kDisconnected"
         PROVE  Removals(rest, st, conns, server)
    <3>1. \A i \in 1..Len(rest[baseLoop_]) : rest[baseLoop_][i].conn \in 1..n
      BY <1>0, <2>8 DEF Closures
    <3>2. RemovalsAreDown(rest, st, conns, server)
      BY <2>5, <2>11, <3>1 DEF Removals, RemovalsAreDown
    <3> QED
      BY <2>5, <3>2 DEF Removals
  <2>12. CASE f.op = "connectEstablished" /\ ConnectEstablished(f.conn) /\ queue' = rest
              /\ UNCHANGED connections_
    <3>1. IsUp(f) /\ ~IsDown(f) /\ ~IsRemoval(f)
      BY <2>12 DEF IsUp, IsDown, IsRemoval
    <3>2. /\ state_' = [state_ EXCEPT ![f.conn] = "kConnected"] /\ destroyed' = destroyed
          /\ state_[f.conn] = "kConnecting"
      BY <2>9, <2>12, <3>1 DEF ConnectEstablished
    <3>3. \A d \in 1..n : state_[d] = "kDisconnected" => state_'[d] = "kDisconnected"
      BY <1>0, <2>6, <3>2
    <3>4. Removals(rest, state_', connections_, server)
      BY <2>11, <3>1, <3>3
    <3>5. Downs(rest, connections_, destroyed, given)
      BY <2>4, <3>1
    <3>6. GoneAreDown'
      BY <1>1, <2>1, <2>12, <3>3 DEF GoneAreDown
    <3> QED
      BY <2>1, <2>12, <3>2, <3>4, <3>5, <3>6 DEF Held
  <2>13. CASE /\ f.op = "removeConnection" /\ RemoveConnectionInLoop(f.conn, rest)
              /\ UNCHANGED connVars
    <3> DEFINE g == Functor("connectDestroyed", f.conn)
    <3>1. ~IsDown(f) /\ IsRemoval(f)
      BY <2>13 DEF IsDown, IsRemoval
    <3>2. g \in Functors /\ IsDown(g) /\ ~IsRemoval(g) /\ g.conn = f.conn
      BY <2>6, FunctorIs DEF IsDown, IsRemoval
    <3>3. /\ queue' = Queued(rest, given[f.conn], g) /\ connections_' = connections_ \ {f.conn}
          /\ UNCHANGED <<state_, destroyed>> /\ conns = connections_'
          /\ f.conn \in connections_ /\ state_[f.conn] = "kDisconnected"
      BY <2>6, <2>10, <2>13, <3>1 DEF RemoveConnectionInLoop, connVars
    <3> HIDE DEF g, conns
    <3>4. Downs(rest, connections_, destroyed, given)
      BY <2>4, <3>1
    <3>9. given[f.conn] \in AllLoops
      BY <1>0, <2>6
    <3>5. Downs(queue', connections_', destroyed, given)
      BY <1>0, <2>3, <2>6, <3>2, <3>3, <3>4, <3>9, DownsQueued
    <3>6. Removals(rest, state_, connections_', server)
      BY <2>5, <3>3
    <3>7. Removals(queue', state_, connections_', server)
      BY <2>3, <3>2, <3>3, <3>6, <3>9, RemovalsQueued
    <3>8. GoneAreDown'
      BY <1>1, <2>1, <3>3 DEF GoneAreDown
    <3> QED
      BY <2>1, <3>3, <3>5, <3>7, <3>8 DEF Held
  <2>14. CASE f.op = "connectDestroyed" /\ ConnectDestroyed(f.conn) /\ queue' = rest
              /\ UNCHANGED connections_
    <3>1. IsDown(f) /\ ~IsRemoval(f)
      BY <2>14 DEF IsDown, IsRemoval
    <3>2. /\ destroyed' = destroyed \cup {f.conn}
          /\ \A d \in 1..n : state_[d] = "kDisconnected" => state_'[d] = "kDisconnected"
      BY <1>0, <2>6, <2>14 DEF ConnectDestroyed
    <3>3. Downs(rest, connections_, destroyed', given)
      BY <2>4, <3>1, <3>2
    <3>4. Removals(rest, state_', connections_, server)
      BY <2>11, <3>1, <3>2
    <3>5. GoneAreDown'
      BY <1>1, <2>1, <2>14, <3>2 DEF GoneAreDown
    <3> QED
      BY <2>1, <2>14, <3>3, <3>4, <3>5 DEF Held
  <2> QED
    BY <2>7, <2>12, <2>13, <2>14
<1>7. ASSUME NEW c \in 1..Len(given), Shutdown(c) PROVE Held'
  <2>1. /\ c \in Conns /\ state_[c] = "kConnected"
        /\ state_' = [state_ EXCEPT ![c] = "kDisconnecting"]
        /\ UNCHANGED <<given, queue, connections_, destroyed, server>>
    BY <1>0, <1>7 DEF Shutdown, poolVars, loopVars
  <2>2. \A d \in 1..n : state_[d] = "kDisconnected" => state_'[d] = "kDisconnected"
    BY <1>0, <2>1
  <2>3. Removals(queue, state_', connections_, server)
    BY <1>2, <2>2
  <2>4. GoneAreDown'
    BY <1>1, <2>1, <2>2 DEF GoneAreDown
  <2> QED
    BY <1>1, <2>1, <2>3, <2>4 DEF Held
<1>8. CASE Start
  <2>1. /\ server = "constructed" /\ server' = "started" /\ n = 0
        /\ UNCHANGED <<given, queue, connections_, destroyed, state_>>
    BY <1>8 DEF Start, PoolStart, loopVars, connVars, Pool
  <2>2. Removals(queue, state_, connections_, "started")
    <3>1. \A i \in 1..Len(queue[baseLoop_]) : FALSE
      BY <1>0, <2>1 DEF Closures
    <3> QED
      BY <3>1 DEF Removals, RemovalsAreDown, RemovalOnce
  <2>3. GoneAreDown'
    BY <2>1 DEF GoneAreDown
  <2> QED
    BY <1>1, <2>1, <2>2, <2>3 DEF Held
<1>9. CASE DestroyServer \/ Destroyed
  <2>1. /\ server' \in {"destroying", "gone"}
        /\ UNCHANGED <<given, queue, connections_, destroyed, state_>>
    BY <1>9 DEF DestroyServer, Destroyed, poolVars, loopVars, connVars
  <2>2. Removals(queue, state_, connections_, server')
    BY <1>2, <2>1
  <2>3. GoneAreDown'
    BY <2>1 DEF GoneAreDown
  <2> QED
    BY <1>1, <2>1, <2>2, <2>3 DEF Held
<1>10. ASSUME UNCHANGED <<given, queue, connections_, destroyed, state_, server>> PROVE Held'
  BY <1>1, <1>10 DEF Held, GoneAreDown
<1>11. ASSUME \/ \E k \in 0..MaxThreads : SetThreads(k)
              \/ BaseQuit \/ (\E m \in Loops : EnterLoop(m)) \/ Client \/ NoConnection
              \/ \E l \in Loops : DoPendingFunctors(l) \/ PendingFunctorsDone(l)
              \/ \E i \in 1..Len(loops_) : QuitThread(i)
              \/ UNCHANGED serverVars
       PROVE  UNCHANGED <<given, queue, connections_, destroyed, state_, server>>
  BY <1>11 DEF SetThreads, SetThreadNum, EnterLoop, BaseQuit, Client, NoConnection,
               DoPendingFunctors, PendingFunctorsDone, QuitThread, PoolJoins, serverVars, poolVars,
               loopVars, connVars
<1> QED
  BY <1>3, <1>4, <1>5, <1>6, <1>7, <1>8, <1>9, <1>10, <1>11, ServerSteps

\* Whatever connections_ no longer holds is down, and has at most one closure left that
\* holds it: Held, the last layer.
THEOREM HeldInductive == ServerSpec => []Held
<1>1. ASSUME ServerInit PROVE Held
  <2>0. baseLoop_ \in AllLoops
    BY PoolAssumption DEF AllLoops, baseLoop_
  <2>1. \A l \in AllLoops : queue[l] = <<>> /\ Len(queue[l]) = 0
    BY <1>1 DEF ServerInit
  <2>2. /\ given = <<>> /\ Len(given) = 0 /\ connections_ = {} /\ destroyed = {}
    BY <1>1 DEF ServerInit, PoolInit
  <2>3. Downs(queue, connections_, destroyed, given)
    BY <2>1, <2>2 DEF Downs, DownsAreOut, DownOnce, DownIsComing
  <2>4. Removals(queue, state_, connections_, server)
    BY <2>0, <2>1 DEF Removals, RemovalsAreDown, RemovalOnce
  <2>5. GoneAreDown
    BY <2>2 DEF GoneAreDown
  <2> QED
    BY <2>3, <2>4, <2>5 DEF Held
<1>2. ASSUME LifeInv, Queues, Told, Held, [ServerNext]_serverVars PROVE Held'
  BY <1>2, HeldStep DEF LifeInv
<1> QED
  BY <1>1, <1>2, LifeInductive, QueuesInductive, ToldInductive, PTL DEF ServerSpec

\* What waits on loop l.
LEMMA WaitingIs ==
  ASSUME NEW l \in AllLoops, queue \in [AllLoops -> Seq(Functors)], NEW f
  PROVE  Waiting(l, f) = {i \in 1..Len(queue[l]) : queue[l][i] = f}
<1>1. DOMAIN queue[l] = 1..Len(queue[l])
  OBVIOUS
<1> QED
  BY <1>1 DEF Waiting

\* A connection is in connections_, on its way out with connectDestroyed queued, or
\* destroyed: in exactly one of these, and once.
THEOREM HeldInOnePlace == ServerSpec => []HeldOnce
<1>1. ASSUME Pool, Queues, Held PROVE HeldOnce
  <2> SUFFICES ASSUME NEW c \in 1..Len(given)
               PROVE  LET dying == Waiting(given[c], Functor("connectDestroyed", c))
                      IN  \/ c \in connections_ /\ dying = {} /\ c \notin destroyed
                          \/ /\ c \notin connections_ /\ (\E i \in dying : dying = {i})
                             /\ c \notin destroyed
                          \/ c \notin connections_ /\ dying = {} /\ c \in destroyed
    BY DEF HeldOnce
  <2> DEFINE f == Functor("connectDestroyed", c)
             l == given[c]
             dying == Waiting(l, f)
  <2>1. l \in AllLoops /\ queue \in [AllLoops -> Seq(Functors)]
    BY <1>1, LoopsAre, SMTT(30) DEF Pool, Queues, Closures
  <2>2. dying = {i \in 1..Len(queue[l]) : queue[l][i] = f}
    BY <2>1, WaitingIs
  <2>3. IsDown(f) /\ f.conn = c
    BY DEF IsDown, Functor
  <2>4. c \in connections_ \cup destroyed => dying = {}
    BY <1>1, <2>1, <2>2, <2>3 DEF Held, Downs, DownsAreOut
  <2>5. c \notin connections_ \cup destroyed => \E i \in dying : TRUE
    BY <1>1, <2>1, <2>2 DEF Held, Downs, DownIsComing
  <2>6. \A i, j \in dying : i = j
    BY <1>1, <2>1, <2>2, <2>3 DEF Held, Downs, DownOnce
  <2>7. ~(c \in connections_ /\ c \in destroyed)
    BY <1>1 DEF Held, Downs
  <2> HIDE DEF f, l, dying
  <2>8. \/ c \in connections_ /\ dying = {} /\ c \notin destroyed
        \/ c \notin connections_ /\ (\E i \in dying : dying = {i}) /\ c \notin destroyed
        \/ c \notin connections_ /\ dying = {} /\ c \in destroyed
    BY <2>4, <2>5, <2>6, <2>7
  <2> QED
    BY <2>8 DEF f, l, dying
<1> QED
  BY <1>1, LifeInductive, QueuesInductive, HeldInductive, PTL DEF LifeInv

\* When the server is gone, a connection that came up and was not seen to go down is one
\* the user had shut down, or one whose connectDestroyed its loop did not run any more.
THEOREM WhoMissesItsDown == ServerSpec => []MissedDowns
<1>1. ASSUME Pool, Phases, Queues, Told, HeldOnce PROVE MissedDowns
  <2> SUFFICES ASSUME server = "gone", NEW c \in 1..Len(given), callbacks[c] = <<"up">>,
                      Waiting(given[c], Functor("connectDestroyed", c)) = {}
               PROVE  state_[c] = "kDisconnecting"
    BY DEF MissedDowns
  <2>1. c \in Conns
    BY <1>1, PoolAssumption DEF Pool, Conns
  <2>2. connections_ = {}
    BY <1>1 DEF Phases
  <2>3. c \in destroyed
    BY <1>1, <2>2 DEF HeldOnce
  <2>4. state_[c] \in {"kDisconnecting", "kDisconnected"}
    BY <1>1, <2>1, <2>3 DEF Told, Lives
  <2>5. state_[c] = "kDisconnected" => callbacks[c] = <<"up", "down">>
    BY <1>1, <2>1 DEF Told, Lives
  <2>6. <<"up">> # <<"up", "down">>
    <3>1. Len(<<"up">>) # Len(<<"up", "down">>)
      OBVIOUS
    <3> QED
      BY <3>1
  <2> QED
    BY <2>4, <2>5, <2>6
<1> QED
  BY <1>1, LifeInductive, QueuesInductive, ToldInductive, HeldInOnePlace, PTL DEF LifeInv

--------------------------------------------------------------------------
(* Each connection lives as Connection does.                                 *)

\* Is the closing of connection c told to the base loop?
Closing(q, c) ==
  \E i \in 1..Len(q[baseLoop_]) : q[baseLoop_][i] = Functor("removeConnection", c)

PlaceIn(q, conns, n, c) ==
  IF c \in conns \/ c > n THEN IF Closing(q, c) THEN "told" ELSE "has" ELSE "left"

\* Place, now and after the step, from the queue of the base loop.
LEMMA PlaceIs ==
  ASSUME Queues, Queues', NEW c \in Conns
  PROVE  /\ Place(c) = PlaceIn(queue, connections_, Len(given), c)
         /\ Place(c)' = PlaceIn(queue', connections_', Len(given'), c)
<1> DEFINE f == Functor("removeConnection", c)
<1>0. baseLoop_ \in AllLoops
  BY PoolAssumption DEF AllLoops, baseLoop_
<1>1. /\ Waiting(baseLoop_, f) = {i \in 1..Len(queue[baseLoop_]) : queue[baseLoop_][i] = f}
  BY <1>0, WaitingIs DEF Queues, Closures
<1>2. Waiting(baseLoop_, f)' = {i \in 1..Len(queue'[baseLoop_]) : queue'[baseLoop_][i] = f}
  <2>1. DOMAIN queue'[baseLoop_] = 1..Len(queue'[baseLoop_])
    BY <1>0 DEF Queues, Closures
  <2> QED
    BY <2>1 DEF Waiting
<1>3. Waiting(baseLoop_, f) = {} <=> ~Closing(queue, c)
  BY <1>1 DEF Closing
<1>4. Waiting(baseLoop_, f)' = {} <=> ~Closing(queue', c)
  BY <1>2 DEF Closing
<1> QED
  BY <1>3, <1>4 DEF Place, PlaceIn

\* A closing is told by its own closure only.
LEMMA ClosingQueued ==
  ASSUME NEW q \in [AllLoops -> Seq(Functors)], NEW m \in AllLoops, NEW f \in Functors,
         NEW r, r = Queued(q, m, f), NEW c \in Conns
  PROVE  Closing(r, c) <=>
           Closing(q, c) \/ (m = baseLoop_ /\ f = Functor("removeConnection", c))
<1> DEFINE b == baseLoop_
           g == Functor("removeConnection", c)
<1>0. b \in AllLoops
  BY PoolAssumption DEF AllLoops, baseLoop_
<1>1. /\ \A i \in 1..Len(r[b]) : \/ i \in 1..Len(q[b]) /\ r[b][i] = q[b][i]
                                 \/ b = m /\ i = Len(q[m]) + 1 /\ r[b][i] = f
      /\ \A i \in 1..Len(q[b]) : i \in 1..Len(r[b]) /\ r[b][i] = q[b][i]
      /\ b = m => Len(q[m]) + 1 \in 1..Len(r[b]) /\ r[b][Len(q[m]) + 1] = f
  BY <1>0, QueuedFrom
<1> HIDE DEF b, g
<1>2. ASSUME NEW i \in 1..Len(r[b]), r[b][i] = g
      PROVE  (\E k \in 1..Len(q[b]) : q[b][k] = g) \/ (m = b /\ f = g)
  BY <1>1, <1>2
<1>3. ASSUME NEW i \in 1..Len(q[b]), q[b][i] = g
      PROVE  \E k \in 1..Len(r[b]) : r[b][k] = g
  BY <1>1, <1>3
<1>4. ASSUME m = b, f = g
      PROVE  \E k \in 1..Len(r[b]) : r[b][k] = g
  BY <1>1, <1>4
<1> QED
  BY <1>2, <1>3, <1>4 DEF Closing, b, g

\* Taking any other closure leaves a closing told or not told.
LEMMA ClosingPopped ==
  ASSUME NEW q \in [AllLoops -> Seq(Functors)], NEW m \in AllLoops, q[m] # <<>>,
         NEW r, r = Popped(q, m), NEW c \in Conns,
         m # baseLoop_ \/ Head(q[m]) # Functor("removeConnection", c)
  PROVE  Closing(r, c) <=> Closing(q, c)
<1> DEFINE b == baseLoop_
<1>0. b \in AllLoops
  BY PoolAssumption DEF AllLoops, baseLoop_
<1>1. /\ Len(q[m]) \in Nat \ {0} /\ Len(r[m]) = Len(q[m]) - 1
      /\ \A i \in 1..Len(r[m]) : i + 1 \in 1..Len(q[m]) /\ r[m][i] = q[m][i + 1]
      /\ Head(q[m]) = q[m][1]
      /\ \A k \in AllLoops : k # m => r[k] = q[k]
  BY PoppedIs
<1>2. CASE m # b
  BY <1>0, <1>1, <1>2 DEF Closing
<1>3. CASE m = b
  <2>1. ASSUME NEW i \in 1..Len(r[b]), r[b][i] = Functor("removeConnection", c)
        PROVE  Closing(q, c)
    <3>1. i + 1 \in 1..Len(q[b]) /\ r[b][i] = q[b][i + 1]
      BY <1>1, <1>3
    <3> QED
      BY <2>1, <3>1 DEF Closing
  <2>2. ASSUME NEW i \in 1..Len(q[b]), q[b][i] = Functor("removeConnection", c)
        PROVE  Closing(r, c)
    <3>1. i # 1
      BY <1>1, <1>3, <2>2
    <3>2. i - 1 \in 1..Len(r[b]) /\ (i - 1) + 1 = i
      BY <1>1, <1>3, <3>1
    <3>3. r[b][i - 1] = q[b][i]
      BY <1>1, <1>3, <3>2
    <3> QED
      BY <2>2, <3>2, <3>3 DEF Closing
  <2> QED
    BY <2>1, <2>2 DEF Closing
<1> QED
  BY <1>2, <1>3

\* Connection c sees nothing of a step that leaves its state and its place.
LEMMA SeesNothing ==
  ASSUME NEW c \in Conns, Queues, Queues',
         state_'[c] = state_[c], callbacks'[c] = callbacks[c],
         c \in destroyed' <=> c \in destroyed,
         Closing(queue', c) <=> Closing(queue, c),
         c \in connections_' \/ c > Len(given') <=> c \in connections_ \/ c > Len(given)
  PROVE  UNCHANGED Contract(c)!vars
<1>1. Place(c)' = Place(c)
  BY PlaceIs DEF PlaceIn
<1>2. (c \in destroyed)' = (c \in destroyed)
  OBVIOUS
<1> QED
  BY <1>1, <1>2 DEF Contract!vars

\* Every step of the server is, for each connection, a step of Connection or none.
LEMMA LiveStep ==
  ASSUME Pool, Phases, Queues, Queues', Told, Held, [ServerNext]_serverVars, NEW d \in Conns
  PROVE  [Contract(d)!Next]_(Contract(d)!vars)
<1> DEFINE n == Len(given)
           last == Functor("removeConnection", d)
<1>0. /\ given \in Seq(AllLoops) /\ n \in 0..MaxConns /\ MaxConns \in Nat
      /\ \A c \in 1..n : c \in Conns /\ given[c] \in AllLoops
      /\ Conns = 1..MaxConns
      /\ Closures(queue, n) /\ queue \in [AllLoops -> Seq(Functors)]
      /\ baseLoop_ \in AllLoops /\ Loops \subseteq AllLoops
      /\ state_ \in [Conns -> {"kConnecting", "kConnected", "kDisconnecting", "kDisconnected"}]
      /\ callbacks \in [Conns -> Seq({"up", "down"})]
      /\ connections_ \subseteq 1..n
  <2>1. n \in 0..MaxConns /\ MaxConns \in Nat /\ given \in Seq(Loops) /\ connections_ \subseteq 1..n
    BY PoolAssumption DEF Pool
  <2>2. Loops \subseteq AllLoops /\ baseLoop_ \in AllLoops
    BY LoopsAre
  <2>3. given \in Seq(AllLoops) /\ \A c \in 1..n : c \in Conns /\ given[c] \in AllLoops
    BY <2>1, <2>2 DEF Conns
  <2> QED
    BY <2>1, <2>2, <2>3 DEF Told, Lives, Queues, Closures, Conns
<1>1. /\ Place(d) = PlaceIn(queue, connections_, n, d)
      /\ Place(d)' = PlaceIn(queue', connections_', Len(given'), d)
  BY PlaceIs
\* The steps Connection takes.
<1>2. ASSUME state_[d] = "kConnecting", state_'[d] = "kConnected",
             callbacks'[d] = Append(callbacks[d], "up"),
             d \in destroyed' <=> d \in destroyed, Place(d)' = Place(d)
      PROVE  Contract(d)!Next
  <2>1. callbacks[d] = <<>> /\ Append(<<>>, "up") = <<"up">>
    BY <1>2 DEF Told, Lives
  <2>2. (d \in destroyed)' = (d \in destroyed)
    BY <1>2
  <2> QED
    BY <1>2, <2>1, <2>2 DEF Contract!Next, Contract!ComesUp
<1>3. ASSUME state_[d] # "kConnecting", d \notin destroyed, d \in destroyed', Place(d)' = "left",
             \/ /\ state_[d] = "kConnected" /\ state_'[d] = "kDisconnected"
                /\ callbacks'[d] = Append(callbacks[d], "down")
             \/ /\ state_[d] # "kConnected" /\ state_'[d] = state_[d]
                /\ callbacks'[d] = callbacks[d]
      PROVE  Contract(d)!Next
  <2>1. state_[d] = "kConnected" => callbacks[d] = <<"up">>
    BY DEF Told, Lives
  <2>2. (d \in destroyed) = FALSE /\ (d \in destroyed)' = TRUE
    BY <1>3
  <2> QED
    BY <1>3, <2>1, <2>2, UpAndDown DEF Contract!Next, Contract!IsDestroyed, Contract!GoesDown
<1>4. ASSUME Place(d) # "left", Place(d)' = "left", d \in destroyed' <=> d \in destroyed,
             state_'[d] = state_[d], callbacks'[d] = callbacks[d]
      PROVE  Contract(d)!Next
  <2>2. (d \in destroyed)' = (d \in destroyed)
    BY <1>4
  <2> QED
    BY <1>4, <2>2 DEF Contract!Next, Contract!Leaves
<1>5. CASE NewConnection
  <2>1. /\ n < MaxConns /\ Len(given') = n + 1 /\ NextLoop \in AllLoops /\ n + 1 \in Conns
        /\ connections_' = connections_ \cup {n + 1}
    <3>1. /\ n < MaxConns /\ given' = Append(given, NextLoop)
          /\ connections_' = connections_ \cup {n + 1}
      BY <1>5 DEF NewConnection, GetNextLoop
    <3>2. NextLoop \in AllLoops
      BY <1>0, LoopsAre
    <3> QED
      BY <1>0, <3>1, <3>2 DEF Conns
  <2>2. ~Closing(queue, n + 1)
    BY <1>0, <2>1 DEF Closing, Closures, Functor
  <2>3. Closing(queue', d) <=> Closing(queue, d)
    <3>1. CASE UNCHANGED queue
      BY <3>1
    <3>2. CASE queue' = Queued(queue, NextLoop, Functor("connectEstablished", n + 1))
      <4> DEFINE f == Functor("connectEstablished", n + 1)
      <4>1. f \in Functors /\ f # last /\ last = Functor("removeConnection", d)
        BY <2>1, FunctorIs
      <4>2. queue' = Queued(queue, NextLoop, f)
        BY <3>2
      <4> HIDE DEF f, last
      <4> QED
        BY <1>0, <2>1, <4>1, <4>2, ClosingQueued
    <3> QED
      BY <1>5, <3>1, <3>2 DEF NewConnection
  <2>4. state_[n + 1] = "kConnecting" /\ n + 1 > n
    BY <1>0, <2>1, SMTT(30) DEF Told, Lives
  <2>5. \/ d = n + 1 /\ ConnectEstablished(n + 1)
        \/ d # n + 1 /\ ConnectEstablished(n + 1)
        \/ UNCHANGED connVars
    BY <1>5 DEF NewConnection
  <2>6. d \in connections_' \/ d > Len(given') <=> d \in connections_ \/ d > n
    BY <1>0, <2>1
  <2>7. CASE d = n + 1 /\ ConnectEstablished(n + 1)
    <3>1. /\ state_'[d] = "kConnected" /\ destroyed' = destroyed
          /\ callbacks'[d] = Append(callbacks[d], "up")
      BY <1>0, <2>7 DEF ConnectEstablished, Saw
    <3>2. Place(d)' = Place(d)
      BY <1>1, <2>3, <2>6 DEF PlaceIn
    <3> QED
      BY <1>2, <2>4, <2>7, <3>1, <3>2
  <2>8. CASE (d # n + 1 /\ ConnectEstablished(n + 1)) \/ UNCHANGED connVars
    <3>1. state_'[d] = state_[d] /\ destroyed' = destroyed /\ callbacks'[d] = callbacks[d]
      BY <1>0, <2>8 DEF ConnectEstablished, Saw, connVars
    <3> QED
      BY <2>3, <2>6, <3>1, SeesNothing
  <2> QED
    BY <2>5, <2>7, <2>8
<1>6. ASSUME NEW c \in 1..Len(given), HandleClose(c)
      PROVE  [Contract(d)!Next]_(Contract(d)!vars)
  <2>1. /\ c \in Conns /\ given' = given /\ destroyed' = destroyed
        /\ state_' = [state_ EXCEPT ![c] = "kDisconnected"]
        /\ callbacks' = [callbacks EXCEPT ![c] = Append(@, "down")]
        /\ state_[c] \in {"kConnected", "kDisconnecting"}
        /\ c \notin destroyed
    BY <1>0, <1>6 DEF HandleClose, poolVars, Saw
  <2>2. /\ d # c => (Closing(queue', d) <=> Closing(queue, d))
        /\ \/ connections_' = connections_ \ {c}
           \/ connections_' = connections_ /\ (d = c => Closing(queue', d))
    <3>1. CASE /\ queue' = Queued(queue, given[c], Functor("connectDestroyed", c))
               /\ connections_' = connections_ \ {c}
      <4> DEFINE f == Functor("connectDestroyed", c)
      <4>1. f \in Functors /\ f # last
        BY <2>1, FunctorIs
      <4>2. queue' = Queued(queue, given[c], f) /\ last = Functor("removeConnection", d)
        BY <3>1
      <4>3. given[c] \in AllLoops /\ queue \in [AllLoops -> Seq(Functors)]
        BY <1>0
      <4> HIDE DEF f, last, n
      <4>4. Closing(queue', d) <=> Closing(queue, d) \/ (given[c] = baseLoop_ /\ f = last)
        BY <4>1, <4>2, <4>3, ClosingQueued
      <4> QED
        BY <3>1, <4>1, <4>4
    <3>2. CASE /\ queue' = Queued(queue, baseLoop_, Functor("removeConnection", c))
               /\ connections_' = connections_
      <4> DEFINE f == Functor("removeConnection", c)
      <4>1. f \in Functors /\ (f = last <=> d = c)
        BY <2>1, FunctorIs
      <4>2. queue' = Queued(queue, baseLoop_, f) /\ last = Functor("removeConnection", d)
        BY <3>2
      <4>3. baseLoop_ \in AllLoops /\ queue \in [AllLoops -> Seq(Functors)]
        BY <1>0
      <4> HIDE DEF f, last, n
      <4>4. Closing(queue', d) <=> Closing(queue, d) \/ f = last
        BY <4>1, <4>2, <4>3, ClosingQueued
      <4> QED
        BY <3>2, <4>1, <4>4
    <3> QED
      BY <1>6, <3>1, <3>2 DEF HandleClose, RemoveConnection, RemoveConnectionInLoop
  <2>3. CASE d # c
    <3>1. /\ state_'[d] = state_[d] /\ callbacks'[d] = callbacks[d]
          /\ d \in connections_' <=> d \in connections_
      BY <1>0, <2>1, <2>2, <2>3
    <3> QED
      BY <2>1, <2>2, <2>3, <3>1, SeesNothing
  <2>4. CASE d = c
    <3>1. /\ state_'[d] = "kDisconnected" /\ callbacks'[d] = Append(callbacks[d], "down")
          /\ callbacks[d] = <<"up">>
      BY <1>0, <2>1, <2>4 DEF Told, Lives
    <3>2. Place(d)' \in IF Place(d) = "left" THEN {"left"} ELSE {"told", "left"}
      BY <1>0, <1>1, <2>1, <2>2, <2>4 DEF PlaceIn
    <3>3. (d \in destroyed)' = (d \in destroyed) /\ (d \in destroyed) = FALSE
      BY <2>1, <2>4
    <3> QED
      BY <2>1, <2>4, <3>1, <3>2, <3>3, UpAndDown
      DEF Contract!Next, Contract!Closes, Contract!GoesDown
  <2> QED
    BY <2>3, <2>4
<1>7. ASSUME NEW c \in connections_, DestroyConnection(c)
      PROVE  [Contract(d)!Next]_(Contract(d)!vars)
  <2>1. /\ c \in 1..n /\ c \in Conns /\ given' = given
        /\ connections_' = connections_ \ {c} /\ c \notin destroyed
    BY <1>0, <1>7 DEF DestroyConnection, poolVars, Held, Downs
  <2>2. Closing(queue', d) <=> Closing(queue, d)
    <3>1. CASE UNCHANGED queue
      BY <3>1
    <3>2. CASE queue' = Queued(queue, given[c], Functor("connectDestroyed", c))
      <4> DEFINE f == Functor("connectDestroyed", c)
      <4>1. f \in Functors /\ f # last /\ last = Functor("removeConnection", d)
        BY <2>1, FunctorIs
      <4>2. queue' = Queued(queue, given[c], f)
        BY <3>2
      <4>3. given[c] \in AllLoops /\ queue \in [AllLoops -> Seq(Functors)]
        BY <1>0, <2>1
      <4> HIDE DEF f, last, n
      <4> QED
        BY <4>1, <4>2, <4>3, ClosingQueued
    <3> QED
      BY <1>7, <3>1, <3>2 DEF DestroyConnection
  <2>3. CASE d # c
    <3>1. /\ state_'[d] = state_[d] /\ callbacks'[d] = callbacks[d]
          /\ d \in connections_' <=> d \in connections_
          /\ d \in destroyed' <=> d \in destroyed
      BY <1>0, <1>7, <2>1, <2>3 DEF DestroyConnection, ConnectDestroyed, Saw, connVars
    <3> QED
      BY <2>1, <2>2, <3>1, SeesNothing
  <2>4. CASE d = c
    <3>1. Place(d) # "left" /\ Place(d)' = "left"
      BY <1>0, <1>1, <2>1, <2>4 DEF PlaceIn
    <3>2. CASE given[c] = baseLoop_ /\ ConnectDestroyed(c)
      <4>1. state_[c] # "kConnecting"
        <5> SUFFICES ASSUME state_[c] = "kConnecting" PROVE FALSE
          OBVIOUS
        <5>1. c \in Connecting
          BY <1>0, <2>1 DEF Connecting
        <5>2. PICK k \in 1..Len(queue[baseLoop_]) :
                queue[baseLoop_][k] = Functor("connectEstablished", c)
          BY <2>1, <3>2, <5>1 DEF Told, InOrderOfLife, UpIsComing
        <5>3. IsUp(queue[baseLoop_][k])
          BY <5>2 DEF IsUp, Functor
        <5> QED
          BY <1>0, <5>3 DEF Told, InOrderOfLife, UpsAreConnecting
      <4>2. /\ d \in destroyed'
            /\ \/ /\ state_[d] = "kConnected" /\ state_'[d] = "kDisconnected"
                  /\ callbacks'[d] = Append(callbacks[d], "down")
               \/ /\ state_[d] # "kConnected" /\ state_'[d] = state_[d]
                  /\ callbacks'[d] = callbacks[d]
        BY <1>0, <2>1, <2>4, <3>2 DEF ConnectDestroyed, Saw
      <4> QED
        BY <1>3, <2>1, <2>4, <3>1, <4>1, <4>2
    <3>3. CASE UNCHANGED connVars
      <4>1. state_' = state_ /\ callbacks' = callbacks /\ destroyed' = destroyed
        BY <3>3 DEF connVars
      <4> QED
        BY <1>4, <3>1, <4>1
    <3> QED
      BY <1>7, <3>2, <3>3 DEF DestroyConnection
  <2> QED
    BY <2>3, <2>4
<1>8. ASSUME NEW l \in Loops, RunFunctor(l)
      PROVE  [Contract(d)!Next]_(Contract(d)!vars)
  <2> DEFINE f == Head(queue[l])
             rest == Popped(queue, l)
  <2>1. /\ l \in AllLoops /\ given' = given /\ phase[l] = "functors"
        /\ batch[l] > 0 /\ batch[l] <= Len(queue[l]) /\ batch[l] \in Nat
    BY <1>0, <1>8 DEF RunFunctor, poolVars, Queues
  <2>2. queue[l] # <<>> /\ 1 \in 1..Len(queue[l])
    BY <1>0, <2>1
  <2>3. /\ rest \in [AllLoops -> Seq(Functors)]
        /\ f = queue[l][1] /\ f \in Functors
    BY <1>0, <2>1, <2>2, PoppedIs
  <2>4. f.conn \in 1..n /\ f.conn \in Conns /\ (IsRemoval(f) => l = baseLoop_)
    BY <1>0, <2>1, <2>2, <2>3 DEF Closures, IsRemoval
  <2>5. \/ /\ f.op = "connectEstablished" /\ ConnectEstablished(f.conn) /\ queue' = rest
           /\ UNCHANGED connections_
        \/ /\ f.op = "removeConnection" /\ RemoveConnectionInLoop(f.conn, rest)
           /\ UNCHANGED connVars
        \/ /\ f.op = "connectDestroyed" /\ ConnectDestroyed(f.conn) /\ queue' = rest
           /\ UNCHANGED connections_
    BY <1>8 DEF RunFunctor, Popped
  <2>6. d # f.conn \/ ~IsRemoval(f) => (Closing(rest, d) <=> Closing(queue, d))
    <3>1. d # f.conn \/ ~IsRemoval(f) => f # last
      BY FunctorIs DEF IsRemoval
    <3> QED
      BY <1>0, <2>1, <2>2, <3>1, ClosingPopped
  <2>7. IsUp(f) => state_[f.conn] = "kConnecting"
    BY <1>0, <2>1, <2>2, <2>3 DEF Told, InOrderOfLife, UpsAreConnecting, Connecting
  <2>8. IsDown(f) => /\ f.conn \notin connections_ \cup destroyed
                     /\ state_[f.conn] # "kConnecting"
    <3>1. IsDown(f) => f.conn \notin connections_ \cup destroyed
      BY <2>1, <2>2, <2>3 DEF Held, Downs, DownsAreOut
    <3>2. IsDown(f) => f.conn \notin Connecting
      <4>1. \A k \in 1..(1 - 1) : FALSE
        OBVIOUS
      <4> QED
        BY <2>1, <2>2, <2>3, <4>1 DEF Told, InOrderOfLife, UpBeforeDown
    <3>3. f.conn \notin Connecting => state_[f.conn] # "kConnecting"
      BY <1>0, <2>4 DEF Connecting
    <3> QED
      BY <3>1, <3>2, <3>3
  <2>9. ASSUME IsRemoval(f) PROVE f.conn \in connections_
    <3>1. server = "started"
      BY <2>1, <2>4, <2>9 DEF Phases
    <3> QED
      BY <2>2, <2>3, <2>4, <2>9, <3>1 DEF Held, Removals, RemovalsAreDown
  <2> HIDE DEF f, rest
  <2>10. CASE /\ f.op = "connectEstablished" /\ ConnectEstablished(f.conn) /\ queue' = rest
              /\ UNCHANGED connections_
    <3>1. IsUp(f) /\ ~IsRemoval(f) /\ destroyed' = destroyed
      BY <2>10 DEF IsUp, IsRemoval, ConnectEstablished
    <3>2. Closing(queue', d) <=> Closing(queue, d)
      BY <2>6, <2>10, <3>1
    <3>3. CASE d = f.conn
      <4>1. state_'[d] = "kConnected" /\ callbacks'[d] = Append(callbacks[d], "up")
        BY <1>0, <2>10, <3>3 DEF ConnectEstablished, Saw
      <4>2. Place(d)' = Place(d)
        BY <1>1, <2>1, <2>10, <3>2 DEF PlaceIn
      <4> QED
        BY <1>2, <2>7, <3>1, <3>3, <4>1, <4>2
    <3>4. CASE d # f.conn
      <4>1. state_'[d] = state_[d] /\ callbacks'[d] = callbacks[d]
        BY <1>0, <2>10, <3>4 DEF ConnectEstablished, Saw
      <4> QED
        BY <2>1, <2>10, <3>1, <3>2, <4>1, SeesNothing
    <3> QED
      BY <3>3, <3>4
  <2>11. CASE /\ f.op = "removeConnection" /\ RemoveConnectionInLoop(f.conn, rest)
              /\ UNCHANGED connVars
    <3>1. /\ queue' = Queued(rest, given[f.conn], Functor("connectDestroyed", f.conn))
          /\ connections_' = connections_ \ {f.conn} /\ f.conn \in connections_
          /\ state_' = state_ /\ callbacks' = callbacks /\ destroyed' = destroyed
          /\ given[f.conn] \in AllLoops
      BY <1>0, <2>4, <2>9, <2>11 DEF RemoveConnectionInLoop, connVars, IsRemoval
    <3>2. CASE d = f.conn
      <4>1. Place(d) # "left" /\ Place(d)' = "left"
        BY <1>0, <1>1, <2>1, <2>4, <3>1, <3>2 DEF PlaceIn
      <4> QED
        BY <1>4, <3>1, <4>1
    <3>3. CASE d # f.conn
      <4> DEFINE g == Functor("connectDestroyed", f.conn)
      <4>1. g \in Functors /\ g # last
        BY <2>4, FunctorIs
      <4>2. /\ queue' = Queued(rest, given[f.conn], g)
            /\ last = Functor("removeConnection", d)
        BY <3>1
      <4> HIDE DEF g, last
      <4>3. Closing(queue', d) <=> Closing(rest, d)
        BY <2>3, <3>1, <4>1, <4>2, ClosingQueued
      <4>4. d \in connections_' <=> d \in connections_
        BY <3>1, <3>3
      <4> QED
        BY <2>1, <2>6, <3>1, <3>3, <4>3, <4>4, SeesNothing
    <3> QED
      BY <3>2, <3>3
  <2>12. CASE /\ f.op = "connectDestroyed" /\ ConnectDestroyed(f.conn) /\ queue' = rest
              /\ UNCHANGED connections_
    <3>1. IsDown(f) /\ ~IsRemoval(f) /\ destroyed' = destroyed \cup {f.conn}
      BY <2>12 DEF IsDown, IsRemoval, ConnectDestroyed
    <3>2. Closing(queue', d) <=> Closing(queue, d)
      BY <2>6, <2>12, <3>1
    <3>3. CASE d = f.conn
      <4>1. \/ /\ state_[d] = "kConnected" /\ state_'[d] = "kDisconnected"
               /\ callbacks'[d] = Append(callbacks[d], "down")
            \/ /\ state_[d] # "kConnected" /\ state_'[d] = state_[d]
               /\ callbacks'[d] = callbacks[d]
        BY <1>0, <2>12, <3>3 DEF ConnectDestroyed, Saw
      <4>2. Place(d)' = "left"
        BY <1>0, <1>1, <2>1, <2>4, <2>8, <2>12, <3>1, <3>3 DEF PlaceIn
      <4> QED
        BY <1>3, <2>8, <3>1, <3>3, <4>1, <4>2
    <3>4. CASE d # f.conn
      <4>1. /\ state_'[d] = state_[d] /\ callbacks'[d] = callbacks[d]
            /\ d \in destroyed' <=> d \in destroyed
        BY <1>0, <2>12, <3>1, <3>4 DEF ConnectDestroyed, Saw
      <4> QED
        BY <2>1, <2>12, <3>2, <4>1, SeesNothing
    <3> QED
      BY <3>3, <3>4
  <2> QED
    BY <2>5, <2>10, <2>11, <2>12
<1>9. ASSUME NEW c \in 1..Len(given), Shutdown(c)
      PROVE  [Contract(d)!Next]_(Contract(d)!vars)
  <2>1. /\ c \in Conns /\ state_[c] = "kConnected"
        /\ state_' = [state_ EXCEPT ![c] = "kDisconnecting"]
        /\ UNCHANGED <<given, queue, connections_, destroyed, callbacks>>
        /\ c \notin destroyed
    BY <1>0, <1>9 DEF Shutdown, poolVars, loopVars, Told, Lives
  <2>2. CASE d = c
    <3>1. (d \in destroyed)' = (d \in destroyed) /\ (d \in destroyed) = FALSE
      BY <2>1, <2>2
    <3>2. Place(d)' = Place(d) /\ state_'[d] = "kDisconnecting"
      BY <1>0, <1>1, <2>1, <2>2
    <3> QED
      BY <2>1, <2>2, <3>1, <3>2 DEF Contract!Next, Contract!IsShutDown
  <2>3. CASE d # c
    <3>1. state_'[d] = state_[d]
      BY <1>0, <2>1, <2>3
    <3> QED
      BY <2>1, <3>1, SeesNothing
  <2> QED
    BY <2>2, <2>3
<1>10. ASSUME UNCHANGED <<given, queue, connections_, destroyed, state_, callbacks>>
       PROVE  UNCHANGED Contract(d)!vars
  BY <1>10, SeesNothing
<1>11. ASSUME \/ \E k \in 0..MaxThreads : SetThreads(k)
              \/ Start \/ BaseQuit \/ (\E m \in Loops : EnterLoop(m)) \/ Client \/ NoConnection
              \/ \E l \in Loops : DoPendingFunctors(l) \/ PendingFunctorsDone(l)
              \/ DestroyServer \/ Destroyed
              \/ \E i \in 1..Len(loops_) : QuitThread(i)
              \/ UNCHANGED serverVars
       PROVE  UNCHANGED <<given, queue, connections_, destroyed, state_, callbacks>>
  BY <1>11 DEF SetThreads, SetThreadNum, Start, PoolStart, EnterLoop, BaseQuit, Client,
               NoConnection, DoPendingFunctors, PendingFunctorsDone, DestroyServer, Destroyed,
               QuitThread, PoolJoins, serverVars, poolVars, loopVars, connVars
<1> QED
  BY <1>5, <1>6, <1>7, <1>8, <1>9, <1>10, <1>11, ServerSteps

\* The server, its loops and its destructor let every connection live as Connection does.
THEOREM ConnectionsLiveOn == ServerSpec => ConnectionsLive
<1>1. ASSUME ServerInit PROVE \A c \in Conns : Contract(c)!Init
  <2> SUFFICES ASSUME NEW c \in Conns PROVE Contract(c)!Init
    OBVIOUS
  <2>1. Len(given) = 0 /\ c > 0 /\ queue[baseLoop_] = <<>> /\ DOMAIN <<>> = {}
    BY <1>1, LoopsAre, PoolAssumption DEF ServerInit, PoolInit, Conns, AllLoops
  <2>2. Place(c) = "has"
    BY <2>1 DEF Place, Waiting
  <2>3. state_[c] = "kConnecting" /\ callbacks[c] = <<>> /\ (c \in destroyed) = FALSE
    BY <1>1 DEF ServerInit
  <2> QED
    BY <2>2, <2>3 DEF Contract!Init
<1>2. ASSUME LifeInv, Queues, Queues', Told, Held, [ServerNext]_serverVars
      PROVE  [\A c \in Conns : [Contract(c)!Next]_(Contract(c)!vars)]_serverVars
  BY <1>2, LiveStep DEF LifeInv
<1>3. ServerSpec => [][\A c \in Conns : [Contract(c)!Next]_(Contract(c)!vars)]_serverVars
  BY <1>2, LifeInductive, QueuesInductive, ToldInductive, HeldInductive, PTL DEF ServerSpec
<1>4. ServerSpec => \A c \in Conns : Contract(c)!Init
  BY <1>1, PTL DEF ServerSpec
<1> QED
  BY <1>3, <1>4, PTL DEF ConnectionsLive

==========================================================================
