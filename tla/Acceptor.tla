----------------------------- MODULE Acceptor -----------------------------
(***************************************************************************)
(* The Acceptor of a server (Acceptor.cpp, Socket.cpp): the listening       *)
(* socket, its channel in the base loop's poller, the clients that wait to   *)
(* be accepted, and the ways in which accept goes wrong.  It is used on the  *)
(* base loop's thread only.  That socket, bind or listen fails ends the      *)
(* process (LOG_FATAL) and is left out; so is the branch of handleRead for a *)
(* server that set no newConnectionCallback_: TcpServer always sets one.     *)
(***************************************************************************)
EXTENDS Naturals, Channel

VARIABLES
  acceptSocket_,     \* "bound", "listening" or "closed"
  acceptChannel_,
  backlog,           \* clients the kernel has connected, not accepted yet
  dropped            \* history: clients that accept lost

acceptorVars == <<acceptSocket_, acceptChannel_, backlog, dropped>>

\* Socket::bindAddress
SocketBound == acceptSocket_ = "bound"

AcceptorInit ==
  /\ SocketBound
  /\ acceptChannel_ = NewChannel
  /\ backlog = 0
  /\ dropped = 0

ClientConnects ==
  /\ acceptSocket_ = "listening"
  /\ backlog' = backlog + 1
  /\ UNCHANGED <<acceptSocket_, acceptChannel_, dropped>>

\* Socket::listen
SocketListen == acceptSocket_' = "listening"

\* Mutant of Listen: the channel asks for nothing.
ListenNoEnable ==
  /\ SocketListen
  /\ UNCHANGED <<acceptChannel_, backlog, dropped>>

Listen ==
  /\ SocketListen
  /\ acceptChannel_' = EnableReading(acceptChannel_)
  /\ UNCHANGED <<backlog, dropped>>

\* Is handleRead called when the base loop polls?  The channel is level-triggered.
AcceptReady ==
  "in" \in Reported(acceptChannel_, IF backlog > 0 THEN {"in"} ELSE {})

\* accept returns a descriptor, which needs one to be free.
AcceptTakes(free) ==
  /\ AcceptReady
  /\ free > 0
  /\ backlog' = backlog - 1
  /\ UNCHANGED <<acceptSocket_, acceptChannel_, dropped>>

\* accept gets its address length from an uninitialized variable.  When that is
\* negative, the client is taken off the backlog, hung up on, and EINVAL returned.
AcceptDrops(free) ==
  /\ AcceptReady
  /\ free > 0
  /\ backlog' = backlog - 1
  /\ dropped' = dropped + 1
  /\ UNCHANGED <<acceptSocket_, acceptChannel_>>

\* No descriptor is free: EMFILE is logged, and the client keeps waiting.
AcceptFails(free) ==
  /\ AcceptReady
  /\ free = 0
  /\ UNCHANGED acceptorVars

\* Socket::~Socket: who waits is hung up on.
SocketClosed == acceptSocket_' = "closed" /\ backlog' = 0

\* Mutant of AcceptorDestroyed: the channel stays in the poller.
AcceptorDestroyedNoRemove ==
  /\ SocketClosed
  /\ UNCHANGED <<acceptChannel_, dropped>>

\* ~Acceptor, with the Socket it owns.
AcceptorDestroyed ==
  /\ acceptChannel_' = Remove(DisableAll(acceptChannel_))
  /\ SocketClosed
  /\ UNCHANGED dropped

===========================================================================
