-------------------------- MODULE TcpConnection --------------------------
(***************************************************************************)
(* One TcpConnection (TcpConnection.cpp) with its channel, on its I/O loop: *)
(* the loop's thread, which runs the handlers, the queued closures and the   *)
(* user's callbacks; other threads that call send and shutdown; the server   *)
(* that created it; and the peer behind the socket.                         *)
(*                                                                          *)
(* The loop is a poll, the handlers of what it reported, then the closures   *)
(* queued so far, first in first out: EventLoop shows that it is.  A handler *)
(* is one step, up to the user's callback it calls; what another thread      *)
(* does after it tested state_ is a step of its own.                        *)
(*                                                                          *)
(* A byte is <<t, k>>, the k-th byte thread t sends.                        *)
(***************************************************************************)
EXTENDS Naturals, Sequences, FiniteSets, Channel

CONSTANTS
  Loop,              \* the loop's thread
  Senders,           \* other threads that call send
  Shutters,          \* other threads that call shutdown
  highWaterMark_,
  SndBuf,            \* room of the socket's send buffer
  MaxChunk,          \* bound: bytes in one send
  MaxBytes,          \* bound: bytes one thread sends
  MaxMessages        \* bound: messages of the peer

ASSUME TcpConnectionAssumption ==
  /\ Loop \notin Senders \cup Shutters
  /\ {highWaterMark_, SndBuf, MaxChunk, MaxBytes, MaxMessages} \subseteq Nat \ {0}

Others == Senders \cup Shutters

VARIABLES
  pc,              \* where the loop's thread is
  revents_,        \* reported events not handled yet
  batch,           \* closures of this iteration still to run
  functors,        \* the queue of closures of this connection
  state_,
  channel_,
  outputBuffer_,
  call,            \* call[t]: the call thread t is in the middle of
  sent,            \* sent[t]: how many bytes thread t sent
  callbacks,       \* history: what connectionCallback_ saw, "up" or "down"
  destroyed,       \* history: connectDestroyed has run
  server,          \* the TcpServer: "has" it in connections_, "erased" it, "gone"
  removals,        \* removeConnection calls the base loop has not run yet
  wire,            \* what the socket took, in order
  acked,           \* how much of it has left the send buffer
  fin,             \* is the write end closed?
  peer,            \* "open", "closed" (its FIN is here) or "reset"
  sockErr,         \* a pending SO_ERROR
  inbox            \* messages to read

loopVars == <<pc, revents_, batch, functors>>
connVars == <<state_, channel_, outputBuffer_, callbacks, destroyed>>
callVars == <<call, sent>>
serverVars == <<server, removals>>
sockVars == <<wire, acked, fin, peer, sockErr, inbox>>
vars == <<loopVars, connVars, callVars, serverVars, sockVars>>

Functor(op, data) == [op |-> op, data |-> data]

Init ==
  /\ pc = "poll"
  /\ revents_ = {}
  /\ batch = 0
  /\ functors = <<Functor("connectEstablished", <<>>)>>
  /\ state_ = "kConnecting"
  /\ channel_ = NewChannel
  /\ outputBuffer_ = <<>>
  /\ call = [t \in Others |-> "idle"]
  /\ sent = [t \in Senders \cup {Loop} |-> 0]
  /\ callbacks = <<>>
  /\ destroyed = FALSE
  /\ server = "has"
  /\ removals = 0
  /\ wire = <<>>
  /\ acked = 0
  /\ fin = FALSE
  /\ peer = "open"
  /\ sockErr = FALSE
  /\ inbox = 0

--------------------------------------------------------------------------
(* The socket.                                                              *)

Room == SndBuf - (Len(wire) - acked)

\* write() fails: EPIPE or ECONNRESET.
Broken == fin \/ peer = "reset"

\* How many of len bytes write() may take; 0 stands for EWOULDBLOCK or an error.
Writes(len) == IF Broken \/ Room = 0 THEN {0} ELSE 1..(IF len < Room THEN len ELSE Room)

Conditions ==
  (IF inbox > 0 \/ peer # "open" THEN {"in"} ELSE {})
    \cup (IF Room > 0 \/ Broken THEN {"out"} ELSE {})
    \cup (IF peer = "reset" \/ (peer = "closed" /\ fin) THEN {"hup"} ELSE {})
    \cup (IF sockErr THEN {"err"} ELSE {})

PeerSends ==
  /\ peer = "open"
  /\ inbox < MaxMessages
  /\ inbox' = inbox + 1
  /\ UNCHANGED <<loopVars, connVars, callVars, serverVars, wire, acked, fin, peer, sockErr>>

PeerCloses ==
  /\ peer = "open"
  /\ peer' = "closed"
  /\ UNCHANGED <<loopVars, connVars, callVars, serverVars, wire, acked, fin, sockErr, inbox>>

PeerResets ==
  /\ peer # "reset"
  /\ peer' = "reset"
  /\ sockErr' = TRUE
  /\ UNCHANGED <<loopVars, connVars, callVars, serverVars, wire, acked, fin, inbox>>

PeerAcks ==
  /\ acked < Len(wire)
  /\ acked' = acked + 1
  /\ UNCHANGED <<loopVars, connVars, callVars, serverVars, wire, fin, peer, sockErr, inbox>>

--------------------------------------------------------------------------
(* The connection's operations on the loop's thread.  q is the queue of      *)
(* closures as the operation finds it.                                      *)

\* The n bytes of data a write took, and the others.
Front(data, n) == SubSeq(data, 1, n)
Rest(data, n) == SubSeq(data, n + 1, Len(data))

\* Mutant of SendInLoop: the write event is not asked for.
SendInLoopNoEnable(data, q) ==
  /\ functors' = q
  /\ UNCHANGED channel_
  /\ IF state_ = "kDisconnected"
     THEN UNCHANGED <<outputBuffer_, wire>>
     ELSE \E n \in IF outputBuffer_ = <<>> THEN Writes(Len(data)) ELSE {0} :
            /\ wire' = wire \o Front(data, n)
            /\ outputBuffer_' = outputBuffer_ \o Rest(data, n)

\* Mutant of SendInLoop: the socket is written although output is waiting.
SendInLoopOvertakes(data, q) ==
  /\ functors' = q
  /\ IF state_ = "kDisconnected"
     THEN UNCHANGED <<channel_, outputBuffer_, wire>>
     ELSE \E n \in Writes(Len(data)) :
            /\ wire' = wire \o Front(data, n)
            /\ outputBuffer_' = outputBuffer_ \o Rest(data, n)
            /\ channel_' = IF Rest(data, n) # <<>> /\ ~IsWriting(channel_)
                           THEN EnableWriting(channel_) ELSE channel_

\* Mutant of Crosses: told again with every send above the mark.
CrossesAbove(oldLen, total) == total >= highWaterMark_

\* Does output that grew from oldLen to total cross the high-water mark?
Crosses(oldLen, total) == total >= highWaterMark_ /\ oldLen < highWaterMark_

\* sendInLoop: write at once if nothing is waiting, keep what is left, ask for the
\* write event; tell the user what completed or piled up.
SendInLoop(data, q) ==
  \/ /\ state_ = "kDisconnected"
     /\ functors' = q
     /\ UNCHANGED <<channel_, outputBuffer_, wire>>
  \/ /\ state_ # "kDisconnected"
     /\ LET direct == ~IsWriting(channel_) /\ outputBuffer_ = <<>>
            faultError == direct /\ Broken
            oldLen == Len(outputBuffer_)
        IN \E n \in IF direct THEN Writes(Len(data)) ELSE {0} :
             LET rest == IF faultError THEN <<>> ELSE Rest(data, n)
                 total == oldLen + Len(rest)
             IN  /\ wire' = wire \o Front(data, n)
                 /\ outputBuffer_' = outputBuffer_ \o rest
                 /\ channel_' = IF rest # <<>> /\ ~IsWriting(channel_)
                                THEN EnableWriting(channel_) ELSE channel_
                 /\ functors' = q
                      \o (IF n = Len(data) THEN <<Functor("callback", <<>>)>> ELSE <<>>)
                      \o (IF rest # <<>> /\ Crosses(oldLen, total)
                          THEN <<Functor("highWater", <<>>)>> ELSE <<>>)

\* Socket::shutdownWrite
ShutdownWrite == fin' = TRUE

\* shutdownInLoop, with channel c.
ShutdownInLoop(c) == IF IsWriting(c) THEN UNCHANGED fin ELSE ShutdownWrite

\* Mutant of HandleClose: the events stay enabled.
HandleCloseStillOn ==
  /\ state_' = "kDisconnected"
  /\ callbacks' = Append(callbacks, "down")
  /\ removals' = removals + IF server = "gone" THEN 0 ELSE 1
  /\ UNCHANGED channel_

\* Mutant of HandleClose: the server is not told.
HandleCloseNotTold ==
  /\ state_' = "kDisconnected"
  /\ channel_' = DisableAll(channel_)
  /\ callbacks' = Append(callbacks, "down")
  /\ UNCHANGED removals

\* handleClose; closeCallback_ is TcpServer::removeConnection.  It is bound to the
\* raw server: a call to a server that is gone has no effect here.
HandleClose ==
  /\ state_' = "kDisconnected"
  /\ channel_' = DisableAll(channel_)
  /\ callbacks' = Append(callbacks, "down")
  /\ removals' = removals + IF server = "gone" THEN 0 ELSE 1

--------------------------------------------------------------------------
(* The loop's thread: one iteration.                                        *)

\* epoll_wait returns with what is ready, or woken up for a closure.
Poll ==
  /\ pc = "poll"
  /\ revents_' = Reported(channel_, Conditions)
  /\ revents_' # {} \/ functors # <<>>
  /\ pc' = "event"
  /\ UNCHANGED <<batch, functors, connVars, callVars, serverVars, sockVars>>

\* Channel::handleEventWithGuard: close, error, read, write, in this order.
Handles(e) ==
  /\ pc = "event"
  /\ e \in revents_
  /\ revents_' = revents_ \ {e}
  /\ UNCHANGED <<batch, callVars>>

OnClose ==
  /\ Handles("hup")
  /\ IF "in" \in revents_
     THEN UNCHANGED <<state_, channel_, callbacks, removals>>
     ELSE HandleClose
  /\ UNCHANGED <<pc, functors, outputBuffer_, destroyed, server, sockVars>>

\* handleError: getsockopt takes the pending error.
OnError ==
  /\ Handles("err")
  /\ "hup" \notin revents_
  /\ sockErr' = FALSE
  /\ UNCHANGED <<pc, functors, connVars, serverVars, wire, acked, fin, peer, inbox>>

\* handleRead: what was read goes to the user, an error is logged, 0 bytes mean close.
OnRead ==
  /\ Handles("in")
  /\ revents_ \cap {"hup", "err"} = {}
  /\ inbox' = 0
  /\ pc' = IF inbox > 0 THEN "handler" ELSE pc
  /\ sockErr' = (sockErr /\ inbox > 0)
  /\ IF inbox = 0 /\ ~sockErr
     THEN HandleClose
     ELSE UNCHANGED <<state_, channel_, callbacks, removals>>
  /\ UNCHANGED <<functors, outputBuffer_, destroyed, server, wire, acked, fin, peer>>

\* What handleWrite leaves of the output after a write of n bytes: writeFd has
\* moved readerIndex_ over them, and retrieve(n) moves it once more.
AfterWrite(n) == Rest(Rest(outputBuffer_, n), n)

\* handleWrite
OnWrite ==
  /\ Handles("out")
  /\ revents_ = {"out"}
  /\ IF ~IsWriting(channel_)
     THEN UNCHANGED <<channel_, outputBuffer_, wire, functors, fin>>
     ELSE \E n \in Writes(Len(outputBuffer_)) :
            /\ wire' = wire \o Front(outputBuffer_, n)
            /\ outputBuffer_' = AfterWrite(n)
            /\ IF n > 0 /\ AfterWrite(n) = <<>>
               THEN /\ channel_' = DisableWriting(channel_)
                    /\ functors' = Append(functors, Functor("callback", <<>>))
                    /\ IF state_ = "kDisconnected"
                       THEN ShutdownInLoop(channel_')
                       ELSE UNCHANGED fin
               ELSE UNCHANGED <<channel_, functors, fin>>
  /\ UNCHANGED <<pc, state_, callbacks, destroyed, serverVars, acked, peer, sockErr, inbox>>

\* The handlers are done: doPendingFunctors takes what is queued by now.
DoPendingFunctors ==
  /\ pc = "event"
  /\ revents_ = {}
  /\ batch' = Len(functors)
  /\ pc' = "functors"
  /\ UNCHANGED <<revents_, functors, connVars, callVars, serverVars, sockVars>>

PendingFunctorsDone ==
  /\ pc = "functors"
  /\ batch = 0
  /\ pc' = "poll"
  /\ UNCHANGED <<revents_, batch, functors, connVars, callVars, serverVars, sockVars>>

\* The next closure is op; what it does comes with it.
Runs(op) ==
  /\ pc = "functors"
  /\ batch > 0
  /\ Head(functors).op = op
  /\ batch' = batch - 1
  /\ UNCHANGED <<revents_, callVars, serverVars>>

ConnectEstablished ==
  /\ Runs("connectEstablished")
  /\ functors' = Tail(functors)
  /\ state_' = "kConnected"
  /\ channel_' = EnableReading(channel_)
  /\ callbacks' = Append(callbacks, "up")
  /\ pc' = "functor"
  /\ UNCHANGED <<outputBuffer_, destroyed, sockVars>>

RunSendInLoop ==
  /\ Runs("sendInLoop")
  /\ SendInLoop(Head(functors).data, Tail(functors))
  /\ UNCHANGED <<pc, state_, callbacks, destroyed, acked, fin, peer, sockErr, inbox>>

RunShutdownInLoop ==
  /\ Runs("shutdownInLoop")
  /\ functors' = Tail(functors)
  /\ ShutdownInLoop(channel_)
  /\ UNCHANGED <<pc, connVars, wire, acked, peer, sockErr, inbox>>

\* writeCompleteCallback_ or highWaterMarkCallback_: user code.
RunCallback ==
  /\ Runs("callback") \/ Runs("highWater")
  /\ functors' = Tail(functors)
  /\ pc' = "functor"
  /\ UNCHANGED <<connVars, sockVars>>

\* connectDestroyed tests state_ ...
ConnectDestroyed ==
  /\ Runs("connectDestroyed")
  /\ functors' = Tail(functors)
  /\ IF state_ = "kConnected"
     THEN pc' = "destroy" /\ UNCHANGED <<channel_, destroyed>>
     ELSE channel_' = Remove(channel_) /\ destroyed' = TRUE /\ UNCHANGED pc
  /\ UNCHANGED <<state_, outputBuffer_, callbacks, sockVars>>

\* ... and, if the connection was still up, takes it down first.
DestroyConnected ==
  /\ pc = "destroy"
  /\ state_' = "kDisconnected"
  /\ callbacks' = Append(callbacks, "down")
  /\ channel_' = Remove(DisableAll(channel_))
  /\ destroyed' = TRUE
  /\ pc' = "functors"
  /\ UNCHANGED <<revents_, batch, functors, outputBuffer_, callVars, serverVars, sockVars>>

--------------------------------------------------------------------------
(* User code on the loop's thread, called by a handler or as a closure.      *)

Chunk(t) == {[i \in 1..n |-> <<t, sent[t] + i>>] : n \in 1..MaxChunk}

CanSend(t, data) == sent[t] + Len(data) <= MaxBytes

InUserCode == pc \in {"handler", "functor"}

Send(data) ==
  /\ InUserCode
  /\ CanSend(Loop, data)
  /\ state_ = "kConnected"
  /\ SendInLoop(data, functors)
  /\ sent' = [sent EXCEPT ![Loop] = @ + Len(data)]
  /\ UNCHANGED <<pc, revents_, batch, state_, callbacks, destroyed, call, serverVars,
                 acked, fin, peer, sockErr, inbox>>

Shutdown ==
  /\ InUserCode
  /\ state_ = "kConnected"
  /\ state_' = "kDisconnecting"
  /\ ShutdownInLoop(channel_)
  /\ UNCHANGED <<loopVars, channel_, outputBuffer_, callbacks, destroyed, callVars,
                 serverVars, wire, acked, peer, sockErr, inbox>>

UserReturns ==
  /\ InUserCode
  /\ pc' = IF pc = "handler" THEN "event" ELSE "functors"
  /\ UNCHANGED <<revents_, batch, functors, connVars, callVars, serverVars, sockVars>>

--------------------------------------------------------------------------
(* Other threads: they got the connection from connectionCallback_, and keep *)
(* it, with the string they send, until the closure has run.  state_ is      *)
(* tested, then set, then the closure queued.                               *)

Begins(t, c) ==
  /\ call[t] = "idle"
  /\ callbacks # <<>>
  /\ server # "gone"
  /\ state_ = "kConnected"
  /\ call' = [call EXCEPT ![t] = c]
  /\ UNCHANGED <<loopVars, connVars, sent, serverVars, sockVars>>

SendTest(t) == Begins(t, "send")

SendQueue(t, data) ==
  /\ call[t] = "send"
  /\ CanSend(t, data)
  /\ functors' = Append(functors, Functor("sendInLoop", data))
  /\ sent' = [sent EXCEPT ![t] = @ + Len(data)]
  /\ call' = [call EXCEPT ![t] = "idle"]
  /\ UNCHANGED <<pc, revents_, batch, connVars, serverVars, sockVars>>

ShutdownTest(t) == Begins(t, "shutdown")

ShutdownSet(t) ==
  /\ call[t] = "shutdown"
  /\ state_' = "kDisconnecting"
  /\ call' = [call EXCEPT ![t] = "queue"]
  /\ UNCHANGED <<loopVars, channel_, outputBuffer_, callbacks, destroyed, sent,
                 serverVars, sockVars>>

ShutdownQueue(t) ==
  /\ call[t] = "queue"
  /\ functors' = Append(functors, Functor("shutdownInLoop", <<>>))
  /\ call' = [call EXCEPT ![t] = "idle"]
  /\ UNCHANGED <<pc, revents_, batch, connVars, sent, serverVars, sockVars>>

--------------------------------------------------------------------------
(* The server, on the base loop's thread.                                   *)

QueueConnectDestroyed == functors' = Append(functors, Functor("connectDestroyed", <<>>))

\* removeConnectionInLoop queues connectDestroyed whether or not it erased anything.
RemoveConnectionInLoop ==
  /\ server # "gone"
  /\ removals > 0
  /\ removals' = removals - 1
  /\ server' = "erased"
  /\ QueueConnectDestroyed
  /\ UNCHANGED <<pc, revents_, batch, connVars, callVars, sockVars>>

\* ~TcpServer, once the other threads are done with the connection.
ServerDestroyed ==
  /\ server # "gone"
  /\ \A t \in Others : call[t] = "idle"
  /\ \A i \in DOMAIN functors : functors[i].op \notin {"sendInLoop", "shutdownInLoop"}
  /\ server' = "gone"
  /\ removals' = 0
  /\ IF server = "has" THEN QueueConnectDestroyed ELSE UNCHANGED functors
  /\ UNCHANGED <<pc, revents_, batch, connVars, callVars, sockVars>>

--------------------------------------------------------------------------

LoopStep ==
  \/ Poll \/ OnClose \/ OnError \/ OnRead \/ OnWrite
  \/ DoPendingFunctors \/ PendingFunctorsDone
  \/ ConnectEstablished \/ RunSendInLoop \/ RunShutdownInLoop \/ RunCallback
  \/ ConnectDestroyed \/ DestroyConnected
  \/ UserReturns

UserCode == Shutdown \/ \E data \in Chunk(Loop) : Send(data)

OtherThread ==
  \/ \E t \in Senders : SendTest(t) \/ \E data \in Chunk(t) : SendQueue(t, data)
  \/ \E t \in Shutters : ShutdownTest(t) \/ ShutdownSet(t) \/ ShutdownQueue(t)

Environment == PeerSends \/ PeerCloses \/ PeerResets \/ PeerAcks

Next ==
  \/ LoopStep \/ UserCode \/ OtherThread
  \/ RemoveConnectionInLoop \/ ServerDestroyed
  \/ Environment

\* The loop's thread and the base loop's are scheduled, user callbacks return, and
\* the socket gets rid of what was written.  Nobody need send, close or call.
Fairness == WF_vars(LoopStep) /\ WF_vars(RemoveConnectionInLoop) /\ WF_vars(PeerAcks)

Spec == Init /\ [][Next]_vars

FairSpec == Spec /\ Fairness

--------------------------------------------------------------------------
(* Properties.                                                              *)

Bytes == (Senders \cup {Loop}) \X (1..MaxBytes)

\* Every variable has its type, no more closures are taken than are queued, and, unless
\* another thread shuts down, handleClose tells the server of one closing only.
TypeOK ==
  /\ pc \in {"poll", "event", "handler", "functors", "functor", "destroy"}
  /\ revents_ \subseteq kEvents \cup {"hup", "err"}
  /\ batch \in 0..Len(functors)
  /\ state_ \in {"kConnecting", "kConnected", "kDisconnecting", "kDisconnected"}
  /\ channel_ \in ChannelType
  /\ outputBuffer_ \in Seq(Bytes) /\ wire \in Seq(Bytes)
  /\ call \in [Others -> {"idle", "send", "shutdown", "queue"}]
  /\ sent \in [Senders \cup {Loop} -> 0..MaxBytes]
  /\ {destroyed, fin, sockErr} \subseteq BOOLEAN
  /\ server \in {"has", "erased", "gone"}
  /\ removals \in Nat /\ (Shutters = {} => removals <= 1)
  /\ acked \in 0..Len(wire)
  /\ peer \in {"open", "closed", "reset"}
  /\ inbox \in 0..MaxMessages

\* However sends, writes, closing and destruction interleave, no epoll_ctl fails and
\* epoll waits for what the channel asks (EPollPoller::updateChannel, removeChannel).
PollerInSync == InSync(channel_)

\* shutdown on another thread tests state_, then sets it: it is in time if handleClose or
\* connectDestroyed has not come in between.
InTime == \A t \in Shutters : ShutdownSet(t) => state_ # "kDisconnected"

\* connectionCallback_ sees the connection come up, then go down at most once, whichever
\* of handleClose and connectDestroyed comes first.
UpThenDown == callbacks \in {<<>>, <<"up">>, <<"up", "down">>}

\* A thread's bytes leave in the order it sent them, those still in outputBuffer_ after
\* those on the wire: sendInLoop never writes past waiting output.
InOrder ==
  LET out == wire \o outputBuffer_
  IN  \A i, j \in DOMAIN out :
        i < j /\ out[i][1] = out[j][1] => out[i][2] < out[j][2]

\* While the connection is up, the write event is asked for exactly as long as output
\* waits: never output that nobody will write, never a loop that spins on EPOLLOUT.
WritingWhileOutput ==
  callbacks = <<"up">> /\ ~destroyed => (IsWriting(channel_) <=> outputBuffer_ # <<>>)

\* After connectDestroyed no late send, write or closure puts the channel back into the
\* poller: neither epoll nor channels_ keeps a raw pointer to it.
RemovedForGood == destroyed => channel_.epoll = {} /\ ~HasChannel(channel_)

\* What the server knows of the connection: in connections_, with or without a
\* removeConnection on its way, or no longer.
Place == IF server # "has" THEN "left" ELSE IF removals > 0 THEN "told" ELSE "has"

Contract == INSTANCE Connection WITH state <- state_, place <- Place

\* With its loop, its socket, its queue and the other threads, a connection that no other
\* thread shuts down too late implements Connection: to user and server it is no more.
ImplementsConnection == Contract!Spec

HighWaters(q) == Cardinality({i \in DOMAIN q : q[i].op = "highWater"})

\* The user hears that output piles up exactly when it crosses the high-water mark: once
\* per crossing, whether one send does it or several, on whichever thread.
HighWaterOnCrossing ==
  [][HighWaters(functors') > HighWaters(functors)
       <=> Len(outputBuffer_) < highWaterMark_ /\ Len(outputBuffer_') >= highWaterMark_]_vars

\* Output that waits is written, or the connection goes down: handleWrite is called
\* until nothing is left.
OutputDrains ==
  outputBuffer_ # <<>> ~>
    outputBuffer_ = <<>> \/ destroyed \/ \E i \in DOMAIN callbacks : callbacks[i] = "down"

\* When the peer closes or resets, the connection is destroyed in the end: handleRead or
\* handleClose sees it, the base loop is told, and connectDestroyed comes back.
CloseCompletes == peer # "open" ~> destroyed

\* What was on the wire of each thread's bytes is a prefix of what it sent: all the data
\* in the send buffer is sent (TcpConnection.cpp:151-153).
OutputComplete ==
  \A i \in DOMAIN wire :
    \A k \in 1..wire[i][2] : \E j \in 1..i : wire[j] = <<wire[i][1], k>>

\* handleWrite gets all of its output out, or nothing.
WholeWrites == OnWrite => wire' = wire \/ wire' = wire \o outputBuffer_

\* shutdown closes the write end, once the waiting output is written (echoServer.cpp:43).
ShutdownCloses ==
  state_ = "kDisconnecting" ~> fin \/ state_ = "kDisconnected" \/ destroyed

==========================================================================
