----------------------- MODULE TcpConnectionProofs -----------------------
(***************************************************************************)
(* Theorems about TcpConnection, for any sizes, users and high-water mark.  *)
(*                                                                          *)
(* In every behaviour: the channel and its poller stay in step, the write    *)
(* event is asked for while output waits, the bytes of each thread keep      *)
(* their order, and the user hears of the high-water mark when it is         *)
(* crossed.  In every behaviour in which no thread sets kDisconnecting on a  *)
(* closed connection (InTime): one up and one down, a channel that is        *)
(* removed for good, and all that Connection promises.  If, moreover,        *)
(* handleWrite never writes a part of its output (WholeWrites), no byte is   *)
(* lost.  TcpConnectionRace.cfg shows what goes wrong otherwise.             *)
(*                                                                          *)
(* The layers: the channel in step with its poller; the types of the places, *)
(* the data and the queue (Typed); the write event and the output (Writing); *)
(* the bytes on the wire, waiting and queued (Order); the life of the        *)
(* connection, its channel and what is queued for it (Life); and the bytes   *)
(* that are still on their way (NoneLost).                                  *)
(***************************************************************************)
EXTENDS EchoServer, ChannelProofs, SequenceTheorems, FiniteSetTheorems, TLAPS

\* The steps of the specification, one by one.
LEMMA Steps ==
  ASSUME [Next]_vars
  PROVE  \/ Poll \/ OnClose \/ OnError \/ OnRead \/ OnWrite
         \/ DoPendingFunctors \/ PendingFunctorsDone
         \/ ConnectEstablished \/ RunSendInLoop \/ RunShutdownInLoop \/ RunCallback
         \/ ConnectDestroyed \/ DestroyConnected \/ UserReturns
         \/ Shutdown \/ \E data \in Chunk(Loop) : Send(data)
         \/ \E t \in Senders : SendTest(t) \/ \E data \in Chunk(t) : SendQueue(t, data)
         \/ \E t \in Shutters : ShutdownTest(t) \/ ShutdownSet(t) \/ ShutdownQueue(t)
         \/ RemoveConnectionInLoop \/ ServerDestroyed
         \/ Environment
         \/ UNCHANGED vars
BY DEF Next, LoopStep, UserCode, OtherThread

--------------------------------------------------------------------------
(* The poller.                                                              *)

\* A step calls the channel's functions on the channel or leaves it alone.
ChannelStep ==
  channel_' \in {channel_, EnableReading(channel_), EnableWriting(channel_),
                 DisableWriting(channel_), DisableAll(channel_), Remove(channel_),
                 Remove(DisableAll(channel_))}

\* sendInLoop asks for the write event or leaves the channel alone.
LEMMA SendsOnChannel ==
  ASSUME NEW data, NEW q, SendInLoop(data, q)
  PROVE  channel_' \in {channel_, EnableWriting(channel_)}
BY DEF SendInLoop

\* Every step is such a step.
LEMMA ChannelSteps ==
  ASSUME [Next]_vars
  PROVE  ChannelStep
<1>1. CASE OnClose
  BY <1>1 DEF OnClose, HandleClose, ChannelStep
<1>2. CASE OnRead
  BY <1>2 DEF OnRead, HandleClose, ChannelStep
<1>3. CASE OnWrite
  BY <1>3 DEF OnWrite, ChannelStep
<1>4. CASE ConnectEstablished
  BY <1>4 DEF ConnectEstablished, ChannelStep
<1>5. CASE ConnectDestroyed
  BY <1>5 DEF ConnectDestroyed, ChannelStep
<1>6. CASE DestroyConnected
  BY <1>6 DEF DestroyConnected, ChannelStep
<1>7. CASE RunSendInLoop
  BY <1>7, SendsOnChannel DEF RunSendInLoop, ChannelStep
<1>8. CASE \E data \in Chunk(Loop) : Send(data)
  BY <1>8, SendsOnChannel DEF Send, ChannelStep
<1>9. CASE \/ Poll \/ OnError \/ DoPendingFunctors \/ PendingFunctorsDone
           \/ RunShutdownInLoop \/ RunCallback \/ UserReturns \/ Shutdown
  BY <1>9 DEF Poll, OnError, DoPendingFunctors, PendingFunctorsDone, RunShutdownInLoop,
     RunCallback, UserReturns, Shutdown, connVars, ChannelStep
<1>10. CASE \/ \E t \in Senders : SendTest(t) \/ \E data \in Chunk(t) : SendQueue(t, data)
            \/ \E t \in Shutters : ShutdownTest(t) \/ ShutdownSet(t) \/ ShutdownQueue(t)
  BY <1>10 DEF SendTest, SendQueue, ShutdownTest, ShutdownSet, ShutdownQueue, Begins,
     connVars, ChannelStep
<1>11. CASE RemoveConnectionInLoop \/ ServerDestroyed \/ Environment \/ UNCHANGED vars
  BY <1>11 DEF RemoveConnectionInLoop, ServerDestroyed, Environment, PeerSends, PeerCloses,
     PeerResets, PeerAcks, connVars, vars, ChannelStep
<1> QED
  BY <1>1, <1>2, <1>3, <1>4, <1>5, <1>6, <1>7, <1>8, <1>9, <1>10, <1>11, Steps

\* The poller and the channel stay in step in every behaviour: what keeps the functions
\* of Channel from failing is kept by each of them.
LEMMA ChannelInductive == Spec => []InStep(channel_)
<1>1. Init => InStep(channel_)
  BY NewChannelInStep DEF Init
<1>2. InStep(channel_) /\ [Next]_vars => InStep(channel_)'
  <2> SUFFICES ASSUME InStep(channel_), [Next]_vars
               PROVE  InStep(channel_)'
    OBVIOUS
  <2>1. /\ InStep(EnableReading(channel_)) /\ InStep(EnableWriting(channel_))
        /\ InStep(DisableWriting(channel_)) /\ InStep(DisableAll(channel_))
        /\ InStep(Remove(channel_)) /\ InStep(Remove(DisableAll(channel_)))
    BY EnablesInStep, DisablesInStep, RemoveInStep
  <2>2. ChannelStep
    BY ChannelSteps
  <2>3. InStep(channel_')
    BY <2>1, <2>2 DEF ChannelStep
  <2> QED
    BY <2>3 DEF InStep, InSync, HasChannel, IsNoneEvent
<1> QED
  BY <1>1, <1>2, PTL DEF Spec

\* However sends, writes, closing, shutdown and destruction interleave, no epoll_ctl
\* fails and epoll waits for what the channel asks.
THEOREM PollerStaysInSync == Spec => []PollerInSync
<1>1. InStep(channel_) => PollerInSync
  BY DEF InStep, PollerInSync
<1> QED
  BY <1>1, ChannelInductive, PTL

--------------------------------------------------------------------------
(* Types.                                                                   *)

Ops == {"connectEstablished", "sendInLoop", "shutdownInLoop", "callback", "highWater",
        "connectDestroyed"}

Closures == [op : Ops, data : Seq(Bytes)]

\* A closure is what it was made of.
LEMMA FunctorIs ==
  ASSUME NEW op \in Ops, NEW data \in Seq(Bytes)
  PROVE  /\ Functor(op, data) \in Closures
         /\ Functor(op, data).op = op /\ Functor(op, data).data = data
BY DEF Functor, Closures

\* A closure without bytes carries the empty sequence.
LEMMA NoData == <<>> \in Seq(Bytes)
OBVIOUS

\* The first n bytes of s.
LEMMA FrontIs ==
  ASSUME NEW S, NEW s \in Seq(S), NEW n \in 0..Len(s)
  PROVE  /\ Front(s, n) \in Seq(S) /\ Len(Front(s, n)) = n
         /\ \A i \in 1..n : Front(s, n)[i] = s[i]
BY DEF Front

\* The bytes of s behind the first n.
LEMMA RestIs ==
  ASSUME NEW S, NEW s \in Seq(S), NEW n \in Nat
  PROVE  /\ Rest(s, n) \in Seq(S)
         /\ Len(Rest(s, n)) = IF n <= Len(s) THEN Len(s) - n ELSE 0
         /\ \A i \in 1..Len(Rest(s, n)) : n + i \in 1..Len(s) /\ Rest(s, n)[i] = s[n + i]
<1>1. /\ Len(s) \in Nat /\ n + 1 \in Nat
      /\ \A i \in (n + 1)..Len(s) : s[i] \in S
  OBVIOUS
<1>2. /\ Rest(s, n) \in Seq(S)
      /\ Len(Rest(s, n)) = IF n + 1 <= Len(s) THEN Len(s) - (n + 1) + 1 ELSE 0
      /\ \A i \in 1..(Len(s) - (n + 1) + 1) : Rest(s, n)[i] = s[(n + 1) + i - 1]
  BY <1>1, SubSeqProperties DEF Rest
<1> QED
  BY <1>1, <1>2

\* write() never takes more than it is given.
LEMMA WritesAre ==
  ASSUME wire \in Seq(Bytes), acked \in 0..Len(wire), NEW len \in Nat, NEW n \in Writes(len)
  PROVE  n \in 0..len
BY TcpConnectionAssumption DEF Writes, Room

\* What sendInLoop does to the output: it writes a front part of the data, if no output
\* waits, and keeps the rest, if the connection is not broken.
Sends(data, n, keep) ==
  /\ state_ # "kDisconnected"
  /\ keep = Rest(data, n) \/ (keep = <<>> /\ Broken)
  /\ n > 0 => outputBuffer_ = <<>>
  /\ wire' = wire \o Front(data, n)
  /\ outputBuffer_' = outputBuffer_ \o keep
  /\ channel_' = IF keep # <<>> /\ ~IsWriting(channel_)
                 THEN EnableWriting(channel_) ELSE channel_

\* sendInLoop does nothing, or writes some of the data and keeps some of the rest.
LEMMA WhatSends ==
  ASSUME wire \in Seq(Bytes), acked \in 0..Len(wire),
         NEW data \in Seq(Bytes), NEW q, SendInLoop(data, q)
  PROVE  \/ state_ = "kDisconnected" /\ UNCHANGED <<channel_, outputBuffer_, wire>>
         \/ \E n \in 0..Len(data), keep \in Seq(Bytes) : Sends(data, n, keep)
<1>1. CASE state_ = "kDisconnected"
  BY <1>1 DEF SendInLoop
<1>2. CASE state_ # "kDisconnected"
  <2> DEFINE direct == ~IsWriting(channel_) /\ outputBuffer_ = <<>>
             rest(n) == IF direct /\ Broken THEN <<>> ELSE Rest(data, n)
  <2>1. PICK n \in IF direct THEN Writes(Len(data)) ELSE {0} :
          /\ wire' = wire \o Front(data, n)
          /\ outputBuffer_' = outputBuffer_ \o rest(n)
          /\ channel_' = IF rest(n) # <<>> /\ ~IsWriting(channel_)
                         THEN EnableWriting(channel_) ELSE channel_
    BY <1>2 DEF SendInLoop
  <2>2. Len(data) \in Nat
    OBVIOUS
  <2>3. n \in 0..Len(data) /\ (n > 0 => outputBuffer_ = <<>>)
    BY <2>1, <2>2, WritesAre
  <2>4. rest(n) \in Seq(Bytes)
    BY <2>3, RestIs, NoData
  <2>5. Sends(data, n, rest(n))
    BY <1>2, <2>1, <2>3 DEF Sends
  <2> QED
    BY <2>3, <2>4, <2>5
<1> QED
  BY <1>1, <1>2

\* Behind the queue it found, sendInLoop puts callbacks of the user only.
LEMMA WhatSendsQueues ==
  ASSUME NEW data, NEW q \in Seq(Closures), SendInLoop(data, q)
  PROVE  /\ functors' \in Seq(Closures)
         /\ Len(q) <= Len(functors')
         /\ \A i \in 1..Len(q) : functors'[i] = q[i]
         /\ \A i \in 1..Len(functors') :
              i > Len(q) => functors'[i].op \in {"callback", "highWater"}
<1> DEFINE cb == Functor("callback", <<>>)
           hw == Functor("highWater", <<>>)
<1>1. cb \in Closures /\ hw \in Closures /\ cb.op = "callback" /\ hw.op = "highWater"
  BY FunctorIs, NoData DEF Ops
<1>2. \E a \in {<<>>, <<cb>>}, b \in {<<>>, <<hw>>} : functors' = (q \o a) \o b
  <2>1. CASE state_ = "kDisconnected"
    <3>1. functors' = (q \o <<>>) \o <<>>
      BY <2>1, ConcatEmptySeq DEF SendInLoop
    <3> QED
      BY <3>1
  <2>2. CASE state_ # "kDisconnected"
    <3>1. \E a \in {<<>>, <<cb>>}, b \in {<<>>, <<hw>>} : functors' = q \o a \o b
      BY <2>2 DEF SendInLoop
    <3> QED
      BY <3>1
  <2> QED
    BY <2>1, <2>2
<1> HIDE DEF cb, hw
<1>3. PICK a \in {<<>>, <<cb>>}, b \in {<<>>, <<hw>>} : functors' = (q \o a) \o b
  BY <1>2
<1>4. /\ a \in Seq(Closures) /\ b \in Seq(Closures)
      /\ \A i \in 1..Len(a) : a[i].op = "callback"
      /\ \A i \in 1..Len(b) : b[i].op = "highWater"
  <2>1. \A f \in Closures : <<f>> \in Seq(Closures) /\ Len(<<f>>) = 1 /\ <<f>>[1] = f
    OBVIOUS
  <2>2. <<>> \in Seq(Closures) /\ Len(<<>>) = 0
    OBVIOUS
  <2>3. a \in Seq(Closures) /\ \A i \in 1..Len(a) : a[i].op = "callback"
    <3>1. CASE a = <<>>
      BY <2>2, <3>1
    <3>2. CASE a = <<cb>>
      <4>1. a \in Seq(Closures) /\ Len(a) = 1 /\ a[1] = cb
        BY <1>1, <2>1, <3>2
      <4> QED
        BY <1>1, <4>1
    <3> QED
      BY <3>1, <3>2
  <2>4. b \in Seq(Closures) /\ \A i \in 1..Len(b) : b[i].op = "highWater"
    <3>1. CASE b = <<>>
      BY <2>2, <3>1
    <3>2. CASE b = <<hw>>
      <4>1. b \in Seq(Closures) /\ Len(b) = 1 /\ b[1] = hw
        BY <1>1, <2>1, <3>2
      <4> QED
        BY <1>1, <4>1
    <3> QED
      BY <3>1, <3>2
  <2> QED
    BY <2>3, <2>4
<1> DEFINE r == q \o a
<1>5. /\ r \in Seq(Closures) /\ Len(r) = Len(q) + Len(a)
      /\ \A i \in 1..Len(r) : r[i] = IF i <= Len(q) THEN q[i] ELSE a[i - Len(q)]
  BY <1>4, ConcatProperties
<1>7. functors' = r \o b
  BY <1>3
<1> HIDE DEF r
<1>8. /\ r \o b \in Seq(Closures) /\ Len(r \o b) = Len(r) + Len(b)
      /\ \A i \in 1..(Len(r) + Len(b)) :
           (r \o b)[i] = IF i <= Len(r) THEN r[i] ELSE b[i - Len(r)]
  <2>1. r \in Seq(Closures) /\ b \in Seq(Closures)
    BY <1>4, <1>5
  <2> QED
    BY <2>1, ConcatProperties, Zenon
<1> DEFINE f == functors'
<1>6. /\ f \in Seq(Closures) /\ Len(f) = Len(r) + Len(b)
      /\ \A i \in 1..Len(f) : f[i] = IF i <= Len(r) THEN r[i] ELSE b[i - Len(r)]
  BY <1>7, <1>8
<1> HIDE DEF f
<1>9. Len(q) \in Nat /\ Len(a) \in Nat /\ Len(b) \in Nat
  BY <1>4
<1>10. \A i \in 1..Len(q) : f[i] = q[i]
  BY <1>5, <1>6, <1>9
<1>11. \A i \in 1..Len(f) : i > Len(q) => f[i].op \in {"callback", "highWater"}
  <2> SUFFICES ASSUME NEW i \in 1..Len(f), i > Len(q)
               PROVE  f[i].op \in {"callback", "highWater"}
    OBVIOUS
  <2>1. CASE i <= Len(r)
    <3>1. f[i] = a[i - Len(q)] /\ i - Len(q) \in 1..Len(a)
      BY <1>5, <1>6, <1>9, <2>1
    <3> QED
      BY <1>4, <3>1
  <2>2. CASE i > Len(r)
    <3>1. f[i] = b[i - Len(r)] /\ i - Len(r) \in 1..Len(b)
      BY <1>5, <1>6, <1>9, <2>2
    <3> QED
      BY <1>4, <3>1
  <2> QED
    BY <1>5, <1>6, <1>9, <2>1, <2>2
<1>12. f \in Seq(Closures) /\ Len(q) <= Len(f)
  BY <1>5, <1>6, <1>9
<1> QED
  BY <1>10, <1>11, <1>12, Zenon DEF f

\* The queue of closures, with what is left of it to run in this iteration.
Queue ==
  /\ functors \in Seq(Closures)
  /\ batch \in 0..Len(functors)

\* The bytes sent, written and waiting.
Data ==
  /\ outputBuffer_ \in Seq(Bytes) /\ wire \in Seq(Bytes)
  /\ acked \in 0..Len(wire)
  /\ sent \in [Senders \cup {Loop} -> 0..MaxBytes]

\* The variables that are no sequences.
Places ==
  /\ pc \in {"poll", "event", "handler", "functors", "functor", "destroy"}
  /\ revents_ \subseteq kEvents \cup {"hup", "err"}
  /\ state_ \in {"kConnecting", "kConnected", "kDisconnecting", "kDisconnected"}
  /\ call \in [Others -> {"idle", "send", "shutdown", "queue"}]
  /\ {destroyed, fin, sockErr} \subseteq BOOLEAN
  /\ server \in {"has", "erased", "gone"}
  /\ removals \in Nat
  /\ peer \in {"open", "closed", "reset"}
  /\ inbox \in 0..MaxMessages
  /\ callbacks \in Seq({"up", "down"})

\* The callbacks stay a sequence of ups and downs.
LEMMA UpOrDown ==
  ASSUME callbacks \in Seq({"up", "down"})
  PROVE  /\ Append(callbacks, "up") \in Seq({"up", "down"})
         /\ Append(callbacks, "down") \in Seq({"up", "down"})
OBVIOUS

\* What one call sends: the next bytes of its thread.
LEMMA ChunkIs ==
  ASSUME NEW t \in Senders \cup {Loop}, sent \in [Senders \cup {Loop} -> 0..MaxBytes],
         NEW data \in Chunk(t), CanSend(t, data)
  PROVE  /\ data \in Seq(Bytes) /\ Len(data) \in 1..MaxChunk
         /\ \A i \in 1..Len(data) : data[i] = <<t, sent[t] + i>>
         /\ sent[t] \in Nat /\ sent[t] + Len(data) \in 0..MaxBytes
<1>1. PICK n \in 1..MaxChunk : data = [i \in 1..n |-> <<t, sent[t] + i>>]
  BY DEF Chunk
<1>2. MaxChunk \in Nat /\ MaxBytes \in Nat /\ sent[t] \in Nat
  BY TcpConnectionAssumption
<1>3. n \in Nat /\ Len(data) = n /\ DOMAIN data = 1..n
  BY <1>1, <1>2
<1>4. \A i \in 1..n : data[i] = <<t, sent[t] + i>>
  BY <1>1
<1>5. sent[t] + n <= MaxBytes
  BY <1>3 DEF CanSend
<1>6. \A i \in 1..n : <<t, sent[t] + i>> \in Bytes
  BY <1>2, <1>3, <1>5 DEF Bytes
<1>7. data \in Seq(Bytes)
  BY <1>1, <1>3, <1>6
<1> QED
  BY <1>2, <1>3, <1>4, <1>5, <1>7

--------------------------------------------------------------------------

\* handleClose, as far as the places go.
LEMMA ClosePlaces ==
  ASSUME Places, HandleClose
  PROVE  state_' = "kDisconnected" /\ removals' \in Nat /\ callbacks' \in Seq({"up", "down"})
<1>1. removals' \in Nat
  BY DEF HandleClose, Places
<1>2. callbacks' \in Seq({"up", "down"})
  BY UpOrDown DEF HandleClose, Places
<1> QED
  BY <1>1, <1>2 DEF HandleClose

\* Every step keeps the types of Places.
LEMMA PlacesStep ==
  ASSUME Places, [Next]_vars
  PROVE  Places'
<1>1. CASE Poll
  BY <1>1 DEF Poll, Places, Reported, Conditions, kEvents, connVars, callVars, serverVars,
     sockVars
<1>2. CASE OnClose
  <2>1. CASE HandleClose
    BY <1>2, <2>1, ClosePlaces DEF OnClose, Handles, Places, callVars, sockVars
  <2>2. CASE UNCHANGED <<state_, channel_, callbacks, removals>>
    BY <1>2, <2>2 DEF OnClose, Handles, Places, callVars, sockVars
  <2> QED
    BY <1>2, <2>1, <2>2 DEF OnClose
<1>3. CASE OnError
  BY <1>3 DEF OnError, Handles, Places, callVars, connVars, serverVars
<1>4. CASE OnRead
  <2>1. /\ pc' \in {pc, "handler"} /\ inbox' \in 0..MaxMessages
        /\ sockErr' \in BOOLEAN /\ revents_' \subseteq revents_
    BY <1>4, TcpConnectionAssumption DEF OnRead, Handles, Places
  <2>2. UNCHANGED <<destroyed, server, fin, peer, call>>
    BY <1>4 DEF OnRead, Handles, callVars
  <2>3. CASE HandleClose
    BY <2>1, <2>2, <2>3, ClosePlaces DEF Places
  <2>4. CASE UNCHANGED <<state_, channel_, callbacks, removals>>
    BY <2>1, <2>2, <2>4 DEF Places
  <2> QED
    BY <1>4, <2>3, <2>4 DEF OnRead
<1>5. CASE OnWrite
  <2>1. fin' \in BOOLEAN
    <3>1. fin' = fin \/ fin' = TRUE
      BY <1>5 DEF OnWrite, ShutdownInLoop, ShutdownWrite
    <3> QED
      BY <3>1 DEF Places
  <2> QED
    BY <1>5, <2>1 DEF OnWrite, Handles, Places, callVars, serverVars
<1>6. CASE DoPendingFunctors \/ PendingFunctorsDone \/ RunCallback \/ UserReturns
  BY <1>6 DEF DoPendingFunctors, PendingFunctorsDone, RunCallback, Runs, UserReturns, Places,
     connVars, callVars, serverVars, sockVars
<1>7. CASE ConnectEstablished
  BY <1>7, UpOrDown DEF ConnectEstablished, Runs, Places, callVars, serverVars, sockVars
<1>8. CASE RunSendInLoop \/ \E data \in Chunk(Loop) : Send(data)
  BY <1>8 DEF RunSendInLoop, Runs, Send, Places, callVars, serverVars
<1>9. CASE RunShutdownInLoop \/ Shutdown
  <2>1. fin' \in BOOLEAN
    <3>1. fin' = fin \/ fin' = TRUE
      BY <1>9 DEF RunShutdownInLoop, Shutdown, ShutdownInLoop, ShutdownWrite
    <3> QED
      BY <3>1 DEF Places
  <2>2. CASE RunShutdownInLoop
    BY <2>1, <2>2 DEF RunShutdownInLoop, Runs, Places, connVars, callVars, serverVars
  <2>3. CASE Shutdown
    BY <2>1, <2>3 DEF Shutdown, Places, loopVars, callVars, serverVars
  <2> QED
    BY <1>9, <2>2, <2>3
<1>10. CASE ConnectDestroyed
  BY <1>10 DEF ConnectDestroyed, Runs, Places, callVars, serverVars, sockVars
<1>11. CASE DestroyConnected
  BY <1>11, UpOrDown DEF DestroyConnected, Places, callVars, serverVars, sockVars
<1>12. CASE \E t \in Senders : SendTest(t) \/ \E data \in Chunk(t) : SendQueue(t, data)
  <2>1. PICK t \in Senders : call' \in {[call EXCEPT ![t] = "send"], [call EXCEPT ![t] = "idle"]}
    BY <1>12 DEF SendTest, Begins, SendQueue
  <2>2. call' \in [Others -> {"idle", "send", "shutdown", "queue"}]
    BY <2>1 DEF Places, Others
  <2> QED
    BY <1>12, <2>2 DEF SendTest, Begins, SendQueue, Places, loopVars, connVars, serverVars,
       sockVars
<1>13. CASE \E t \in Shutters : ShutdownTest(t) \/ ShutdownSet(t) \/ ShutdownQueue(t)
  <2>1. PICK t \in Shutters :
          call' \in {[call EXCEPT ![t] = c] : c \in {"shutdown", "queue", "idle"}}
    BY <1>13 DEF ShutdownTest, Begins, ShutdownSet, ShutdownQueue
  <2>2. call' \in [Others -> {"idle", "send", "shutdown", "queue"}]
    BY <2>1 DEF Places, Others
  <2> QED
    BY <1>13, <2>2 DEF ShutdownTest, Begins, ShutdownSet, ShutdownQueue, Places, loopVars,
       connVars, serverVars, sockVars
<1>14. CASE RemoveConnectionInLoop \/ ServerDestroyed
  BY <1>14 DEF RemoveConnectionInLoop, ServerDestroyed, Places, connVars, callVars, sockVars
<1>15. CASE Environment
  <2>1. inbox' \in 0..MaxMessages
    <3>1. MaxMessages \in Nat /\ inbox \in 0..MaxMessages
      BY TcpConnectionAssumption DEF Places
    <3>2. inbox' = inbox \/ (inbox < MaxMessages /\ inbox' = inbox + 1)
      BY <1>15 DEF Environment, PeerSends, PeerCloses, PeerResets, PeerAcks
    <3> QED
      BY <3>1, <3>2
  <2>2. /\ peer' \in {"open", "closed", "reset"} /\ sockErr' \in BOOLEAN
        /\ UNCHANGED <<loopVars, connVars, callVars, serverVars, fin>>
    BY <1>15 DEF Environment, PeerSends, PeerCloses, PeerResets, PeerAcks, Places
  <2> QED
    BY <2>1, <2>2 DEF Places, loopVars, connVars, callVars, serverVars
<1>16. CASE UNCHANGED vars
  BY <1>16 DEF vars, loopVars, connVars, callVars, serverVars, sockVars, Places
<1> QED
  BY <1>1, <1>2, <1>3, <1>4, <1>5, <1>6, <1>7, <1>8, <1>9, <1>10, <1>11, <1>12, <1>13,
     <1>14, <1>15, <1>16, Steps

--------------------------------------------------------------------------

\* What a step leaves of the output: as it was, with data sent, or written in part.
LEMMA OutputSteps ==
  ASSUME Data, Queue, [Next]_vars
  PROVE  \/ UNCHANGED <<outputBuffer_, wire>>
         \/ \E data \in Seq(Bytes), n \in Nat, keep \in Seq(Bytes) :
              n \in 0..Len(data) /\ Sends(data, n, keep)
         \/ \E n \in 0..Len(outputBuffer_) :
              /\ wire' = wire \o Front(outputBuffer_, n)
              /\ outputBuffer_' = AfterWrite(n)
<1>1. CASE OnWrite
  <2>1. \/ UNCHANGED <<outputBuffer_, wire>>
        \/ \E n \in Writes(Len(outputBuffer_)) :
             /\ wire' = wire \o Front(outputBuffer_, n)
             /\ outputBuffer_' = AfterWrite(n)
    BY <1>1 DEF OnWrite
  <2>2. Len(outputBuffer_) \in Nat
    BY DEF Data
  <2>3. \A n \in Writes(Len(outputBuffer_)) : n \in 0..Len(outputBuffer_)
    BY <2>2, WritesAre DEF Data
  <2> QED
    BY <2>1, <2>3
<1>2. CASE RunSendInLoop
  <2>1. functors # <<>>
    <3>1. batch > 0 /\ batch \in 0..Len(functors) /\ functors \in Seq(Closures)
      BY <1>2 DEF RunSendInLoop, Runs, Queue
    <3> QED
      BY <3>1
  <2>2. Head(functors).data \in Seq(Bytes)
    <3>1. functors \in Seq(Closures)
      BY DEF Queue
    <3>2. Head(functors) \in Closures
      BY <2>1, <3>1, HeadTailProperties
    <3> QED
      BY <3>2 DEF Closures
  <2>3. SendInLoop(Head(functors).data, Tail(functors))
    BY <1>2 DEF RunSendInLoop
  <2>4. wire \in Seq(Bytes) /\ acked \in 0..Len(wire)
    BY DEF Data
  <2> DEFINE data == Head(functors).data
  <2> HIDE DEF data
  <2>5. \/ UNCHANGED <<outputBuffer_, wire>>
        \/ \E n \in 0..Len(data), keep \in Seq(Bytes) : Sends(data, n, keep)
    BY <2>2, <2>3, <2>4, WhatSends DEF data
  <2>6. Len(data) \in Nat /\ data \in Seq(Bytes)
    BY <2>2 DEF data
  <2> QED
    BY <2>5, <2>6
<1>3. CASE \E data \in Chunk(Loop) : Send(data)
  <2>1. PICK data \in Chunk(Loop) : Send(data)
    BY <1>3
  <2>2. data \in Seq(Bytes) /\ SendInLoop(data, functors)
    BY <2>1, ChunkIs DEF Send, Data
  <2>3. Len(data) \in Nat
    BY <2>2
  <2> QED
    BY <2>2, <2>3, WhatSends DEF Data
<1>4. CASE \/ Poll \/ OnClose \/ OnError \/ OnRead \/ DoPendingFunctors \/ PendingFunctorsDone
           \/ RunShutdownInLoop \/ RunCallback \/ UserReturns \/ Shutdown
           \/ ConnectEstablished \/ ConnectDestroyed \/ DestroyConnected
  BY <1>4 DEF Poll, OnClose, OnError, OnRead, DoPendingFunctors, PendingFunctorsDone,
     RunShutdownInLoop, RunCallback, UserReturns, Shutdown, ConnectEstablished,
     ConnectDestroyed, DestroyConnected, connVars, sockVars
<1>5. CASE \/ \E t \in Senders : SendTest(t) \/ \E data \in Chunk(t) : SendQueue(t, data)
           \/ \E t \in Shutters : ShutdownTest(t) \/ ShutdownSet(t) \/ ShutdownQueue(t)
  BY <1>5 DEF SendTest, SendQueue, ShutdownTest, ShutdownSet, ShutdownQueue, Begins,
     connVars, sockVars
<1>6. CASE RemoveConnectionInLoop \/ ServerDestroyed \/ Environment \/ UNCHANGED vars
  BY <1>6 DEF RemoveConnectionInLoop, ServerDestroyed, Environment, PeerSends, PeerCloses,
     PeerResets, PeerAcks, connVars, sockVars, vars
<1> QED
  BY <1>1, <1>2, <1>3, <1>4, <1>5, <1>6, Steps

\* acked follows what is on the wire.
LEMMA AckedSteps ==
  ASSUME Data, [Next]_vars
  PROVE  acked' = acked \/ (acked < Len(wire) /\ acked' = acked + 1 /\ wire' = wire)
<1>1. CASE \/ Poll \/ OnClose \/ OnError \/ OnRead \/ OnWrite \/ DoPendingFunctors
           \/ PendingFunctorsDone \/ ConnectEstablished \/ RunSendInLoop \/ RunShutdownInLoop
           \/ RunCallback \/ ConnectDestroyed \/ DestroyConnected \/ UserReturns \/ Shutdown
           \/ \E data \in Chunk(Loop) : Send(data)
  BY <1>1 DEF Poll, OnClose, OnError, OnRead, OnWrite, DoPendingFunctors,
     PendingFunctorsDone, ConnectEstablished, RunSendInLoop, RunShutdownInLoop, RunCallback,
     ConnectDestroyed, DestroyConnected, UserReturns, Shutdown, Send, sockVars
<1>2. CASE \/ \E t \in Senders : SendTest(t) \/ \E data \in Chunk(t) : SendQueue(t, data)
           \/ \E t \in Shutters : ShutdownTest(t) \/ ShutdownSet(t) \/ ShutdownQueue(t)
  BY <1>2 DEF SendTest, SendQueue, ShutdownTest, ShutdownSet, ShutdownQueue, Begins, sockVars
<1>3. CASE RemoveConnectionInLoop \/ ServerDestroyed \/ Environment \/ UNCHANGED vars
  BY <1>3 DEF RemoveConnectionInLoop, ServerDestroyed, Environment, PeerSends, PeerCloses,
     PeerResets, PeerAcks, sockVars, vars
<1> QED
  BY <1>1, <1>2, <1>3, Steps

\* sent counts what a thread sends.
LEMMA SentSteps ==
  ASSUME Data, [Next]_vars
  PROVE  \/ sent' = sent
         \/ \E t \in Senders \cup {Loop} : \E data \in Chunk(t) :
              CanSend(t, data) /\ sent' = [sent EXCEPT ![t] = @ + Len(data)]
<1>1. CASE \E data \in Chunk(Loop) : Send(data)
  BY <1>1 DEF Send
<1>2. CASE \E t \in Senders : SendTest(t) \/ \E data \in Chunk(t) : SendQueue(t, data)
  BY <1>2 DEF SendTest, SendQueue, Begins
<1>3. CASE \/ Poll \/ OnClose \/ OnError \/ OnRead \/ OnWrite \/ DoPendingFunctors
           \/ PendingFunctorsDone \/ ConnectEstablished \/ RunSendInLoop \/ RunShutdownInLoop
           \/ RunCallback \/ ConnectDestroyed \/ DestroyConnected \/ UserReturns \/ Shutdown
  BY <1>3 DEF Poll, OnClose, OnError, OnRead, OnWrite, DoPendingFunctors,
     PendingFunctorsDone, ConnectEstablished, RunSendInLoop, RunShutdownInLoop, RunCallback,
     ConnectDestroyed, DestroyConnected, UserReturns, Shutdown, Runs, Handles, callVars
<1>4. CASE \E t \in Shutters : ShutdownTest(t) \/ ShutdownSet(t) \/ ShutdownQueue(t)
  BY <1>4 DEF ShutdownTest, ShutdownSet, ShutdownQueue, Begins
<1>5. CASE RemoveConnectionInLoop \/ ServerDestroyed \/ Environment \/ UNCHANGED vars
  BY <1>5 DEF RemoveConnectionInLoop, ServerDestroyed, Environment, PeerSends, PeerCloses,
     PeerResets, PeerAcks, callVars, vars
<1> QED
  BY <1>1, <1>2, <1>3, <1>4, <1>5, Steps

\* Every step keeps the types of Data.
LEMMA DataStep ==
  ASSUME Data, Queue, [Next]_vars
  PROVE  Data'
<1>1. /\ outputBuffer_' \in Seq(Bytes) /\ wire' \in Seq(Bytes) /\ Len(wire) <= Len(wire')
  <2>0. /\ outputBuffer_ \in Seq(Bytes) /\ wire \in Seq(Bytes)
        /\ Len(outputBuffer_) \in Nat /\ Len(wire) \in Nat
    BY DEF Data
  <2>1. CASE UNCHANGED <<outputBuffer_, wire>>
    BY <2>0, <2>1
  <2>2. ASSUME NEW data \in Seq(Bytes), NEW n \in Nat, NEW keep \in Seq(Bytes),
               n \in 0..Len(data), Sends(data, n, keep)
        PROVE  outputBuffer_' \in Seq(Bytes) /\ wire' \in Seq(Bytes) /\ Len(wire) <= Len(wire')
    <3>1. Front(data, n) \in Seq(Bytes)
      BY <2>2, FrontIs
    <3> QED
      BY <2>0, <2>2, <3>1, ConcatProperties DEF Sends
  <2>3. ASSUME NEW n \in 0..Len(outputBuffer_),
               wire' = wire \o Front(outputBuffer_, n), outputBuffer_' = AfterWrite(n)
        PROVE  outputBuffer_' \in Seq(Bytes) /\ wire' \in Seq(Bytes) /\ Len(wire) <= Len(wire')
    <3>1. Front(outputBuffer_, n) \in Seq(Bytes)
      BY <2>0, FrontIs
    <3>2. Rest(outputBuffer_, n) \in Seq(Bytes)
      BY <2>0, RestIs
    <3>3. AfterWrite(n) \in Seq(Bytes)
      BY <2>0, <3>2, RestIs DEF AfterWrite
    <3> QED
      BY <2>0, <2>3, <3>1, <3>3, ConcatProperties
  <2> QED
    BY <2>1, <2>2, <2>3, OutputSteps
<1>2. acked' \in 0..Len(wire')
  <2>1. Len(wire) \in Nat /\ Len(wire') \in Nat /\ acked \in 0..Len(wire)
    BY <1>1 DEF Data
  <2> QED
    BY <1>1, <2>1, AckedSteps
<1>3. sent' \in [Senders \cup {Loop} -> 0..MaxBytes]
  <2>1. sent \in [Senders \cup {Loop} -> 0..MaxBytes]
    BY DEF Data
  <2>2. ASSUME NEW t \in Senders \cup {Loop}, NEW data \in Chunk(t), CanSend(t, data),
               sent' = [sent EXCEPT ![t] = @ + Len(data)]
        PROVE  sent' \in [Senders \cup {Loop} -> 0..MaxBytes]
    BY <2>1, <2>2, ChunkIs
  <2> QED
    BY <2>1, <2>2, SentSteps
<1> QED
  BY <1>1, <1>2, <1>3 DEF Data

--------------------------------------------------------------------------

\* The queue r is q with closures of these operations behind it.
Later(q, r, ops) ==
  /\ r \in Seq(Closures)
  /\ Len(q) <= Len(r)
  /\ \A i \in 1..Len(q) : r[i] = q[i]
  /\ \A i \in 1..Len(r) : i > Len(q) => r[i].op \in ops

Callbacks == {"callback", "highWater"}

\* A queue to which nothing came.
LEMMA LaterSame == ASSUME NEW q \in Seq(Closures), NEW ops PROVE Later(q, q, ops)
BY DEF Later

\* A queue with one closure more.
LEMMA LaterAppend ==
  ASSUME NEW q \in Seq(Closures), NEW op \in Ops, NEW data \in Seq(Bytes),
         NEW ops, op \in ops
  PROVE  /\ Later(q, Append(q, Functor(op, data)), ops)
         /\ Len(Append(q, Functor(op, data))) = Len(q) + 1
         /\ Append(q, Functor(op, data))[Len(q) + 1] = Functor(op, data)
<1> DEFINE f == Functor(op, data)
<1>1. f \in Closures /\ f.op = op
  BY FunctorIs
<1> HIDE DEF f
<1>2. /\ Append(q, f) \in Seq(Closures) /\ Len(Append(q, f)) = Len(q) + 1
      /\ \A i \in 1..Len(q) : Append(q, f)[i] = q[i]
      /\ Append(q, f)[Len(q) + 1] = f
  BY <1>1, AppendProperties
<1>3. Len(q) \in Nat
  OBVIOUS
<1>4. \A i \in 1..(Len(q) + 1) : i > Len(q) => i = Len(q) + 1
  BY <1>3
<1>5. Later(q, Append(q, f), ops)
  BY <1>1, <1>2, <1>3, <1>4 DEF Later
<1> QED
  BY <1>2, <1>5 DEF f

\* The closure that is run, and the queue without it.
LEMMA Popped ==
  ASSUME Queue, batch > 0
  PROVE  /\ functors # <<>> /\ Head(functors) = functors[1] /\ Head(functors) \in Closures
         /\ Len(functors) \in Nat \ {0}
         /\ Tail(functors) \in Seq(Closures) /\ Len(Tail(functors)) = Len(functors) - 1
         /\ \A i \in 1..Len(Tail(functors)) :
              i + 1 \in 1..Len(functors) /\ Tail(functors)[i] = functors[i + 1]
<1>1. functors \in Seq(Closures) /\ batch \in 0..Len(functors)
  BY DEF Queue
<1>2. functors # <<>> /\ Len(functors) \in Nat \ {0}
  BY <1>1
<1>3. /\ Tail(functors) \in Seq(Closures) /\ Len(Tail(functors)) = Len(functors) - 1
      /\ Head(functors) \in Closures
      /\ \A i \in 1..Len(Tail(functors)) : Tail(functors)[i] = functors[i + 1]
  BY <1>1, <1>2, HeadTailProperties
<1>4. Head(functors) = functors[1]
  BY <1>1, <1>2
<1> QED
  BY <1>2, <1>3, <1>4

\* What each step does to the queue.
QueueSame == functors' = functors /\ batch' \in {batch, Len(functors)}

QueueMore(ops) == Later(functors, functors', ops) /\ batch' = batch

QueuePopped ==
  /\ batch > 0 /\ batch' = batch - 1
  /\ Later(Tail(functors), functors', Callbacks)

\* Every step leaves the queue alone, adds at its end, or takes its head.
LEMMA QueueSteps ==
  ASSUME Queue, Data, [Next]_vars
  PROVE  \/ QueueSame
         \/ QueueMore(Callbacks)
         \/ QueuePopped
         \/ (\E t \in Senders : \E data \in Chunk(t) : SendQueue(t, data))
              /\ QueueMore({"sendInLoop"})
         \/ (\E t \in Shutters : ShutdownQueue(t)) /\ QueueMore({"shutdownInLoop"})
         \/ (RemoveConnectionInLoop \/ ServerDestroyed) /\ QueueMore({"connectDestroyed"})
<1>0. functors \in Seq(Closures)
  BY DEF Queue
<1>1. CASE OnWrite
  <2>1. functors' \in {functors, Append(functors, Functor("callback", <<>>))} /\ batch' = batch
    BY <1>1 DEF OnWrite, Handles
  <2> QED
    BY <1>0, <2>1, LaterSame, LaterAppend, NoData DEF QueueMore, Callbacks, Ops
<1>2. CASE RunSendInLoop
  <2>1. /\ batch > 0 /\ batch' = batch - 1
        /\ SendInLoop(Head(functors).data, Tail(functors))
    BY <1>2 DEF RunSendInLoop, Runs
  <2>2. Tail(functors) \in Seq(Closures)
    BY <2>1, Popped
  <2>3. Later(Tail(functors), functors', Callbacks)
    BY <2>1, <2>2, WhatSendsQueues DEF Later, Callbacks
  <2> QED
    BY <2>1, <2>3 DEF QueuePopped
<1>3. CASE \E data \in Chunk(Loop) : Send(data)
  <2>1. PICK data \in Chunk(Loop) : SendInLoop(data, functors) /\ batch' = batch
    BY <1>3 DEF Send
  <2> QED
    BY <1>0, <2>1, WhatSendsQueues DEF QueueMore, Later, Callbacks
<1>4. CASE ConnectEstablished \/ RunShutdownInLoop \/ RunCallback \/ ConnectDestroyed
  <2>1. batch > 0 /\ batch' = batch - 1 /\ functors' = Tail(functors)
    BY <1>4 DEF ConnectEstablished, RunShutdownInLoop, RunCallback, ConnectDestroyed, Runs
  <2> QED
    BY <2>1, Popped, LaterSame DEF QueuePopped
<1>5. CASE \/ Poll \/ OnClose \/ OnError \/ OnRead \/ DoPendingFunctors \/ PendingFunctorsDone
           \/ UserReturns \/ Shutdown \/ DestroyConnected
  BY <1>5 DEF Poll, OnClose, OnError, OnRead, Handles, DoPendingFunctors, PendingFunctorsDone,
     UserReturns, Shutdown, DestroyConnected, loopVars, QueueSame
<1>6. CASE \E t \in Senders : SendTest(t) \/ \E data \in Chunk(t) : SendQueue(t, data)
  <2>1. CASE \E t \in Senders : SendTest(t)
    BY <2>1 DEF SendTest, Begins, loopVars, QueueSame
  <2>2. ASSUME NEW t \in Senders, NEW data \in Chunk(t), SendQueue(t, data)
        PROVE  QueueMore({"sendInLoop"})
    <3>1. /\ functors' = Append(functors, Functor("sendInLoop", data)) /\ batch' = batch
          /\ CanSend(t, data)
      BY <2>2 DEF SendQueue
    <3>2. data \in Seq(Bytes)
      BY <3>1, ChunkIs DEF Data
    <3> QED
      BY <1>0, <3>1, <3>2, LaterAppend DEF QueueMore, Ops
  <2> QED
    BY <1>6, <2>1, <2>2
<1>7. CASE \E t \in Shutters : ShutdownTest(t) \/ ShutdownSet(t) \/ ShutdownQueue(t)
  <2>1. CASE \E t \in Shutters : ShutdownTest(t) \/ ShutdownSet(t)
    BY <2>1 DEF ShutdownTest, ShutdownSet, Begins, loopVars, QueueSame
  <2>2. CASE \E t \in Shutters : ShutdownQueue(t)
    <3>1. functors' = Append(functors, Functor("shutdownInLoop", <<>>)) /\ batch' = batch
      BY <2>2 DEF ShutdownQueue
    <3> QED
      BY <1>0, <2>2, <3>1, LaterAppend, NoData DEF QueueMore, Ops
  <2> QED
    BY <1>7, <2>1, <2>2
<1>8. CASE RemoveConnectionInLoop \/ ServerDestroyed
  <2>1. /\ functors' \in {functors, Append(functors, Functor("connectDestroyed", <<>>))}
        /\ batch' = batch
    BY <1>8 DEF RemoveConnectionInLoop, ServerDestroyed, QueueConnectDestroyed
  <2> QED
    BY <1>0, <1>8, <2>1, LaterSame, LaterAppend, NoData DEF QueueMore, QueueSame, Ops
<1>9. CASE Environment \/ UNCHANGED vars
  BY <1>9 DEF Environment, PeerSends, PeerCloses, PeerResets, PeerAcks, loopVars, vars,
     QueueSame
<1> QED
  BY <1>1, <1>2, <1>3, <1>4, <1>5, <1>6, <1>7, <1>8, <1>9, Steps

\* Every step keeps the type of the queue, and the batch no longer than it.
LEMMA QueueStep ==
  ASSUME Queue, Data, [Next]_vars
  PROVE  Queue'
<1>0. /\ functors \in Seq(Closures) /\ batch \in 0..Len(functors)
      /\ Len(functors) \in Nat
  BY DEF Queue
<1>1. CASE QueueSame
  BY <1>0, <1>1 DEF QueueSame, Queue
<1>2. ASSUME NEW ops, QueueMore(ops)
      PROVE  Queue'
  <2>1. functors' \in Seq(Closures) /\ Len(functors) <= Len(functors') /\ batch' = batch
    BY <1>2 DEF QueueMore, Later
  <2>2. Len(functors') \in Nat
    BY <2>1
  <2> QED
    BY <1>0, <2>1, <2>2 DEF Queue
<1>3. CASE QueuePopped
  <2>1. batch > 0 /\ batch' = batch - 1 /\ Len(Tail(functors)) = Len(functors) - 1
    BY <1>3, Popped DEF QueuePopped
  <2>2. functors' \in Seq(Closures) /\ Len(Tail(functors)) <= Len(functors')
    BY <1>3 DEF QueuePopped, Later
  <2>3. Len(functors') \in Nat
    BY <2>2
  <2> QED
    BY <1>0, <2>1, <2>2, <2>3 DEF Queue
<1> QED
  BY <1>1, <1>2, <1>3, QueueSteps

Typed == Places /\ Data /\ Queue

\* The types hold at first.
LEMMA TypedAtFirst ==
  ASSUME Init
  PROVE  Typed
<1>1. /\ functors = <<Functor("connectEstablished", <<>>)>>
      /\ Functor("connectEstablished", <<>>) \in Closures
  BY FunctorIs, NoData DEF Init, Ops
<1>2. Queue
  <2>1. functors \in Seq(Closures)
    BY <1>1
  <2>2. Len(functors) \in Nat
    BY <2>1
  <2> QED
    BY <2>1, <2>2 DEF Init, Queue
<1>3. Data
  <2>1. MaxBytes \in Nat
    BY TcpConnectionAssumption
  <2>2. sent \in [Senders \cup {Loop} -> 0..MaxBytes]
    BY <2>1 DEF Init
  <2>3. outputBuffer_ \in Seq(Bytes) /\ wire \in Seq(Bytes)
    BY DEF Init
  <2>4. Len(wire) = 0 /\ acked = 0
    BY DEF Init
  <2> QED
    BY <2>2, <2>3, <2>4 DEF Data
<1>4. Places
  <2>1. 0 \in 0..MaxMessages /\ inbox = 0
    BY TcpConnectionAssumption DEF Init
  <2>2. callbacks \in Seq({"up", "down"})
    BY DEF Init
  <2> QED
    BY <2>1, <2>2 DEF Init, Places
<1> QED
  BY <1>2, <1>3, <1>4 DEF Typed

\* Every step keeps them.
LEMMA TypedStep ==
  ASSUME Typed, [Next]_vars
  PROVE  Typed'
BY PlacesStep, DataStep, QueueStep DEF Typed

\* The types hold in every behaviour.
LEMMA TypedInductive == Spec => []Typed
<1>1. Init => Typed
  BY TypedAtFirst
<1>2. Typed /\ [Next]_vars => Typed'
  BY TypedStep
<1> QED
  BY <1>1, <1>2, PTL DEF Spec

--------------------------------------------------------------------------
(* The write event.                                                         *)

\* Before the connection is up nothing is sent and nothing can have been queued to send.
BeforeUp ==
  callbacks = <<>> =>
    /\ state_ = "kConnecting" /\ ~IsWriting(channel_) /\ outputBuffer_ = <<>>
    /\ \A t \in Others : call[t] = "idle"
    /\ \A i \in 1..Len(functors) : functors[i].op \notin {"sendInLoop", "shutdownInLoop"}

Writing == BeforeUp /\ WritingWhileOutput

\* The functions of Channel.h on the write event.
LEMMA WritingBits ==
  ASSUME NEW c, InStep(c)
  PROVE  /\ IsWriting(EnableWriting(c)) /\ ~IsWriting(DisableWriting(c))
         /\ ~IsWriting(DisableAll(c))
         /\ IsWriting(EnableReading(c)) <=> IsWriting(c)
         /\ IsWriting(Remove(c)) <=> IsWriting(c)
<1>1. /\ EnableWriting(c).events = c.events \cup {"out"}
      /\ EnableReading(c).events = c.events \cup {"in"}
      /\ DisableWriting(c).events = c.events \ {"out"}
      /\ DisableAll(c).events = {} /\ Remove(c).events = c.events
  BY EnablesInStep, DisablesInStep, RemoveInStep
<1> QED
  BY <1>1 DEF IsWriting

\* sendInLoop asks for the write event exactly if it leaves output.
LEMMA SendKeepsWriting ==
  ASSUME Data, InStep(channel_), NEW data \in Seq(Bytes), NEW q, SendInLoop(data, q),
         IsWriting(channel_) <=> outputBuffer_ # <<>>
  PROVE  IsWriting(channel_') <=> outputBuffer_' # <<>>
<1>0. wire \in Seq(Bytes) /\ acked \in 0..Len(wire) /\ outputBuffer_ \in Seq(Bytes)
  BY DEF Data
<1>1. CASE UNCHANGED <<channel_, outputBuffer_, wire>>
  BY <1>1
<1>2. ASSUME NEW n \in 0..Len(data), NEW keep \in Seq(Bytes), Sends(data, n, keep)
      PROVE  IsWriting(channel_') <=> outputBuffer_' # <<>>
  <2>1. CASE keep = <<>>
    <3>1. outputBuffer_' = outputBuffer_ /\ channel_' = channel_
      BY <1>0, <1>2, <2>1, ConcatEmptySeq DEF Sends
    <3> QED
      BY <3>1
  <2>2. CASE keep # <<>>
    <3>1. IsWriting(channel_')
      BY <1>2, <2>2, WritingBits DEF Sends
    <3>2. outputBuffer_' = outputBuffer_ \o keep
      BY <1>2 DEF Sends
    <3>3. outputBuffer_ \o keep # <<>>
      BY <1>0, <2>2
    <3> QED
      BY <3>1, <3>2, <3>3
  <2> QED
    BY <2>1, <2>2
<1> QED
  BY <1>0, <1>1, <1>2, WhatSends

\* handleWrite keeps the write event exactly if it leaves output.
LEMMA WriteKeepsWriting ==
  ASSUME Data, InStep(channel_), OnWrite, IsWriting(channel_) <=> outputBuffer_ # <<>>
  PROVE  IsWriting(channel_') <=> outputBuffer_' # <<>>
<1>1. CASE ~IsWriting(channel_)
  BY <1>1 DEF OnWrite
<1>2. CASE IsWriting(channel_)
  <2>1. PICK n \in Writes(Len(outputBuffer_)) :
          /\ outputBuffer_' = AfterWrite(n)
          /\ IF n > 0 /\ AfterWrite(n) = <<>>
             THEN channel_' = DisableWriting(channel_)
             ELSE channel_' = channel_
    BY <1>2 DEF OnWrite
  <2>2. CASE n > 0 /\ AfterWrite(n) = <<>>
    BY <2>1, <2>2, WritingBits
  <2>3. CASE n > 0 /\ AfterWrite(n) # <<>>
    BY <1>2, <2>1, <2>3
  <2>4. CASE ~(n > 0)
    <3>1. outputBuffer_ \in Seq(Bytes) /\ Len(outputBuffer_) \in Nat
      BY DEF Data
    <3>2. n = 0
      BY <2>4, <3>1, WritesAre DEF Data
    <3>3. Rest(outputBuffer_, 0) = outputBuffer_
      <4>1. /\ Rest(outputBuffer_, 0) \in Seq(Bytes)
            /\ Len(Rest(outputBuffer_, 0)) = Len(outputBuffer_)
            /\ \A i \in 1..Len(Rest(outputBuffer_, 0)) :
                 Rest(outputBuffer_, 0)[i] = outputBuffer_[0 + i]
        BY <3>1, RestIs
      <4> QED
        BY <3>1, <4>1, SeqEqual
    <3>4. outputBuffer_' = outputBuffer_ /\ channel_' = channel_
      BY <2>1, <3>2, <3>3 DEF AfterWrite
    <3> QED
      BY <3>4
  <2> QED
    BY <2>2, <2>3, <2>4
<1> QED
  BY <1>1, <1>2

\* Nothing but "up" comes first, and what follows is no longer just up.
LEMMA FirstIsUp ==
  ASSUME callbacks \in Seq({"up", "down"})
  PROVE  /\ Append(callbacks, "down") # <<>> /\ Append(callbacks, "down") # <<"up">>
         /\ Append(callbacks, "up") # <<>>
         /\ Append(callbacks, "up") = <<"up">> => callbacks = <<>>
<1>1. /\ \A e \in {"up", "down"} : /\ Append(callbacks, e) # <<>>
                                   /\ Len(Append(callbacks, e)) = Len(callbacks) + 1
                                   /\ Append(callbacks, e)[Len(callbacks) + 1] = e
      /\ Len(callbacks) \in Nat
  BY AppendProperties
<1>2. Len(<<"up">>) = 1 /\ <<"up">>[1] = "up"
  OBVIOUS
<1>3. Append(callbacks, "up") = <<"up">> => Len(callbacks) = 0
  BY <1>1, <1>2
<1>4. Append(callbacks, "down") # <<"up">>
  <2> SUFFICES ASSUME Append(callbacks, "down") = <<"up">> PROVE FALSE
    OBVIOUS
  <2>1. Len(callbacks) = 0
    BY <1>1, <1>2
  <2> QED
    BY <1>1, <1>2, <2>1
<1> QED
  BY <1>1, <1>3, <1>4

\* A step that leaves callbacks empty is none of the user's.
LEMMA NotUpSteps ==
  ASSUME Places, BeforeUp, callbacks = <<>>, callbacks' = <<>>, Queue, [Next]_vars
  PROVE  \/ Poll \/ OnError \/ OnWrite \/ UNCHANGED vars \/ Environment
         \/ (OnClose \/ OnRead) /\ UNCHANGED <<state_, channel_, callbacks, removals>>
         \/ DoPendingFunctors \/ PendingFunctorsDone \/ RunCallback \/ UserReturns
         \/ ConnectDestroyed \/ RemoveConnectionInLoop \/ ServerDestroyed
<1>0. /\ state_ = "kConnecting" /\ \A t \in Others : call[t] = "idle"
      /\ \A i \in 1..Len(functors) : functors[i].op \notin {"sendInLoop", "shutdownInLoop"}
  BY DEF BeforeUp
<1>1. ~HandleClose /\ ~ConnectEstablished /\ ~DestroyConnected
  BY FirstIsUp DEF HandleClose, ConnectEstablished, DestroyConnected, Places
<1>2. ~RunSendInLoop /\ ~RunShutdownInLoop
  <2>1. batch > 0 => Head(functors) = functors[1] /\ Len(functors) \in Nat \ {0}
    BY Popped
  <2>2. batch > 0 => Head(functors).op \notin {"sendInLoop", "shutdownInLoop"}
    BY <1>0, <2>1
  <2> QED
    BY <2>2 DEF RunSendInLoop, RunShutdownInLoop, Runs
<1>3. ~Shutdown /\ ~\E data \in Chunk(Loop) : Send(data)
  BY <1>0 DEF Shutdown, Send
<1>4. ~\E t \in Senders : SendTest(t) \/ \E data \in Chunk(t) : SendQueue(t, data)
  BY <1>0 DEF SendTest, Begins, SendQueue, Others
<1>5. ~\E t \in Shutters : ShutdownTest(t) \/ ShutdownSet(t) \/ ShutdownQueue(t)
  BY <1>0 DEF ShutdownTest, Begins, ShutdownSet, ShutdownQueue, Others
<1>6. OnClose \/ OnRead => HandleClose \/ UNCHANGED <<state_, channel_, callbacks, removals>>
  BY DEF OnClose, OnRead
<1> QED
  BY <1>1, <1>2, <1>3, <1>4, <1>5, <1>6, Steps

\* callbacks only grows.
LEMMA CallbacksSteps ==
  ASSUME Places, [Next]_vars
  PROVE  \/ callbacks' = callbacks
         \/ callbacks' = Append(callbacks, "down")
         \/ ConnectEstablished /\ callbacks' = Append(callbacks, "up")
<1>1. CASE OnClose \/ OnRead
  BY <1>1 DEF OnClose, OnRead, HandleClose
<1>2. CASE \/ Poll \/ OnError \/ OnWrite \/ DoPendingFunctors \/ PendingFunctorsDone
           \/ ConnectEstablished \/ RunSendInLoop \/ RunShutdownInLoop \/ RunCallback
           \/ ConnectDestroyed \/ DestroyConnected \/ UserReturns \/ Shutdown
           \/ \E data \in Chunk(Loop) : Send(data)
  BY <1>2 DEF Poll, OnError, OnWrite, DoPendingFunctors, PendingFunctorsDone,
     ConnectEstablished, RunSendInLoop, RunShutdownInLoop, RunCallback, ConnectDestroyed,
     DestroyConnected, UserReturns, Shutdown, Send, connVars
<1>3. CASE \/ \E t \in Senders : SendTest(t) \/ \E data \in Chunk(t) : SendQueue(t, data)
           \/ \E t \in Shutters : ShutdownTest(t) \/ ShutdownSet(t) \/ ShutdownQueue(t)
  BY <1>3 DEF SendTest, SendQueue, ShutdownTest, ShutdownSet, ShutdownQueue, Begins, connVars
<1>4. CASE RemoveConnectionInLoop \/ ServerDestroyed \/ Environment \/ UNCHANGED vars
  BY <1>4 DEF RemoveConnectionInLoop, ServerDestroyed, Environment, PeerSends, PeerCloses,
     PeerResets, PeerAcks, connVars, vars
<1> QED
  BY <1>1, <1>2, <1>3, <1>4, Steps

\* Until connectEstablished has run, every step keeps BeforeUp.
LEMMA BeforeUpStep ==
  ASSUME Typed, InStep(channel_), BeforeUp, [Next]_vars
  PROVE  BeforeUp'
<1> SUFFICES ASSUME callbacks' = <<>>
             PROVE  /\ state_' = "kConnecting" /\ ~IsWriting(channel_') /\ outputBuffer_' = <<>>
                    /\ \A t \in Others : call'[t] = "idle"
                    /\ \A i \in 1..Len(functors') :
                         functors'[i].op \notin {"sendInLoop", "shutdownInLoop"}
  BY DEF BeforeUp, IsWriting
<1>1. callbacks = <<>>
  BY CallbacksSteps, FirstIsUp DEF Typed, Places
<1>2. /\ state_ = "kConnecting" /\ ~IsWriting(channel_) /\ outputBuffer_ = <<>>
      /\ \A t \in Others : call[t] = "idle"
      /\ \A i \in 1..Len(functors) : functors[i].op \notin {"sendInLoop", "shutdownInLoop"}
  BY <1>1 DEF BeforeUp
<1>3. \/ Poll \/ OnError \/ OnWrite \/ UNCHANGED vars \/ Environment
      \/ (OnClose \/ OnRead) /\ UNCHANGED <<state_, channel_, callbacks, removals>>
      \/ DoPendingFunctors \/ PendingFunctorsDone \/ RunCallback \/ UserReturns
      \/ ConnectDestroyed \/ RemoveConnectionInLoop \/ ServerDestroyed
  BY <1>1, NotUpSteps DEF Typed
<1>4. /\ state_' = state_ /\ call' = call /\ outputBuffer_' = outputBuffer_
      /\ channel_' = channel_ \/ channel_' = Remove(channel_)
  <2>1. CASE OnWrite
    BY <1>2, <2>1 DEF OnWrite, Handles, callVars
  <2>2. CASE (OnClose \/ OnRead) /\ UNCHANGED <<state_, channel_, callbacks, removals>>
    BY <2>2 DEF OnClose, OnRead, Handles, callVars
  <2>3. CASE ConnectDestroyed
    BY <1>2, <2>3 DEF ConnectDestroyed, Runs, callVars
  <2>4. CASE \/ Poll \/ OnError \/ UNCHANGED vars \/ Environment \/ DoPendingFunctors
             \/ PendingFunctorsDone \/ RunCallback \/ UserReturns \/ RemoveConnectionInLoop
             \/ ServerDestroyed
    BY <2>4 DEF Poll, OnError, Handles, Environment, PeerSends, PeerCloses, PeerResets,
       PeerAcks, DoPendingFunctors, PendingFunctorsDone, RunCallback, Runs, UserReturns,
       RemoveConnectionInLoop, ServerDestroyed, connVars, callVars, vars
  <2> QED
    BY <1>3, <2>1, <2>2, <2>3, <2>4
<1>5. ~IsWriting(channel_')
  BY <1>2, <1>4, WritingBits
<1>6. \A i \in 1..Len(functors') : functors'[i].op \notin {"sendInLoop", "shutdownInLoop"}
  <2> SUFFICES ASSUME NEW i \in 1..Len(functors')
               PROVE  functors'[i].op \notin {"sendInLoop", "shutdownInLoop"}
    OBVIOUS
  <2>0. Len(functors) \in Nat
    BY DEF Typed, Queue
  <2>1. CASE QueueSame
    BY <1>2, <2>1 DEF QueueSame
  <2>2. ASSUME NEW ops, QueueMore(ops), ops \cap {"sendInLoop", "shutdownInLoop"} = {}
        PROVE  functors'[i].op \notin {"sendInLoop", "shutdownInLoop"}
    BY <1>2, <2>0, <2>2 DEF QueueMore, Later
  <2>3. CASE QueuePopped
    <3>1. /\ Len(Tail(functors)) \in Nat
          /\ \A j \in 1..Len(Tail(functors)) :
               j + 1 \in 1..Len(functors) /\ Tail(functors)[j] = functors[j + 1]
      BY <2>3, Popped DEF QueuePopped, Typed
    <3>2. \A j \in 1..Len(Tail(functors)) : functors'[j] = Tail(functors)[j]
      BY <2>3 DEF QueuePopped, Later
    <3>3. i > Len(Tail(functors)) => functors'[i].op \in Callbacks
      BY <2>3 DEF QueuePopped, Later
    <3> QED
      BY <1>2, <3>1, <3>2, <3>3 DEF Callbacks
  <2>4. ~\E t \in Senders : \E data \in Chunk(t) : SendQueue(t, data)
    BY <1>2 DEF SendQueue, Others
  <2>5. ~\E t \in Shutters : ShutdownQueue(t)
    BY <1>2 DEF ShutdownQueue, Others
  <2>6. QueueSame \/ QueueMore(Callbacks) \/ QueuePopped \/ QueueMore({"connectDestroyed"})
    BY <2>4, <2>5, QueueSteps DEF Typed
  <2> QED
    BY <2>1, <2>2, <2>3, <2>6 DEF Callbacks
<1> QED
  BY <1>2, <1>4, <1>5, <1>6

\* Every step keeps the write event and the waiting output together.
LEMMA WritingStep ==
  ASSUME Typed, InStep(channel_), Writing, [Next]_vars
  PROVE  WritingWhileOutput'
<1> SUFFICES ASSUME callbacks' = <<"up">>, ~destroyed'
             PROVE  IsWriting(channel_') <=> outputBuffer_' # <<>>
  BY DEF WritingWhileOutput, IsWriting
<1>0. Data /\ Places /\ Queue
  BY DEF Typed
<1>1. CASE ConnectEstablished
  <2>1. callbacks = <<>>
    BY <1>0, <1>1, FirstIsUp DEF ConnectEstablished, Places
  <2>2. ~IsWriting(channel_) /\ outputBuffer_ = <<>>
    BY <2>1 DEF Writing, BeforeUp
  <2> QED
    BY <1>1, <2>2, WritingBits DEF ConnectEstablished
<1>2. CASE ~ConnectEstablished
  <2>1. callbacks = <<"up">>
    BY <1>0, <1>2, CallbacksSteps, FirstIsUp DEF Places
  <2>2. ~HandleClose /\ ~DestroyConnected
    BY <1>0, FirstIsUp DEF HandleClose, DestroyConnected, Places
  <2>3. ~destroyed
    <3>1. destroyed' = destroyed \/ destroyed' = TRUE
      <4>1. CASE \/ Poll \/ OnClose \/ OnError \/ OnRead \/ OnWrite \/ DoPendingFunctors
                 \/ PendingFunctorsDone \/ RunSendInLoop \/ RunShutdownInLoop \/ RunCallback
                 \/ ConnectDestroyed \/ UserReturns \/ Shutdown
                 \/ \E data \in Chunk(Loop) : Send(data)
        BY <4>1 DEF Poll, OnClose, OnError, OnRead, OnWrite, DoPendingFunctors,
           PendingFunctorsDone, RunSendInLoop, RunShutdownInLoop, RunCallback,
           ConnectDestroyed, UserReturns, Shutdown, Send, connVars
      <4>2. CASE \/ \E t \in Senders : SendTest(t) \/ \E data \in Chunk(t) : SendQueue(t, data)
                 \/ \E t \in Shutters : ShutdownTest(t) \/ ShutdownSet(t) \/ ShutdownQueue(t)
        BY <4>2 DEF SendTest, SendQueue, ShutdownTest, ShutdownSet, ShutdownQueue, Begins,
           connVars
      <4>3. CASE RemoveConnectionInLoop \/ ServerDestroyed \/ Environment \/ UNCHANGED vars
        BY <4>3 DEF RemoveConnectionInLoop, ServerDestroyed, Environment, PeerSends,
           PeerCloses, PeerResets, PeerAcks, connVars, vars
      <4> QED
        BY <1>2, <2>2, <4>1, <4>2, <4>3, Steps
    <3> QED
      BY <3>1
  <2>4. IsWriting(channel_) <=> outputBuffer_ # <<>>
    BY <2>1, <2>3 DEF Writing, WritingWhileOutput
  <2>5. CASE OnWrite
    BY <1>0, <2>4, <2>5, WriteKeepsWriting
  <2>6. CASE RunSendInLoop
    <3>1. batch > 0 /\ SendInLoop(Head(functors).data, Tail(functors))
      BY <2>6 DEF RunSendInLoop, Runs
    <3>2. Head(functors).data \in Seq(Bytes)
      <4>1. Head(functors) \in Closures
        BY <1>0, <3>1, Popped
      <4> QED
        BY <4>1 DEF Closures
    <3> QED
      BY <1>0, <2>4, <3>1, <3>2, SendKeepsWriting
  <2>7. CASE \E data \in Chunk(Loop) : Send(data)
    <3>1. PICK data \in Chunk(Loop) : Send(data)
      BY <2>7
    <3>2. data \in Seq(Bytes) /\ SendInLoop(data, functors)
      BY <1>0, <3>1, ChunkIs DEF Send, Data
    <3> QED
      BY <1>0, <2>4, <3>2, SendKeepsWriting
  <2>8. CASE OnClose \/ OnRead
    BY <2>2, <2>4, <2>8 DEF OnClose, OnRead
  <2>9. CASE ConnectDestroyed
    BY <2>4, <2>9 DEF ConnectDestroyed
  <2>10. CASE \/ Poll \/ OnError \/ DoPendingFunctors \/ PendingFunctorsDone
              \/ RunShutdownInLoop \/ RunCallback \/ UserReturns \/ Shutdown
    BY <2>4, <2>10 DEF Poll, OnError, DoPendingFunctors, PendingFunctorsDone,
       RunShutdownInLoop, RunCallback, UserReturns, Shutdown, connVars
  <2>11. CASE \/ \E t \in Senders : SendTest(t) \/ \E data \in Chunk(t) : SendQueue(t, data)
              \/ \E t \in Shutters : ShutdownTest(t) \/ ShutdownSet(t) \/ ShutdownQueue(t)
    BY <2>4, <2>11 DEF SendTest, SendQueue, ShutdownTest, ShutdownSet, ShutdownQueue, Begins,
       connVars
  <2>12. CASE RemoveConnectionInLoop \/ ServerDestroyed \/ Environment \/ UNCHANGED vars
    BY <2>4, <2>12 DEF RemoveConnectionInLoop, ServerDestroyed, Environment, PeerSends,
       PeerCloses, PeerResets, PeerAcks, connVars, vars
  <2> QED
    BY <1>2, <2>2, <2>5, <2>6, <2>7, <2>8, <2>9, <2>10, <2>11, <2>12, Steps
<1> QED
  BY <1>1, <1>2

\* Writing holds in every behaviour.
LEMMA WritingInductive == Spec => []Writing
<1>1. Init => Writing
  <2> SUFFICES ASSUME Init PROVE Writing
    OBVIOUS
  <2>1. callbacks = <<>> /\ functors = <<Functor("connectEstablished", <<>>)>>
    BY DEF Init
  <2>2. \A i \in 1..Len(functors) : functors[i].op \notin {"sendInLoop", "shutdownInLoop"}
    <3>1. Functor("connectEstablished", <<>>).op = "connectEstablished"
      BY DEF Functor
    <3> HIDE DEF Functor
    <3>2. \A i \in 1..Len(functors) : functors[i] = Functor("connectEstablished", <<>>)
      BY <2>1
    <3> QED
      BY <3>1, <3>2
  <2>3. ~IsWriting(channel_)
    BY DEF Init, NewChannel, IsWriting
  <2>4. <<>> # <<"up">>
    OBVIOUS
  <2> QED
    BY <2>1, <2>2, <2>3, <2>4 DEF Init, Writing, BeforeUp, WritingWhileOutput
<1>2. Typed /\ InStep(channel_) /\ Writing /\ [Next]_vars => Writing'
  BY BeforeUpStep, WritingStep DEF Writing
<1> QED
  BY <1>1, <1>2, TypedInductive, ChannelInductive, PTL DEF Spec

\* While the connection is up, the write event is asked for exactly as long as output
\* waits, with sends and shutdowns from any thread.
THEOREM WritesWhileOutput == Spec => []WritingWhileOutput
<1>1. Writing => WritingWhileOutput
  BY DEF Writing
<1> QED
  BY <1>1, WritingInductive, PTL

--------------------------------------------------------------------------
(* The order of the bytes.                                                  *)

\* The bytes of each thread are in order in s, all of them come before those in r, and
\* none was sent later than snt says.
Ordered(s) ==
  \A i, j \in 1..Len(s) : i < j /\ s[i][1] = s[j][1] => s[i][2] < s[j][2]

Before(s, r) ==
  \A i \in 1..Len(s), j \in 1..Len(r) : s[i][1] = r[j][1] => s[i][2] < r[j][2]

Numbered(s, snt) == \A i \in 1..Len(s) : s[i][2] <= snt[s[i][1]]

\* p is a stretch of s that begins behind its first k bytes.
Stretch(p, s, k) == \A i \in 1..Len(p) : k + i \in 1..Len(s) /\ p[i] = s[k + i]

\* A byte names its thread and its number.
LEMMA ByteIs ==
  ASSUME NEW s \in Seq(Bytes), NEW i \in 1..Len(s)
  PROVE  s[i][1] \in Senders \cup {Loop} /\ s[i][2] \in Nat
<1>1. s[i] \in Bytes /\ MaxBytes \in Nat
  BY TcpConnectionAssumption
<1> QED
  BY <1>1 DEF Bytes

\* A stretch of bytes in order is in order.
LEMMA StretchOrdered ==
  ASSUME NEW s \in Seq(Bytes), NEW p \in Seq(Bytes), NEW k \in Nat, Stretch(p, s, k), Ordered(s)
  PROVE  Ordered(p)
<1> SUFFICES ASSUME NEW i \in 1..Len(p), NEW j \in 1..Len(p), i < j, p[i][1] = p[j][1]
             PROVE  p[i][2] < p[j][2]
  BY DEF Ordered
<1>1. /\ k + i \in 1..Len(s) /\ p[i] = s[k + i]
      /\ k + j \in 1..Len(s) /\ p[j] = s[k + j]
  BY DEF Stretch
<1>2. k + i < k + j
  OBVIOUS
<1> QED
  BY <1>1, <1>2 DEF Ordered

\* A stretch stands where the whole stands.
LEMMA StretchBefore ==
  ASSUME NEW s, NEW p, NEW r, NEW k, Stretch(p, s, k)
  PROVE  /\ Before(s, r) => Before(p, r)
         /\ Before(r, s) => Before(r, p)
BY DEF Stretch, Before

\* A stretch of bytes already sent was already sent.
LEMMA StretchNumbered ==
  ASSUME NEW s, NEW p, NEW k, Stretch(p, s, k), NEW snt, Numbered(s, snt)
  PROVE  Numbered(p, snt)
BY DEF Stretch, Numbered

\* Front, Rest, and what handleWrite leaves, are stretches one behind the other.
LEMMA Stretches ==
  ASSUME NEW s \in Seq(Bytes), NEW n \in 0..Len(s)
  PROVE  /\ Front(s, n) \in Seq(Bytes) /\ Stretch(Front(s, n), s, 0)
         /\ Rest(s, n) \in Seq(Bytes) /\ Stretch(Rest(s, n), s, n)
         /\ Rest(Rest(s, n), n) \in Seq(Bytes) /\ Stretch(Rest(Rest(s, n), n), s, n + n)
         /\ Ordered(s) => /\ Before(Front(s, n), Rest(s, n))
                          /\ Before(Front(s, n), Rest(Rest(s, n), n))
<1> DEFINE f == Front(s, n)
           r == Rest(s, n)
           t == Rest(Rest(s, n), n)
<1>0. n \in Nat /\ Len(s) \in Nat
  OBVIOUS
<1>1. f \in Seq(Bytes) /\ Len(f) = n /\ \A i \in 1..n : f[i] = s[i]
  BY FrontIs
<1>2. r \in Seq(Bytes) /\ \A i \in 1..Len(r) : n + i \in 1..Len(s) /\ r[i] = s[n + i]
  BY <1>0, RestIs
<1>3. t \in Seq(Bytes) /\ \A i \in 1..Len(t) : n + i \in 1..Len(r) /\ t[i] = r[n + i]
  BY <1>0, <1>2, RestIs
<1> HIDE DEF f, r, t
<1>4. Stretch(f, s, 0)
  BY <1>0, <1>1 DEF Stretch
<1>5. Stretch(r, s, n)
  BY <1>2 DEF Stretch
<1>6. Stretch(t, s, n + n)
  <2> SUFFICES ASSUME NEW i \in 1..Len(t)
               PROVE  (n + n) + i \in 1..Len(s) /\ t[i] = s[(n + n) + i]
    BY DEF Stretch
  <2>1. n + i \in 1..Len(r) /\ t[i] = r[n + i]
    BY <1>3
  <2>2. n + (n + i) \in 1..Len(s) /\ r[n + i] = s[n + (n + i)]
    BY <1>2, <2>1
  <2>3. n + (n + i) = (n + n) + i
    BY <1>0
  <2> QED
    BY <2>1, <2>2, <2>3
<1>7. ASSUME Ordered(s), NEW p, NEW k \in Nat, Stretch(p, s, k), n <= k, p \in Seq(Bytes)
      PROVE  Before(f, p)
  <2> SUFFICES ASSUME NEW i \in 1..Len(f), NEW j \in 1..Len(p), f[i][1] = p[j][1]
               PROVE  f[i][2] < p[j][2]
    BY DEF Before
  <2>1. f[i] = s[i] /\ i \in 1..Len(s) /\ i <= n
    BY <1>0, <1>1
  <2>2. k + j \in 1..Len(s) /\ p[j] = s[k + j]
    BY <1>7 DEF Stretch
  <2>3. i < k + j
    BY <1>0, <1>7, <2>1
  <2> QED
    BY <1>7, <2>1, <2>2, <2>3 DEF Ordered
<1>8. Ordered(s) => Before(f, r) /\ Before(f, t)
  BY <1>0, <1>2, <1>3, <1>5, <1>6, <1>7
<1> QED
  BY <1>1, <1>2, <1>3, <1>4, <1>5, <1>6, <1>8 DEF f, r, t

\* Two sequences of bytes, one behind the other.
LEMMA ConcatOrdered ==
  ASSUME NEW s \in Seq(Bytes), NEW r \in Seq(Bytes)
  PROVE  /\ s \o r \in Seq(Bytes)
         /\ Ordered(s \o r) <=> Ordered(s) /\ Ordered(r) /\ Before(s, r)
         /\ \A t \in Seq(Bytes) : /\ Before(s, t) /\ Before(r, t) => Before(s \o r, t)
                                  /\ Before(t, s) /\ Before(t, r) => Before(t, s \o r)
         /\ \A snt : Numbered(s, snt) /\ Numbered(r, snt) => Numbered(s \o r, snt)
<1> DEFINE c == s \o r
<1>0. Len(s) \in Nat /\ Len(r) \in Nat
  OBVIOUS
<1>1. /\ c \in Seq(Bytes) /\ Len(c) = Len(s) + Len(r)
      /\ \A i \in 1..Len(s) + Len(r) : c[i] = IF i <= Len(s) THEN s[i] ELSE r[i - Len(s)]
  BY ConcatProperties
<1> HIDE DEF c
<1>2. /\ \A i \in 1..Len(s) : i \in 1..Len(c) /\ c[i] = s[i]
      /\ \A i \in 1..Len(r) : Len(s) + i \in 1..Len(c) /\ c[Len(s) + i] = r[i]
  <2>1. ASSUME NEW i \in 1..Len(s)
        PROVE  i \in 1..Len(c) /\ c[i] = s[i]
    BY <1>0, <1>1
  <2>2. ASSUME NEW i \in 1..Len(r)
        PROVE  Len(s) + i \in 1..Len(c) /\ c[Len(s) + i] = r[i]
    <3>1. /\ Len(s) + i \in 1..Len(s) + Len(r) /\ ~(Len(s) + i <= Len(s))
          /\ (Len(s) + i) - Len(s) = i
      BY <1>0
    <3> QED
      BY <1>1, <3>1
  <2> QED
    BY <2>1, <2>2
<1>3. \A i \in 1..Len(c) : \/ i \in 1..Len(s) /\ c[i] = s[i]
                           \/ i > Len(s) /\ i - Len(s) \in 1..Len(r) /\ c[i] = r[i - Len(s)]
  BY <1>0, <1>1
<1>4. ASSUME Ordered(c)
      PROVE  Ordered(s) /\ Ordered(r) /\ Before(s, r)
  <2>1. Ordered(s)
    BY <1>2, <1>4 DEF Ordered
  <2>2. Ordered(r)
    <3> SUFFICES ASSUME NEW i \in 1..Len(r), NEW j \in 1..Len(r), i < j, r[i][1] = r[j][1]
                 PROVE  r[i][2] < r[j][2]
      BY DEF Ordered
    <3> DEFINE x == Len(s) + i
               y == Len(s) + j
    <3>1. x < y /\ x \in 1..Len(c) /\ y \in 1..Len(c) /\ c[x] = r[i] /\ c[y] = r[j]
      BY <1>0, <1>2
    <3> HIDE DEF x, y
    <3> QED
      BY <1>4, <3>1 DEF Ordered
  <2>3. Before(s, r)
    <3> SUFFICES ASSUME NEW i \in 1..Len(s), NEW j \in 1..Len(r), s[i][1] = r[j][1]
                 PROVE  s[i][2] < r[j][2]
      BY DEF Before
    <3> DEFINE y == Len(s) + j
    <3>1. i < y /\ i \in 1..Len(c) /\ y \in 1..Len(c) /\ c[i] = s[i] /\ c[y] = r[j]
      BY <1>0, <1>2
    <3> HIDE DEF y
    <3> QED
      BY <1>4, <3>1 DEF Ordered
  <2> QED
    BY <2>1, <2>2, <2>3
<1>5. ASSUME Ordered(s), Ordered(r), Before(s, r)
      PROVE  Ordered(c)
  <2> SUFFICES ASSUME NEW i \in 1..Len(c), NEW j \in 1..Len(c), i < j, c[i][1] = c[j][1]
               PROVE  c[i][2] < c[j][2]
    BY DEF Ordered
  <2>1. CASE j \in 1..Len(s) /\ c[j] = s[j]
    <3>1. i \in 1..Len(s) /\ c[i] = s[i]
      BY <1>0, <1>3, <2>1
    <3> QED
      BY <1>5, <2>1, <3>1 DEF Ordered
  <2>2. CASE /\ j > Len(s) /\ j - Len(s) \in 1..Len(r) /\ c[j] = r[j - Len(s)]
             /\ i \in 1..Len(s) /\ c[i] = s[i]
    BY <1>5, <2>2 DEF Before
  <2>3. CASE /\ j > Len(s) /\ j - Len(s) \in 1..Len(r) /\ c[j] = r[j - Len(s)]
             /\ i > Len(s) /\ i - Len(s) \in 1..Len(r) /\ c[i] = r[i - Len(s)]
    <3>1. i - Len(s) < j - Len(s)
      BY <1>0
    <3> QED
      BY <1>5, <2>3, <3>1 DEF Ordered
  <2> QED
    BY <1>3, <2>1, <2>2, <2>3
<1>6. ASSUME NEW t \in Seq(Bytes)
      PROVE  /\ Before(s, t) /\ Before(r, t) => Before(c, t)
             /\ Before(t, s) /\ Before(t, r) => Before(t, c)
  BY <1>3 DEF Before
<1>7. ASSUME NEW snt
      PROVE  Numbered(s, snt) /\ Numbered(r, snt) => Numbered(c, snt)
  BY <1>3 DEF Numbered
<1> QED
  BY <1>1, <1>4, <1>5, <1>6, <1>7 DEF c

\* What waits in the queue to be sent: the bytes of other threads, in order.
Sending(q, i) == i \in 1..Len(q) /\ q[i].op = "sendInLoop"

QueueOrdered(q, snt) ==
  /\ \A i \in 1..Len(q) : Sending(q, i) =>
       /\ Ordered(q[i].data) /\ Numbered(q[i].data, snt)
       /\ \A k \in 1..Len(q[i].data) : q[i].data[k][1] \in Senders
  /\ \A i, j \in 1..Len(q) :
       i < j /\ Sending(q, i) /\ Sending(q, j) => Before(q[i].data, q[j].data)

BeforeQueue(s, q) == \A i \in 1..Len(q) : Sending(q, i) => Before(s, q[i].data)

\* The output: the bytes on the wire, then those waiting.
OutputOrdered(w, out, snt) ==
  /\ w \in Seq(Bytes) /\ out \in Seq(Bytes)
  /\ Ordered(w) /\ Ordered(out) /\ Before(w, out)
  /\ Numbered(w, snt) /\ Numbered(out, snt)

AllOrdered(w, out, q, snt) ==
  /\ OutputOrdered(w, out, snt)
  /\ QueueOrdered(q, snt)
  /\ BeforeQueue(w, q) /\ BeforeQueue(out, q)

\* Closures that send nothing do not disturb the order of the queue.
LEMMA LaterOrdered ==
  ASSUME NEW q, Len(q) \in Nat, NEW r, NEW ops, Later(q, r, ops), "sendInLoop" \notin ops
  PROVE  /\ \A snt : QueueOrdered(q, snt) => QueueOrdered(r, snt)
         /\ \A s : BeforeQueue(s, q) => BeforeQueue(s, r)
<1>1. \A i \in 1..Len(r) : Sending(r, i) => i \in 1..Len(q) /\ Sending(q, i) /\ r[i] = q[i]
  BY DEF Later, Sending
<1>2. ASSUME NEW snt, QueueOrdered(q, snt)
      PROVE  QueueOrdered(r, snt)
  BY <1>1, <1>2 DEF QueueOrdered
<1>3. ASSUME NEW s, BeforeQueue(s, q)
      PROVE  BeforeQueue(s, r)
  BY <1>1, <1>3 DEF BeforeQueue
<1> QED
  BY <1>2, <1>3

\* The closure at the head: its bytes come before those still queued.
LEMMA TailOrdered ==
  ASSUME Queue, batch > 0
  PROVE  /\ \A snt : QueueOrdered(functors, snt) => QueueOrdered(Tail(functors), snt)
         /\ \A s : BeforeQueue(s, functors) => BeforeQueue(s, Tail(functors))
         /\ \A snt : Head(functors).op = "sendInLoop" /\ QueueOrdered(functors, snt) =>
              /\ BeforeQueue(Head(functors).data, Tail(functors))
              /\ Ordered(Head(functors).data) /\ Numbered(Head(functors).data, snt)
              /\ Head(functors).data \in Seq(Bytes)
              /\ \A s : BeforeQueue(s, functors) => Before(s, Head(functors).data)
<1> DEFINE r == Tail(functors)
<1>1. /\ Head(functors) = functors[1] /\ 1 \in 1..Len(functors)
      /\ Head(functors) \in Closures
      /\ \A i \in 1..Len(r) : i + 1 \in 1..Len(functors) /\ r[i] = functors[i + 1]
  BY Popped
<1> HIDE DEF r
<1>2. \A i \in 1..Len(r) : Sending(r, i) => Sending(functors, i + 1)
  BY <1>1 DEF Sending
<1>3. ASSUME NEW snt, QueueOrdered(functors, snt)
      PROVE  QueueOrdered(r, snt)
  <2>1. ASSUME NEW i \in 1..Len(r), Sending(r, i)
        PROVE  /\ Ordered(r[i].data) /\ Numbered(r[i].data, snt)
               /\ \A k \in 1..Len(r[i].data) : r[i].data[k][1] \in Senders
    BY <1>1, <1>2, <1>3, <2>1 DEF QueueOrdered
  <2>2. ASSUME NEW i \in 1..Len(r), NEW j \in 1..Len(r), i < j, Sending(r, i), Sending(r, j)
        PROVE  Before(r[i].data, r[j].data)
    <3>1. i + 1 < j + 1
      BY <2>2
    <3> QED
      BY <1>1, <1>2, <1>3, <2>2, <3>1 DEF QueueOrdered
  <2> QED
    BY <2>1, <2>2 DEF QueueOrdered
<1>4. ASSUME NEW s, BeforeQueue(s, functors)
      PROVE  BeforeQueue(s, r)
  BY <1>1, <1>2, <1>4 DEF BeforeQueue
<1>5. ASSUME Head(functors).op = "sendInLoop", NEW snt, QueueOrdered(functors, snt)
      PROVE  /\ BeforeQueue(Head(functors).data, r)
             /\ Ordered(Head(functors).data) /\ Numbered(Head(functors).data, snt)
             /\ Head(functors).data \in Seq(Bytes)
             /\ \A s : BeforeQueue(s, functors) => Before(s, Head(functors).data)
  <2>1. Sending(functors, 1)
    BY <1>1, <1>5 DEF Sending
  <2>2. \A i \in 1..Len(r) : 1 < i + 1
    OBVIOUS
  <2>3. BeforeQueue(functors[1].data, r)
    BY <1>1, <1>2, <1>5, <2>1, <2>2 DEF BeforeQueue, QueueOrdered
  <2>4. functors[1].data \in Seq(Bytes)
    BY <1>1 DEF Closures
  <2>5. Ordered(functors[1].data) /\ Numbered(functors[1].data, snt)
    BY <1>1, <1>5, <2>1 DEF QueueOrdered
  <2>6. \A s : BeforeQueue(s, functors) => Before(s, functors[1].data)
    BY <1>1, <2>1 DEF BeforeQueue
  <2> QED
    BY <1>1, <2>3, <2>4, <2>5, <2>6
<1> QED
  BY <1>3, <1>4, <1>5 DEF r

\* Bytes from two sources, both before what is queued.
LEMMA ConcatBeforeQueue ==
  ASSUME NEW s \in Seq(Bytes), NEW r \in Seq(Bytes), NEW q,
         BeforeQueue(s, q), BeforeQueue(r, q)
  PROVE  BeforeQueue(s \o r, q)
<1> DEFINE c == s \o r
<1>0. Len(s) \in Nat /\ Len(r) \in Nat
  OBVIOUS
<1>1. /\ Len(c) = Len(s) + Len(r)
      /\ \A i \in 1..Len(s) + Len(r) : c[i] = IF i <= Len(s) THEN s[i] ELSE r[i - Len(s)]
  BY ConcatProperties
<1> HIDE DEF c
<1>2. \A i \in 1..Len(c) : \/ i \in 1..Len(s) /\ c[i] = s[i]
                           \/ i > Len(s) /\ i - Len(s) \in 1..Len(r) /\ c[i] = r[i - Len(s)]
  BY <1>0, <1>1
<1>3. BeforeQueue(c, q)
  <2> SUFFICES ASSUME NEW j \in 1..Len(q), Sending(q, j), NEW i \in 1..Len(c),
                      NEW k \in 1..Len(q[j].data), c[i][1] = q[j].data[k][1]
               PROVE  c[i][2] < q[j].data[k][2]
    BY DEF BeforeQueue, Before
  <2>1. Before(s, q[j].data) /\ Before(r, q[j].data)
    BY DEF BeforeQueue
  <2>2. CASE i \in 1..Len(s) /\ c[i] = s[i]
    BY <2>1, <2>2 DEF Before
  <2>3. CASE i - Len(s) \in 1..Len(r) /\ c[i] = r[i - Len(s)]
    BY <2>1, <2>3 DEF Before
  <2> QED
    BY <1>2, <2>2, <2>3
<1> QED
  BY <1>3 DEF c

\* sendInLoop, with data that comes behind all output and before all that is queued.
LEMMA SendKeepsOrder ==
  ASSUME NEW snt, NEW q, wire \in Seq(Bytes), acked \in 0..Len(wire),
         AllOrdered(wire, outputBuffer_, q, snt),
         NEW data \in Seq(Bytes), NEW p, SendInLoop(data, p),
         Ordered(data), Numbered(data, snt), Before(wire, data), Before(outputBuffer_, data),
         BeforeQueue(data, q)
  PROVE  AllOrdered(wire', outputBuffer_', q, snt)
<1>0. /\ outputBuffer_ \in Seq(Bytes) /\ Ordered(wire) /\ Ordered(outputBuffer_)
      /\ Before(wire, outputBuffer_)
      /\ Numbered(wire, snt) /\ Numbered(outputBuffer_, snt)
      /\ QueueOrdered(q, snt) /\ BeforeQueue(wire, q) /\ BeforeQueue(outputBuffer_, q)
  BY DEF AllOrdered, OutputOrdered
<1>1. CASE UNCHANGED <<channel_, outputBuffer_, wire>>
  BY <1>1
<1>2. ASSUME NEW n \in 0..Len(data), NEW keep \in Seq(Bytes), Sends(data, n, keep)
      PROVE  AllOrdered(wire', outputBuffer_', q, snt)
  <2> DEFINE f == Front(data, n)
  <2>1. /\ f \in Seq(Bytes) /\ Stretch(f, data, 0) /\ Len(f) = n
        /\ Stretch(Rest(data, n), data, n) /\ Before(f, Rest(data, n))
        /\ n \in Nat /\ 0 \in Nat
    BY Stretches, FrontIs
  <2> HIDE DEF f
  <2>2. Stretch(keep, data, n) /\ Before(f, keep)
    <3>1. CASE keep = Rest(data, n)
      BY <2>1, <3>1
    <3>2. CASE keep = <<>>
      BY <3>2 DEF Stretch, Before
    <3> QED
      BY <1>2, <3>1, <3>2 DEF Sends
  <2>3. /\ Ordered(f) /\ Numbered(f, snt) /\ Before(wire, f)
        /\ Ordered(keep) /\ Numbered(keep, snt)
        /\ Before(wire, keep) /\ Before(outputBuffer_, keep)
    BY <2>1, <2>2, StretchOrdered, StretchBefore, StretchNumbered
  <2>4. Before(f, outputBuffer_)
    <3>1. Len(f) = 0 \/ Len(outputBuffer_) = 0
      BY <1>2, <2>1 DEF Sends
    <3> QED
      BY <3>1 DEF Before
  <2>5. BeforeQueue(f, q) /\ BeforeQueue(keep, q)
    BY <2>1, <2>2, StretchBefore DEF BeforeQueue
  <2>6. wire' = wire \o f /\ outputBuffer_' = outputBuffer_ \o keep
    BY <1>2 DEF Sends, f
  <2>7. /\ wire \o f \in Seq(Bytes) /\ Ordered(wire \o f) /\ Numbered(wire \o f, snt)
    BY <1>0, <2>1, <2>3, ConcatOrdered
  <2>8. /\ outputBuffer_ \o keep \in Seq(Bytes) /\ Ordered(outputBuffer_ \o keep)
        /\ Numbered(outputBuffer_ \o keep, snt)
    BY <1>0, <2>3, ConcatOrdered
  <2>9. Before(wire \o f, outputBuffer_ \o keep)
    <3>1. Before(wire, outputBuffer_ \o keep) /\ Before(f, outputBuffer_ \o keep)
      BY <1>0, <2>1, <2>2, <2>3, <2>4, ConcatOrdered
    <3> QED
      BY <2>1, <2>8, <3>1, ConcatOrdered
  <2>10. ASSUME NEW s \in Seq(Bytes), NEW r \in Seq(Bytes), BeforeQueue(s, q), BeforeQueue(r, q)
         PROVE  BeforeQueue(s \o r, q)
    BY <2>10, ConcatBeforeQueue
  <2> QED
    BY <1>0, <2>1, <2>5, <2>6, <2>7, <2>8, <2>9, <2>10 DEF AllOrdered, OutputOrdered
<1> QED
  BY <1>1, <1>2, WhatSends

\* A part of the output written, and some of the rest lost (AfterWrite).
LEMMA WriteKeepsOrder ==
  ASSUME NEW snt, NEW q, AllOrdered(wire, outputBuffer_, q, snt),
         NEW n \in 0..Len(outputBuffer_)
  PROVE  AllOrdered(wire \o Front(outputBuffer_, n), AfterWrite(n), q, snt)
<1> DEFINE f == Front(outputBuffer_, n)
           r == AfterWrite(n)
<1>0. /\ wire \in Seq(Bytes) /\ outputBuffer_ \in Seq(Bytes) /\ Ordered(wire)
      /\ Ordered(outputBuffer_) /\ Before(wire, outputBuffer_)
      /\ Numbered(wire, snt) /\ Numbered(outputBuffer_, snt)
      /\ QueueOrdered(q, snt) /\ BeforeQueue(wire, q) /\ BeforeQueue(outputBuffer_, q)
      /\ n \in Nat /\ n + n \in Nat /\ 0 \in Nat
  BY DEF AllOrdered, OutputOrdered
<1>1. /\ f \in Seq(Bytes) /\ Stretch(f, outputBuffer_, 0)
      /\ r \in Seq(Bytes) /\ Stretch(r, outputBuffer_, n + n) /\ Before(f, r)
  BY <1>0, Stretches DEF AfterWrite
<1> HIDE DEF f, r
<1>2. /\ Ordered(f) /\ Ordered(r) /\ Before(wire, f) /\ Before(wire, r)
      /\ Numbered(f, snt) /\ Numbered(r, snt)
  BY <1>0, <1>1, StretchOrdered, StretchBefore, StretchNumbered
<1>3. /\ wire \o f \in Seq(Bytes) /\ Ordered(wire \o f) /\ Numbered(wire \o f, snt)
      /\ Before(wire \o f, r)
  BY <1>0, <1>1, <1>2, ConcatOrdered
<1>4. BeforeQueue(f, q) /\ BeforeQueue(r, q)
  BY <1>0, <1>1, StretchBefore DEF BeforeQueue
<1>5. BeforeQueue(wire \o f, q)
  BY <1>0, <1>1, <1>4, ConcatBeforeQueue
<1>6. AllOrdered(wire \o f, r, q, snt)
  BY <1>0, <1>1, <1>2, <1>3, <1>4, <1>5 DEF AllOrdered, OutputOrdered
<1> QED
  BY <1>6 DEF f, r

\* What has been sent is numbered no higher when more is sent.
LEMMA MoreSent ==
  ASSUME NEW w, NEW out, NEW q, AllOrdered(w, out, q, sent), Data,
         \A i \in 1..Len(q) : q[i].op = "sendInLoop" => q[i].data \in Seq(Bytes),
         NEW snt, \A t \in Senders \cup {Loop} : snt[t] \in Nat /\ sent[t] <= snt[t]
  PROVE  AllOrdered(w, out, q, snt)
<1>1. ASSUME NEW s \in Seq(Bytes), Numbered(s, sent)
      PROVE  Numbered(s, snt)
  <2> SUFFICES ASSUME NEW i \in 1..Len(s)
               PROVE  s[i][2] <= snt[s[i][1]]
    BY DEF Numbered
  <2>1. s[i][1] \in Senders \cup {Loop} /\ s[i][2] \in Nat
    BY ByteIs
  <2>2. s[i][2] <= sent[s[i][1]] /\ sent[s[i][1]] \in Nat
    BY <1>1, <2>1, TcpConnectionAssumption DEF Numbered, Data
  <2> DEFINE a == s[i][2]
             b == sent[s[i][1]]
             c == snt[s[i][1]]
  <2>3. a \in Nat /\ b \in Nat /\ c \in Nat /\ a <= b /\ b <= c
    BY <2>1, <2>2
  <2> HIDE DEF a, b, c
  <2>4. a <= c
    BY <2>3
  <2> QED
    BY <2>4 DEF a, c
<1>2. OutputOrdered(w, out, snt)
  BY <1>1 DEF AllOrdered, OutputOrdered
<1>3. QueueOrdered(q, snt)
  BY <1>1 DEF AllOrdered, QueueOrdered, Sending
<1> QED
  BY <1>2, <1>3 DEF AllOrdered

\* The bytes of one call: in order, and behind everything its thread sent before.
LEMMA ChunkOrdered ==
  ASSUME Data, NEW t \in Senders \cup {Loop}, NEW data \in Chunk(t), CanSend(t, data),
         NEW snt, snt = [sent EXCEPT ![t] = @ + Len(data)]
  PROVE  /\ data \in Seq(Bytes) /\ Ordered(data) /\ Numbered(data, snt)
         /\ \A k \in 1..Len(data) : data[k][1] = t
         /\ \A s \in Seq(Bytes) : Numbered(s, sent) => Before(s, data)
         /\ \A k \in Senders \cup {Loop} : snt[k] \in Nat /\ sent[k] <= snt[k]
<1>0. sent \in [Senders \cup {Loop} -> 0..MaxBytes] /\ MaxBytes \in Nat
  BY TcpConnectionAssumption DEF Data
<1>1. /\ data \in Seq(Bytes) /\ Len(data) \in Nat /\ sent[t] \in Nat
      /\ \A i \in 1..Len(data) : data[i] = <<t, sent[t] + i>>
  BY <1>0, ChunkIs, TcpConnectionAssumption
<1>2. \A i \in 1..Len(data) : data[i][1] = t /\ data[i][2] = sent[t] + i
  BY <1>1
<1>3. snt[t] = sent[t] + Len(data)
  BY <1>0
<1>4. Ordered(data)
  BY <1>1, <1>2 DEF Ordered
<1>5. Numbered(data, snt)
  BY <1>1, <1>2, <1>3 DEF Numbered
<1>6. ASSUME NEW s \in Seq(Bytes), Numbered(s, sent)
      PROVE  Before(s, data)
  <2> SUFFICES ASSUME NEW i \in 1..Len(s), NEW j \in 1..Len(data), s[i][1] = data[j][1]
               PROVE  s[i][2] < data[j][2]
    BY DEF Before
  <2>1. s[i][2] <= sent[t] /\ s[i][2] \in Nat
    BY <1>2, <1>6, ByteIs DEF Numbered
  <2>2. data[j][2] = sent[t] + j
    BY <1>2
  <2> DEFINE a == s[i][2]
             b == data[j][2]
  <2>3. a <= sent[t] /\ a \in Nat /\ b = sent[t] + j
    BY <2>1, <2>2
  <2> HIDE DEF a, b
  <2>4. a < b
    BY <1>1, <2>3
  <2> QED
    BY <2>4 DEF a, b
<1>7. ASSUME NEW k \in Senders \cup {Loop}
      PROVE  snt[k] \in Nat /\ sent[k] <= snt[k]
  <2>1. sent[k] \in Nat
    BY <1>0
  <2>2. snt[k] = IF k = t THEN sent[t] + Len(data) ELSE sent[k]
    BY <1>0
  <2> QED
    BY <1>1, <2>1, <2>2
<1> QED
  BY <1>1, <1>2, <1>4, <1>5, <1>6, <1>7

Order == AllOrdered(wire, outputBuffer_, functors, sent)

\* Steps that neither send nor write.
LEMMA QuietSteps ==
  ASSUME [Next]_vars, Queue, Data
  PROVE  \/ OnWrite \/ RunSendInLoop \/ \E data \in Chunk(Loop) : Send(data)
         \/ \E t \in Senders : \E data \in Chunk(t) : SendQueue(t, data)
         \/ /\ UNCHANGED <<outputBuffer_, wire, sent>>
            /\ \/ QueueSame \/ QueueMore(Callbacks) \/ QueuePopped
               \/ QueueMore({"shutdownInLoop"}) \/ QueueMore({"connectDestroyed"})
<1>1. ASSUME \/ Poll \/ OnClose \/ OnError \/ OnRead \/ DoPendingFunctors
             \/ PendingFunctorsDone \/ RunShutdownInLoop \/ RunCallback \/ UserReturns
             \/ Shutdown \/ ConnectEstablished \/ ConnectDestroyed \/ DestroyConnected
      PROVE  UNCHANGED <<outputBuffer_, wire, sent>>
  BY <1>1 DEF Poll, OnClose, OnError, OnRead, DoPendingFunctors, PendingFunctorsDone,
     RunShutdownInLoop, RunCallback, UserReturns, Shutdown, ConnectEstablished, Runs, Handles,
     ConnectDestroyed, DestroyConnected, connVars, sockVars, callVars
<1>2. ASSUME \/ \E t \in Senders : SendTest(t)
             \/ \E t \in Shutters : ShutdownTest(t) \/ ShutdownSet(t) \/ ShutdownQueue(t)
      PROVE  UNCHANGED <<outputBuffer_, wire, sent>>
  BY <1>2 DEF SendTest, ShutdownTest, ShutdownSet, ShutdownQueue, Begins, connVars, sockVars
<1>3. ASSUME RemoveConnectionInLoop \/ ServerDestroyed \/ Environment \/ UNCHANGED vars
      PROVE  UNCHANGED <<outputBuffer_, wire, sent>>
  BY <1>3 DEF RemoveConnectionInLoop, ServerDestroyed, Environment, PeerSends, PeerCloses,
     PeerResets, PeerAcks, connVars, sockVars, callVars, vars
<1>4. \/ OnWrite \/ RunSendInLoop \/ \E data \in Chunk(Loop) : Send(data)
      \/ \E t \in Senders : \E data \in Chunk(t) : SendQueue(t, data)
      \/ UNCHANGED <<outputBuffer_, wire, sent>>
  BY <1>1, <1>2, <1>3, Steps
<1> QED
  BY <1>4, QueueSteps

\* Every step keeps the bytes in order: on the wire, waiting, and queued.
LEMMA OrderStep ==
  ASSUME Typed, Order, [Next]_vars
  PROVE  Order'
<1>0. /\ Data /\ Queue /\ Len(functors) \in Nat /\ functors \in Seq(Closures)
      /\ wire \in Seq(Bytes) /\ acked \in 0..Len(wire) /\ outputBuffer_ \in Seq(Bytes)
      /\ QueueOrdered(functors, sent)
      /\ BeforeQueue(wire, functors) /\ BeforeQueue(outputBuffer_, functors)
      /\ OutputOrdered(wire, outputBuffer_, sent)
  BY DEF Typed, Data, Queue, Order, AllOrdered
<1>1. ASSUME NEW w, NEW out, NEW snt, NEW q, Len(q) \in Nat, NEW r, NEW ops,
             AllOrdered(w, out, q, snt), Later(q, r, ops), "sendInLoop" \notin ops
      PROVE  AllOrdered(w, out, r, snt)
  BY <1>1, LaterOrdered DEF AllOrdered
<1>2. "sendInLoop" \notin Callbacks
  BY DEF Callbacks
<1>3. CASE /\ UNCHANGED <<outputBuffer_, wire, sent>>
           /\ \/ QueueSame \/ QueueMore(Callbacks) \/ QueuePopped
              \/ QueueMore({"shutdownInLoop"}) \/ QueueMore({"connectDestroyed"})
  <2>1. CASE QueueSame
    BY <1>3, <2>1 DEF QueueSame, Order
  <2>2. ASSUME NEW ops, QueueMore(ops), "sendInLoop" \notin ops
        PROVE  Order'
    <3>1. AllOrdered(wire, outputBuffer_, functors', sent)
      BY <1>0, <1>1, <2>2 DEF QueueMore, Order
    <3> QED
      BY <1>3, <3>1 DEF Order
  <2>3. CASE QueuePopped
    <3>1. AllOrdered(wire, outputBuffer_, Tail(functors), sent) /\ Len(Tail(functors)) \in Nat
      BY <1>0, <2>3, TailOrdered, Popped DEF QueuePopped, AllOrdered
    <3>2. AllOrdered(wire, outputBuffer_, functors', sent)
      BY <1>1, <1>2, <2>3, <3>1 DEF QueuePopped
    <3> QED
      BY <1>3, <3>2 DEF Order
  <2> QED
    BY <1>2, <1>3, <2>1, <2>2, <2>3
<1>4. CASE OnWrite
  <2>1. /\ \/ UNCHANGED <<outputBuffer_, wire>>
           \/ \E n \in Writes(Len(outputBuffer_)) :
                /\ wire' = wire \o Front(outputBuffer_, n)
                /\ outputBuffer_' = AfterWrite(n)
        /\ sent' = sent
        /\ functors' = functors \/ functors' = Append(functors, Functor("callback", <<>>))
    BY <1>4 DEF OnWrite, Handles, callVars
  <2>2. Later(functors, functors', Callbacks)
    BY <1>0, <2>1, LaterSame, LaterAppend, NoData DEF Ops, Callbacks
  <2>3. AllOrdered(wire', outputBuffer_', functors, sent)
    <3>1. Len(outputBuffer_) \in Nat
      BY <1>0
    <3>2. \A n \in Writes(Len(outputBuffer_)) : n \in 0..Len(outputBuffer_)
      BY <1>0, <3>1, WritesAre
    <3> QED
      BY <2>1, <3>2, WriteKeepsOrder DEF Order
  <2>4. AllOrdered(wire', outputBuffer_', functors', sent)
    BY <1>0, <1>1, <1>2, <2>2, <2>3
  <2> QED
    BY <2>1, <2>4 DEF Order
<1>5. CASE RunSendInLoop
  <2> DEFINE d == Head(functors).data
             q == Tail(functors)
  <2>1. /\ batch > 0 /\ Head(functors).op = "sendInLoop" /\ SendInLoop(d, q) /\ sent' = sent
    BY <1>5 DEF RunSendInLoop, Runs, callVars
  <2>2. /\ BeforeQueue(d, q) /\ Ordered(d) /\ Numbered(d, sent) /\ d \in Seq(Bytes)
        /\ Before(wire, d) /\ Before(outputBuffer_, d)
        /\ AllOrdered(wire, outputBuffer_, q, sent)
    BY <1>0, <2>1, TailOrdered DEF AllOrdered
  <2>3. q \in Seq(Closures) /\ Len(q) \in Nat
    BY <1>0, <2>1, Popped
  <2> HIDE DEF d, q
  <2>4. AllOrdered(wire', outputBuffer_', q, sent)
    BY <1>0, <2>1, <2>2, SendKeepsOrder
  <2>5. Later(q, functors', Callbacks)
    BY <2>1, <2>3, WhatSendsQueues DEF Later, Callbacks
  <2>6. AllOrdered(wire', outputBuffer_', functors', sent)
    BY <1>1, <1>2, <2>3, <2>4, <2>5
  <2> QED
    BY <2>1, <2>6 DEF Order
<1>6. \A i \in 1..Len(functors) : functors[i].op = "sendInLoop" => functors[i].data \in Seq(Bytes)
  <2>1. \A i \in 1..Len(functors) : functors[i] \in Closures
    BY <1>0
  <2> QED
    BY <2>1 DEF Closures
<1>7. CASE \E data \in Chunk(Loop) : Send(data)
  <2>1. PICK data \in Chunk(Loop) : Send(data)
    BY <1>7
  <2>2. /\ SendInLoop(data, functors) /\ CanSend(Loop, data)
        /\ sent' = [sent EXCEPT ![Loop] = @ + Len(data)]
    BY <2>1 DEF Send
  <2>3. /\ data \in Seq(Bytes) /\ Ordered(data) /\ Numbered(data, sent')
        /\ \A k \in 1..Len(data) : data[k][1] = Loop
        /\ \A s \in Seq(Bytes) : Numbered(s, sent) => Before(s, data)
        /\ \A k \in Senders \cup {Loop} : sent'[k] \in Nat /\ sent[k] <= sent'[k]
    BY <1>0, <2>2, ChunkOrdered
  <2>4. Before(wire, data) /\ Before(outputBuffer_, data)
    BY <1>0, <2>3 DEF OutputOrdered
  <2>5. BeforeQueue(data, functors)
    <3>1. Loop \notin Senders
      BY TcpConnectionAssumption
    <3> QED
      BY <1>0, <2>3, <3>1 DEF BeforeQueue, Before, QueueOrdered
  <2>6. AllOrdered(wire, outputBuffer_, functors, sent')
    BY <1>0, <1>6, <2>3, MoreSent DEF Order
  <2>7. AllOrdered(wire', outputBuffer_', functors, sent')
    BY <1>0, <2>2, <2>3, <2>4, <2>5, <2>6, SendKeepsOrder
  <2>8. Later(functors, functors', Callbacks)
    BY <1>0, <2>2, <2>3, WhatSendsQueues DEF Later, Callbacks
  <2>9. AllOrdered(wire', outputBuffer_', functors', sent')
    BY <1>0, <1>1, <1>2, <2>7, <2>8
  <2> QED
    BY <2>9 DEF Order
<1>8. CASE \E t \in Senders : \E data \in Chunk(t) : SendQueue(t, data)
  <2>1. PICK t \in Senders : \E data \in Chunk(t) : SendQueue(t, data)
    BY <1>8
  <2>2. PICK data \in Chunk(t) : SendQueue(t, data)
    BY <2>1
  <2>3. /\ functors' = Append(functors, Functor("sendInLoop", data)) /\ CanSend(t, data)
        /\ sent' = [sent EXCEPT ![t] = @ + Len(data)]
        /\ UNCHANGED <<outputBuffer_, wire>>
    BY <2>2 DEF SendQueue, connVars, sockVars
  <2>4. /\ data \in Seq(Bytes) /\ Ordered(data) /\ Numbered(data, sent')
        /\ \A k \in 1..Len(data) : data[k][1] = t
        /\ \A s \in Seq(Bytes) : Numbered(s, sent) => Before(s, data)
        /\ \A k \in Senders \cup {Loop} : sent'[k] \in Nat /\ sent[k] <= sent'[k]
    BY <1>0, <2>3, ChunkOrdered
  <2>5. /\ Later(functors, functors', {"sendInLoop"}) /\ Len(functors') = Len(functors) + 1
        /\ functors'[Len(functors) + 1] = Functor("sendInLoop", data)
        /\ Functor("sendInLoop", data).data = data
    BY <1>0, <2>3, <2>4, LaterAppend, FunctorIs DEF Ops
  <2> DEFINE f == functors'
             n == Len(functors) + 1
  <2>6. /\ Len(f) = n /\ f[n].data = data
        /\ \A i \in 1..n : i = n \/ (i < n /\ i \in 1..Len(functors) /\ f[i] = functors[i])
    BY <1>0, <2>5 DEF Later
  <2>7. AllOrdered(wire, outputBuffer_, functors, sent')
    BY <1>0, <1>6, <2>4, MoreSent DEF Order
  <2> HIDE DEF f, n
  <2>8. \A i \in 1..Len(f) : i # n /\ Sending(f, i) => Sending(functors, i)
    BY <2>6 DEF Sending
  <2>9. BeforeQueue(wire, f) /\ BeforeQueue(outputBuffer_, f)
    <3>1. Before(wire, data) /\ Before(outputBuffer_, data)
      BY <1>0, <2>4 DEF OutputOrdered
    <3> QED
      BY <1>0, <2>6, <2>8, <3>1 DEF BeforeQueue
  <2>10. QueueOrdered(f, sent')
    <3>1. ASSUME NEW i \in 1..Len(f), Sending(f, i)
          PROVE  /\ Ordered(f[i].data) /\ Numbered(f[i].data, sent')
                 /\ \A k \in 1..Len(f[i].data) : f[i].data[k][1] \in Senders
      <4>1. CASE i = n
        BY <2>4, <2>6, <4>1
      <4>2. CASE i # n
        BY <2>6, <2>7, <2>8, <3>1, <4>2 DEF AllOrdered, QueueOrdered
      <4> QED
        BY <4>1, <4>2
    <3>2. ASSUME NEW i \in 1..Len(f), NEW j \in 1..Len(f), i < j, Sending(f, i), Sending(f, j)
          PROVE  Before(f[i].data, f[j].data)
      <4>0. i # n /\ Sending(functors, i) /\ f[i] = functors[i] /\ i \in 1..Len(functors)
        <5>1. i # n
          BY <1>0, <2>6, <3>2 DEF n
        <5> QED
          BY <2>6, <2>8, <3>2, <5>1
      <4>1. CASE j = n
        <5>1. f[i].data \in Seq(Bytes) /\ Numbered(f[i].data, sent)
          BY <1>0, <1>6, <4>0 DEF QueueOrdered, Sending
        <5> QED
          BY <2>4, <2>6, <4>1, <5>1
      <4>2. CASE j # n
        BY <1>0, <2>6, <2>8, <3>2, <4>0, <4>2 DEF QueueOrdered
      <4> QED
        BY <4>1, <4>2
    <3> QED
      BY <3>1, <3>2 DEF QueueOrdered
  <2>11. AllOrdered(wire, outputBuffer_, f, sent')
    BY <2>7, <2>9, <2>10 DEF AllOrdered
  <2> QED
    BY <2>3, <2>11 DEF Order, f
<1> QED
  BY <1>0, <1>3, <1>4, <1>5, <1>7, <1>8, QuietSteps

\* Order holds in every behaviour.
LEMMA OrderInductive == Spec => []Order
<1>1. Init => Order
  <2> SUFFICES ASSUME Init PROVE Order
    OBVIOUS
  <2>1. wire = <<>> /\ outputBuffer_ = <<>> /\ functors = <<Functor("connectEstablished", <<>>)>>
    BY DEF Init
  <2>2. \A i \in 1..Len(functors) : ~Sending(functors, i)
    <3>1. Functor("connectEstablished", <<>>).op = "connectEstablished"
      BY DEF Functor
    <3> HIDE DEF Functor
    <3>2. \A i \in 1..Len(functors) : functors[i] = Functor("connectEstablished", <<>>)
      BY <2>1
    <3> QED
      BY <3>1, <3>2 DEF Sending
  <2>3. QueueOrdered(functors, sent) /\ BeforeQueue(wire, functors)
        /\ BeforeQueue(outputBuffer_, functors)
    BY <2>2 DEF QueueOrdered, BeforeQueue
  <2>4. OutputOrdered(wire, outputBuffer_, sent)
    BY <2>1 DEF OutputOrdered, Ordered, Before, Numbered
  <2> QED
    BY <2>3, <2>4 DEF Order, AllOrdered
<1>2. Typed /\ Order /\ [Next]_vars => Order'
  BY OrderStep
<1> QED
  BY <1>1, <1>2, TypedInductive, PTL DEF Spec

\* The bytes of each thread leave in the order it sent them, whatever is written at once,
\* in part, later, or lost.
THEOREM BytesInOrder == Spec => []InOrder
<1>1. Order => InOrder
  <2> SUFFICES ASSUME Order PROVE InOrder
    OBVIOUS
  <2>1. /\ wire \in Seq(Bytes) /\ outputBuffer_ \in Seq(Bytes)
        /\ Ordered(wire) /\ Ordered(outputBuffer_) /\ Before(wire, outputBuffer_)
    BY DEF Order, AllOrdered, OutputOrdered
  <2> DEFINE out == wire \o outputBuffer_
  <2>2. Ordered(out) /\ out \in Seq(Bytes)
    BY <2>1, ConcatOrdered
  <2> HIDE DEF out
  <2>3. DOMAIN out = 1..Len(out)
    BY <2>2
  <2>4. \A i, j \in DOMAIN out : i < j /\ out[i][1] = out[j][1] => out[i][2] < out[j][2]
    BY <2>2, <2>3 DEF Ordered
  <2> QED
    BY <2>4 DEF InOrder, out
<1> QED
  BY <1>1, OrderInductive, PTL

--------------------------------------------------------------------------
(* The life of a connection that no other thread's shutdown finds closed     *)
(* between its test of state_ and its assignment.                           *)

Up == state_ \in {"kConnected", "kDisconnecting"}

\* What state_ says about the callbacks, the channel and the events still to handle.
LifeOfChannel ==
  /\ state_ = "kConnecting" =>
       callbacks = <<>> /\ channel_.epoll = {} /\ channel_.events = {} /\ ~destroyed
  /\ Up => /\ callbacks = <<"up">>
           /\ destroyed \/ ("in" \in channel_.events /\ channel_.epoll # {})
  /\ state_ = "kDisconnected" =>
       callbacks = <<"up", "down">> /\ channel_.epoll = {} /\ channel_.events = {}
  /\ destroyed => /\ channel_.epoll = {} /\ ~HasChannel(channel_)
                  /\ state_ \in {"kDisconnecting", "kDisconnected"}
                  /\ revents_ = {}
  /\ pc = "destroy" => state_ = "kConnected"
  /\ revents_ # {} => pc \in {"event", "handler"}
  /\ revents_ \cap {"hup", "in"} # {} => Up

\* What may be queued, and who may still send, as the connection grows old.
LifeOfQueue ==
  /\ state_ = "kConnecting" =>
       1 \in 1..Len(functors) /\ functors[1].op = "connectEstablished"
  /\ \A i \in 1..Len(functors) :
       /\ functors[i].op = "connectEstablished" => i = 1 /\ state_ = "kConnecting"
       /\ functors[i].op = "connectDestroyed" =>
            server # "has" /\ (state_ = "kDisconnected" \/ server = "gone")
       /\ functors[i].op = "sendInLoop" => server # "gone"
  /\ state_ = "kConnecting" => \A t \in Others : call[t] = "idle"
  /\ destroyed => state_ = "kDisconnected" \/ server = "gone"
  /\ pc = "destroy" => server = "gone"
  /\ server = "gone" => \A t \in Others : call[t] = "idle"
  /\ removals > 0 => state_ = "kDisconnected"
  /\ removals <= 1

Life == LifeOfChannel /\ LifeOfQueue

\* The callbacks of a connection that comes up, then goes down.
LEMMA UpAndDown ==
  /\ Append(<<>>, "up") = <<"up">>
  /\ Append(<<"up">>, "down") = <<"up", "down">>
<1>1. <<>> \in Seq({"up", "down"}) /\ <<"up">> \in Seq({"up", "down"})
      /\ <<"up", "down">> \in Seq({"up", "down"})
  OBVIOUS
<1>2. Len(<<>>) = 0 /\ Len(<<"up">>) = 1 /\ Len(<<"up", "down">>) = 2
  OBVIOUS
<1>3. Append(<<>>, "up") = <<"up">>
  BY <1>1, <1>2, AppendProperties, SeqEqual
<1>4. /\ Append(<<"up">>, "down") \in Seq({"up", "down"})
      /\ Len(Append(<<"up">>, "down")) = 2
      /\ Append(<<"up">>, "down")[1] = "up" /\ Append(<<"up">>, "down")[2] = "down"
  BY <1>1, <1>2, AppendProperties
<1>5. <<"up", "down">>[1] = "up" /\ <<"up", "down">>[2] = "down"
  OBVIOUS
<1>6. \A i \in 1..2 : i = 1 \/ i = 2
  OBVIOUS
<1>7. Append(<<"up">>, "down") = <<"up", "down">>
  <2> DEFINE a == Append(<<"up">>, "down")
             b == <<"up", "down">>
  <2>1. /\ a \in Seq({"up", "down"}) /\ b \in Seq({"up", "down"}) /\ Len(a) = 2 /\ Len(b) = 2
        /\ a[1] = b[1] /\ a[2] = b[2]
    BY <1>1, <1>2, <1>4, <1>5
  <2> HIDE DEF a, b
  <2>2. \A i \in 1..Len(a) : a[i] = b[i]
    BY <1>6, <2>1
  <2>3. a = b
    BY <2>1, <2>2, SeqEqual
  <2> QED
    BY <2>3 DEF a, b
<1> QED
  BY <1>3, <1>7

\* handleClose of a connection that is up.
LEMMA CloseOnce ==
  ASSUME Places, InStep(channel_), LifeOfChannel, Up, ~destroyed, HandleClose
  PROVE  /\ state_' = "kDisconnected" /\ callbacks' = <<"up", "down">>
         /\ channel_'.epoll = {} /\ channel_'.events = {}
<1>1. callbacks = <<"up">> /\ channel_.epoll # {}
  BY DEF LifeOfChannel
<1>2. DisableAll(channel_).epoll = {} /\ DisableAll(channel_).events = {}
  BY <1>1, DisablesInStep
<1> QED
  BY <1>1, <1>2, UpAndDown DEF HandleClose

\* A closure is run that the queue may hold.
LEMMA NextClosure ==
  ASSUME Queue, LifeOfQueue, LifeOfChannel, pc = "functors", batch > 0
  PROVE  /\ revents_ = {}
         /\ state_ = "kConnecting" => Head(functors).op = "connectEstablished"
         /\ Head(functors).op = "connectEstablished" => state_ = "kConnecting"
         /\ Head(functors).op = "connectDestroyed" =>
              server # "has" /\ (state_ = "kDisconnected" \/ server = "gone")
         /\ Head(functors).op = "sendInLoop" => (destroyed => state_ = "kDisconnected")
<1>1. Head(functors) = functors[1] /\ 1 \in 1..Len(functors)
  BY Popped
<1> QED
  BY <1>1 DEF LifeOfQueue, LifeOfChannel

\* epoll reports something of a connection only while it is up.
LEMMA ReportedWhenUp ==
  ASSUME LifeOfChannel, Reported(channel_, Conditions) # {}, Places
  PROVE  Up /\ ~destroyed
<1>1. channel_.epoll # {}
  BY DEF Reported
<1> QED
  BY <1>1 DEF LifeOfChannel, Up, Places

\* The three ways to touch the channel of a connection that is up.
LEMMA StaysUp ==
  ASSUME InStep(channel_), "in" \in channel_.events, channel_.epoll # {},
         channel_' \in {channel_, EnableWriting(channel_), DisableWriting(channel_)}
  PROVE  "in" \in channel_'.events /\ channel_'.epoll # {}
<1>1. CASE channel_' = channel_
  BY <1>1
<1>2. CASE channel_' = EnableWriting(channel_)
  BY <1>2, EnablesInStep
<1>3. CASE channel_' = DisableWriting(channel_)
  <2>1. /\ DisableWriting(channel_).events = channel_.events \ {"out"}
        /\ DisableWriting(channel_).epoll # {}
    BY DisablesInStep
  <2> QED
    BY <1>3, <2>1
<1> QED
  BY <1>1, <1>2, <1>3

\* handleClose called by a handler.
LEMMA ClosesInHandler ==
  ASSUME Places, InStep(channel_), LifeOfChannel, HandleClose, UNCHANGED destroyed,
         pc = "event", revents_ \cap {"hup", "in"} # {},
         revents_' \subseteq revents_, revents_' \cap {"hup", "in"} = {},
         pc' \in {"event", "handler"}
  PROVE  LifeOfChannel'
<1>1. Up /\ ~destroyed
  BY DEF LifeOfChannel
<1>2. /\ state_' = "kDisconnected" /\ callbacks' = <<"up", "down">>
      /\ channel_'.epoll = {} /\ channel_'.events = {}
  BY <1>1, CloseOnce
<1> QED
  BY <1>1, <1>2 DEF LifeOfChannel, Up

\* The assignment of another thread's shutdown, when it is in time.
LEMMA SetInTime ==
  ASSUME Places, LifeOfQueue, InTime, NEW t \in Shutters, ShutdownSet(t)
  PROVE  Up /\ state_' = "kDisconnecting" /\ server # "gone" /\ call[t] # "idle"
<1>1. t \in Others /\ call[t] = "shutdown" /\ state_' = "kDisconnecting"
  BY DEF ShutdownSet, Others
<1>2. state_ # "kConnecting" /\ state_ # "kDisconnected" /\ server # "gone"
  BY <1>1 DEF LifeOfQueue, InTime
<1> QED
  BY <1>1, <1>2 DEF Places, Up

\* Every step keeps what LifeOfChannel says.
LEMMA LifeOfChannelStep ==
  ASSUME Typed, InStep(channel_), Life, InTime, [Next]_vars
  PROVE  LifeOfChannel'
<1>0. Places /\ Queue /\ Data /\ LifeOfChannel /\ LifeOfQueue
  BY DEF Typed, Life
<1>1. CASE Poll
  <2>1. Reported(channel_, Conditions) # {} => Up /\ ~destroyed
    BY <1>0, ReportedWhenUp
  <2> QED
    BY <1>0, <1>1, <2>1 DEF Poll, connVars, LifeOfChannel, Up
<1>2. CASE OnClose
  <2>1. /\ pc = "event" /\ "hup" \in revents_ /\ revents_' = revents_ \ {"hup"}
        /\ UNCHANGED <<pc, destroyed>>
    BY <1>2 DEF OnClose, Handles
  <2>2. CASE "in" \in revents_
    BY <1>0, <1>2, <2>1, <2>2 DEF OnClose, LifeOfChannel, Up
  <2>3. CASE "in" \notin revents_
    <3>1. HandleClose
      BY <1>2, <2>3 DEF OnClose
    <3> QED
      BY <1>0, <2>1, <2>3, <3>1, ClosesInHandler
  <2> QED
    BY <2>2, <2>3
<1>3. CASE OnError
  BY <1>0, <1>3 DEF OnError, Handles, connVars, LifeOfChannel, Up
<1>4. CASE OnRead
  <2>1. /\ pc = "event" /\ "in" \in revents_ /\ revents_' = revents_ \ {"in"}
        /\ "hup" \notin revents_ /\ UNCHANGED destroyed /\ pc' \in {"event", "handler"}
    BY <1>4 DEF OnRead, Handles
  <2>2. CASE inbox = 0 /\ ~sockErr
    <3>1. HandleClose
      BY <1>4, <2>2 DEF OnRead
    <3> QED
      BY <1>0, <2>1, <3>1, ClosesInHandler
  <2>3. CASE ~(inbox = 0 /\ ~sockErr)
    BY <1>0, <1>4, <2>1, <2>3 DEF OnRead, LifeOfChannel, Up
  <2> QED
    BY <2>2, <2>3
<1>5. CASE OnWrite
  <2>1. /\ pc' = pc /\ revents_' = {} /\ revents_ = {"out"} /\ pc = "event"
        /\ UNCHANGED <<state_, callbacks, destroyed>>
    BY <1>5 DEF OnWrite, Handles
  <2>2. ~destroyed
    BY <1>0, <2>1 DEF LifeOfChannel
  <2>3. channel_' = channel_ \/ (IsWriting(channel_) /\ channel_' = DisableWriting(channel_))
    BY <1>5 DEF OnWrite
  <2>4. CASE Up
    <3>1. "in" \in channel_'.events /\ channel_'.epoll # {}
      BY <1>0, <2>2, <2>3, <2>4, StaysUp DEF LifeOfChannel
    <3> QED
      BY <1>0, <2>1, <2>2, <2>4, <3>1 DEF LifeOfChannel, Up
  <2>5. CASE ~Up
    <3>1. channel_' = channel_
      BY <1>0, <2>3, <2>5 DEF LifeOfChannel, Up, Places, IsWriting
    <3> QED
      BY <1>0, <2>1, <2>2, <2>5, <3>1 DEF LifeOfChannel, Up
  <2> QED
    BY <2>4, <2>5
<1>6. CASE DoPendingFunctors \/ PendingFunctorsDone \/ RunCallback \/ UserReturns
  BY <1>0, <1>6 DEF DoPendingFunctors, PendingFunctorsDone, RunCallback, Runs, UserReturns,
     InUserCode, connVars, LifeOfChannel, Up
<1>7. CASE ConnectEstablished
  <2>1. /\ pc = "functors" /\ batch > 0 /\ Head(functors).op = "connectEstablished"
        /\ state_' = "kConnected" /\ channel_' = EnableReading(channel_)
        /\ callbacks' = Append(callbacks, "up") /\ pc' = "functor"
        /\ UNCHANGED <<destroyed, revents_>>
    BY <1>7 DEF ConnectEstablished, Runs
  <2>2. state_ = "kConnecting" /\ revents_ = {}
    BY <1>0, <2>1, NextClosure
  <2>3. callbacks = <<>> /\ ~destroyed
    BY <1>0, <2>2 DEF LifeOfChannel
  <2>4. "in" \in channel_'.events /\ channel_'.epoll # {}
    BY <2>1, EnablesInStep
  <2>5. callbacks' = <<"up">>
    BY <2>1, <2>3, UpAndDown
  <2> QED
    BY <2>1, <2>2, <2>3, <2>4, <2>5 DEF LifeOfChannel, Up
<1>8. CASE RunSendInLoop
  <2>1. /\ pc = "functors" /\ batch > 0 /\ Head(functors).op = "sendInLoop"
        /\ SendInLoop(Head(functors).data, Tail(functors))
        /\ UNCHANGED <<pc, revents_, state_, callbacks, destroyed>>
    BY <1>8 DEF RunSendInLoop, Runs
  <2>2. /\ revents_ = {} /\ state_ # "kConnecting"
        /\ destroyed => state_ = "kDisconnected"
    BY <1>0, <2>1, NextClosure
  <2>3. CASE state_ = "kDisconnected"
    <3>1. channel_' = channel_
      BY <2>1, <2>3 DEF SendInLoop
    <3> QED
      BY <1>0, <2>1, <3>1 DEF LifeOfChannel, Up
  <2>4. CASE state_ # "kDisconnected"
    <3>1. Up /\ ~destroyed
      BY <1>0, <2>2, <2>4 DEF Up, Places
    <3>2. channel_' \in {channel_, EnableWriting(channel_)}
      BY <2>1, SendsOnChannel
    <3>3. "in" \in channel_'.events /\ channel_'.epoll # {}
      BY <1>0, <3>1, <3>2, StaysUp DEF LifeOfChannel
    <3> QED
      BY <1>0, <2>1, <2>2, <3>1, <3>3 DEF LifeOfChannel, Up
  <2> QED
    BY <2>3, <2>4
<1>9. CASE \E data \in Chunk(Loop) : Send(data)
  <2>1. PICK data \in Chunk(Loop) :
          /\ pc \in {"handler", "functor"} /\ state_ = "kConnected"
          /\ SendInLoop(data, functors)
          /\ UNCHANGED <<pc, revents_, state_, callbacks, destroyed>>
    BY <1>9 DEF Send, InUserCode
  <2>2. Up /\ ~destroyed
    BY <1>0, <2>1 DEF LifeOfChannel, Up
  <2>3. channel_' \in {channel_, EnableWriting(channel_)}
    BY <2>1, SendsOnChannel
  <2>4. "in" \in channel_'.events /\ channel_'.epoll # {}
    BY <1>0, <2>2, <2>3, StaysUp DEF LifeOfChannel
  <2> QED
    BY <1>0, <2>1, <2>2, <2>4 DEF LifeOfChannel, Up
<1>10. CASE RunShutdownInLoop
  BY <1>0, <1>10 DEF RunShutdownInLoop, Runs, connVars, LifeOfChannel, Up
<1>11. CASE Shutdown
  BY <1>0, <1>11 DEF Shutdown, InUserCode, loopVars, LifeOfChannel, Up
<1>12. CASE ConnectDestroyed
  <2>1. /\ pc = "functors" /\ batch > 0 /\ Head(functors).op = "connectDestroyed"
        /\ UNCHANGED <<revents_, state_, callbacks>>
    BY <1>12 DEF ConnectDestroyed, Runs
  <2>2. revents_ = {} /\ state_ # "kConnecting"
    BY <1>0, <2>1, NextClosure
  <2>3. CASE state_ = "kConnected"
    <3>1. pc' = "destroy" /\ UNCHANGED <<channel_, destroyed>>
      BY <1>12, <2>3 DEF ConnectDestroyed
    <3> QED
      BY <1>0, <2>1, <2>2, <2>3, <3>1 DEF LifeOfChannel, Up
  <2>4. CASE state_ # "kConnected"
    <3>1. channel_' = Remove(channel_) /\ destroyed' = TRUE /\ pc' = pc
      BY <1>12, <2>4 DEF ConnectDestroyed
    <3>2. /\ channel_'.epoll = {} /\ ~HasChannel(channel_')
          /\ channel_'.events = channel_.events
      BY <3>1, RemoveInStep
    <3>3. state_ \in {"kDisconnecting", "kDisconnected"}
      BY <1>0, <2>2, <2>4 DEF Places
    <3> QED
      BY <1>0, <2>1, <2>2, <3>1, <3>2, <3>3 DEF LifeOfChannel, Up
  <2> QED
    BY <2>3, <2>4
<1>13. CASE DestroyConnected
  <2>1. /\ pc = "destroy" /\ state_' = "kDisconnected"
        /\ callbacks' = Append(callbacks, "down")
        /\ channel_' = Remove(DisableAll(channel_))
        /\ destroyed' = TRUE /\ pc' = "functors" /\ UNCHANGED revents_
    BY <1>13 DEF DestroyConnected
  <2>2. state_ = "kConnected" /\ revents_ = {} /\ callbacks = <<"up">>
    BY <1>0, <2>1 DEF LifeOfChannel, Up
  <2>3. /\ InStep(DisableAll(channel_)) /\ DisableAll(channel_).events = {}
    BY DisablesInStep
  <2>4. /\ channel_'.epoll = {} /\ ~HasChannel(channel_') /\ channel_'.events = {}
    BY <2>1, <2>3, RemoveInStep
  <2>5. callbacks' = <<"up", "down">>
    BY <2>1, <2>2, UpAndDown
  <2> QED
    BY <2>1, <2>2, <2>4, <2>5 DEF LifeOfChannel, Up
<1>14. CASE \/ \E t \in Senders : SendTest(t) \/ \E data \in Chunk(t) : SendQueue(t, data)
            \/ \E t \in Shutters : ShutdownTest(t) \/ ShutdownQueue(t)
            \/ RemoveConnectionInLoop \/ ServerDestroyed \/ Environment \/ UNCHANGED vars
  <2>1. UNCHANGED <<pc, revents_, connVars>>
    BY <1>14 DEF SendTest, SendQueue, Begins, ShutdownTest, ShutdownQueue,
       RemoveConnectionInLoop, ServerDestroyed,
       Environment, PeerSends, PeerCloses, PeerResets, PeerAcks, vars, loopVars
  <2> QED
    BY <1>0, <2>1 DEF connVars, LifeOfChannel, Up
<1>15. ASSUME NEW t \in Shutters, ShutdownSet(t)
       PROVE  LifeOfChannel'
  <2>1. Up /\ state_' = "kDisconnecting" /\ server # "gone"
    BY <1>0, <1>15, SetInTime
  <2>2. UNCHANGED <<pc, revents_, channel_, callbacks, destroyed>>
    BY <1>15 DEF ShutdownSet, loopVars
  <2>3. pc # "destroy"
    BY <1>0, <2>1 DEF LifeOfQueue
  <2> QED
    BY <1>0, <2>1, <2>2, <2>3 DEF LifeOfChannel, Up
<1> QED
  BY <1>1, <1>2, <1>3, <1>4, <1>5, <1>6, <1>7, <1>8, <1>9, <1>10, <1>11, <1>12, <1>13,
     <1>14, <1>15, Steps

\* The head of the queue is taken by a step that runs it.
LEMMA RunsHead ==
  ASSUME Typed, [Next]_vars, QueuePopped
  PROVE  \/ ConnectEstablished \/ RunSendInLoop \/ RunShutdownInLoop \/ RunCallback
         \/ ConnectDestroyed
<1>0. Queue /\ batch \in Nat /\ batch > 0 /\ batch' = batch - 1
  BY DEF Typed, Queue, QueuePopped
<1>1. CASE DoPendingFunctors
  <2>1. batch' = Len(functors) /\ Len(functors) \in Nat /\ batch <= Len(functors)
    BY <1>0, <1>1 DEF DoPendingFunctors, Queue
  <2> QED
    BY <1>0, <2>1
<1>2. CASE \/ Poll \/ OnClose \/ OnError \/ OnRead \/ OnWrite \/ PendingFunctorsDone
           \/ DestroyConnected \/ UserReturns \/ Shutdown
           \/ \E data \in Chunk(Loop) : Send(data)
           \/ \E t \in Senders : SendTest(t) \/ \E data \in Chunk(t) : SendQueue(t, data)
           \/ \E t \in Shutters : ShutdownTest(t) \/ ShutdownSet(t) \/ ShutdownQueue(t)
           \/ RemoveConnectionInLoop \/ ServerDestroyed \/ Environment \/ UNCHANGED vars
  <2>1. batch' = batch
    BY <1>2 DEF Poll, OnClose, OnError, OnRead, OnWrite, Handles, PendingFunctorsDone,
       DestroyConnected, UserReturns, Shutdown, Send, SendTest, Begins, SendQueue,
       ShutdownTest, ShutdownSet, ShutdownQueue,
       RemoveConnectionInLoop, ServerDestroyed, Environment, PeerSends, PeerCloses,
       PeerResets, PeerAcks, vars, loopVars
  <2> QED
    BY <1>0, <2>1
<1> QED
  BY <1>1, <1>2, Steps

\* The first closure of a connection that is still connecting is connectEstablished.
LEMMA EstablishedFirst ==
  ASSUME Typed, Life, [Next]_vars, QueuePopped, state_ = "kConnecting"
  PROVE  ConnectEstablished
<1>0. Queue /\ LifeOfChannel /\ LifeOfQueue /\ batch > 0
  BY DEF Typed, Life, QueuePopped
<1>1. CASE \/ RunSendInLoop \/ RunShutdownInLoop \/ RunCallback \/ ConnectDestroyed
  <2>1. pc = "functors" /\ Head(functors).op # "connectEstablished"
    BY <1>1 DEF RunSendInLoop, RunShutdownInLoop, RunCallback, ConnectDestroyed, Runs
  <2> QED
    BY <1>0, <2>1, NextClosure
<1> QED
  BY <1>1, RunsHead

\* What a step does to the connection's state, and to the server that holds it.
Ages ==
  /\ state_ = "kDisconnected" => state_' = "kDisconnected"
  /\ state_ = "kConnecting" => state_' = "kConnecting" \/ ConnectEstablished
  /\ state_' = "kConnecting" => state_ = "kConnecting"
  /\ destroyed' => destroyed \/ state_' = "kDisconnected" \/ server = "gone"
  /\ removals' \in {0, removals, removals - 1}
       \/ (removals' = removals + 1 /\ Up /\ state_' = "kDisconnected")
  /\ server = "gone" => server' = "gone"
  /\ server # "has" => server' # "has"
  /\ pc' = "destroy" => pc = "destroy" \/ server = "gone"
  /\ server' = "gone" => call' = call
  /\ state_' = "kConnecting" => call' = call

\* handleClose called by a handler, once more.
LEMMA ClosingAges ==
  ASSUME Places, LifeOfChannel, HandleClose, UNCHANGED <<destroyed, server, call>>,
         pc' # "destroy", revents_ \cap {"hup", "in"} # {}
  PROVE  Ages
<1>1. Up /\ state_ # "kDisconnected" /\ state_ # "kConnecting"
  BY DEF LifeOfChannel, Up
<1>2. state_' = "kDisconnected" /\ (removals' = removals + 1 \/ removals' = removals + 0)
  BY DEF HandleClose
<1>3. removals \in Nat
  BY DEF Places
<1> QED
  BY <1>1, <1>2, <1>3 DEF Ages

\* Every step does to the state what Ages says.
LEMMA EachAges ==
  ASSUME Typed, Life, InTime, [Next]_vars
  PROVE  Ages
<1>0. Places /\ Queue /\ LifeOfChannel /\ LifeOfQueue
  BY DEF Typed, Life
<1>1. CASE OnClose
  <2>1. "hup" \in revents_ /\ UNCHANGED <<destroyed, server, call>> /\ pc' # "destroy"
    BY <1>1 DEF OnClose, Handles, callVars
  <2>2. HandleClose \/ UNCHANGED <<state_, removals>>
    BY <1>1 DEF OnClose
  <2> QED
    BY <1>0, <2>1, <2>2, ClosingAges DEF Ages
<1>2. CASE OnRead
  <2>1. "in" \in revents_ /\ UNCHANGED <<destroyed, server, call>> /\ pc' # "destroy"
    BY <1>2 DEF OnRead, Handles, callVars
  <2>2. HandleClose \/ UNCHANGED <<state_, removals>>
    BY <1>2 DEF OnRead
  <2> QED
    BY <1>0, <2>1, <2>2, ClosingAges DEF Ages
<1>3. CASE ConnectEstablished
  <2>1. /\ pc = "functors" /\ batch > 0 /\ Head(functors).op = "connectEstablished"
        /\ state_' = "kConnected" /\ UNCHANGED <<destroyed, server, removals, call>>
        /\ pc' = "functor"
    BY <1>3 DEF ConnectEstablished, Runs, callVars, serverVars
  <2>2. state_ = "kConnecting"
    BY <1>0, <2>1, NextClosure
  <2> QED
    BY <1>3, <2>1, <2>2 DEF Ages
<1>4. CASE ConnectDestroyed
  <2>1. /\ pc = "functors" /\ batch > 0 /\ Head(functors).op = "connectDestroyed"
        /\ UNCHANGED <<state_, server, removals, call>>
    BY <1>4 DEF ConnectDestroyed, Runs, callVars, serverVars
  <2>2. state_ = "kDisconnected" \/ server = "gone"
    BY <1>0, <2>1, NextClosure
  <2>3. pc' = "destroy" => state_ = "kConnected"
    BY <1>4, <2>1 DEF ConnectDestroyed
  <2> QED
    BY <2>1, <2>2, <2>3 DEF Ages
<1>5. CASE DestroyConnected
  <2>1. state_ = "kConnected"
    BY <1>0, <1>5 DEF DestroyConnected, LifeOfChannel
  <2> QED
    BY <1>5, <2>1 DEF DestroyConnected, Ages, callVars, serverVars
<1>6. CASE Shutdown
  BY <1>6 DEF Shutdown, Ages, loopVars, callVars, serverVars
<1>7. CASE \/ Poll \/ OnError \/ OnWrite \/ DoPendingFunctors \/ PendingFunctorsDone
           \/ RunSendInLoop \/ RunShutdownInLoop \/ RunCallback \/ UserReturns
           \/ \E data \in Chunk(Loop) : Send(data)
           \/ Environment \/ UNCHANGED vars
  <2>1. UNCHANGED <<state_, destroyed, server, removals, call>>
        /\ (pc' = "destroy" => pc = "destroy")
    BY <1>7 DEF Poll, OnError, OnWrite, Handles, DoPendingFunctors, PendingFunctorsDone,
       RunSendInLoop, RunShutdownInLoop, RunCallback, Runs, UserReturns, Send, Environment,
       PeerSends, PeerCloses, PeerResets, PeerAcks, loopVars, connVars, callVars, serverVars,
       vars
  <2> QED
    BY <2>1 DEF Ages
<1>8. CASE \E t \in Senders : SendTest(t) \/ \E data \in Chunk(t) : SendQueue(t, data)
  <2>1. UNCHANGED <<pc, state_, destroyed, server, removals>>
    BY <1>8 DEF SendTest, Begins, SendQueue, loopVars, connVars, serverVars
  <2>2. PICK t \in Others :
          (server # "gone" /\ state_ = "kConnected") \/ call[t] # "idle"
    BY <1>8 DEF SendTest, Begins, SendQueue, Others
  <2>3. server # "gone" /\ state_ # "kConnecting"
    BY <1>0, <2>2 DEF LifeOfQueue
  <2> QED
    BY <2>1, <2>3 DEF Ages
<1>9. CASE RemoveConnectionInLoop
  BY <1>9 DEF RemoveConnectionInLoop, connVars, callVars, Ages
<1>10. CASE ServerDestroyed
  BY <1>10 DEF ServerDestroyed, connVars, callVars, Ages
<1>11. ASSUME NEW t \in Shutters, ShutdownTest(t) \/ ShutdownQueue(t) PROVE Ages
  <2>1. UNCHANGED <<pc, state_, destroyed, server, removals>>
    BY <1>11 DEF ShutdownTest, Begins, ShutdownQueue, loopVars, connVars, serverVars
  <2>2. (server # "gone" /\ state_ = "kConnected") \/ call[t] # "idle"
    BY <1>11 DEF ShutdownTest, Begins, ShutdownQueue
  <2>3. server # "gone" /\ state_ # "kConnecting"
    BY <1>0, <2>2 DEF LifeOfQueue, Others
  <2> QED
    BY <2>1, <2>3 DEF Ages
<1>12. ASSUME NEW t \in Shutters, ShutdownSet(t) PROVE Ages
  <2>1. Up /\ state_' = "kDisconnecting" /\ server # "gone"
    BY <1>0, <1>12, SetInTime
  <2>2. UNCHANGED <<pc, destroyed, server, removals>>
    BY <1>12 DEF ShutdownSet, loopVars, serverVars
  <2> QED
    BY <2>1, <2>2 DEF Ages, Up
<1> QED
  BY <1>1, <1>2, <1>3, <1>4, <1>5, <1>6, <1>7, <1>8, <1>9, <1>10, <1>11, <1>12, Steps

\* The queue, as far as it ages with the connection.
QueueLife ==
  /\ state_ = "kConnecting" =>
       1 \in 1..Len(functors) /\ functors[1].op = "connectEstablished"
  /\ \A i \in 1..Len(functors) :
       /\ functors[i].op = "connectEstablished" => i = 1 /\ state_ = "kConnecting"
       /\ functors[i].op = "connectDestroyed" =>
            server # "has" /\ (state_ = "kDisconnected" \/ server = "gone")
       /\ functors[i].op = "sendInLoop" => server # "gone"

\* A closure that may be put in the queue.
MayQueue(op) ==
  /\ op # "connectEstablished"
  /\ op = "connectDestroyed" =>
       server' # "has" /\ (state_' = "kDisconnected" \/ server' = "gone")
  /\ op = "sendInLoop" => server' # "gone"

\* Closures put behind the queue keep QueueLife if they may be queued.
LEMMA GrowingAges ==
  ASSUME Typed, Life, Ages, state_ = "kConnecting" => state_' = "kConnecting",
         server # "gone" /\ server' = "gone" =>
           \A i \in 1..Len(functors) : functors[i].op # "sendInLoop",
         NEW ops, \A op \in ops : MayQueue(op), Later(functors, functors', ops)
  PROVE  QueueLife'
<1>1. /\ functors \in Seq(Closures) /\ functors' \in Seq(Closures)
      /\ Len(functors) \in Nat /\ Len(functors') \in Nat /\ Len(functors) <= Len(functors')
      /\ \A i \in 1..Len(functors) : functors'[i] = functors[i]
      /\ \A i \in 1..Len(functors') : i > Len(functors) => functors'[i].op \in ops
  BY DEF Typed, Queue, Later
<1>2. state_' = "kConnecting" =>
        1 \in 1..Len(functors') /\ functors'[1].op = "connectEstablished"
  <2> SUFFICES ASSUME state_' = "kConnecting"
               PROVE  1 \in 1..Len(functors') /\ functors'[1].op = "connectEstablished"
    OBVIOUS
  <2>1. 1 \in 1..Len(functors) /\ functors[1].op = "connectEstablished"
    BY DEF Life, LifeOfQueue, Ages
  <2> QED
    BY <1>1, <2>1
<1>3. ASSUME NEW i \in 1..Len(functors')
      PROVE  /\ functors'[i].op = "connectEstablished" => i = 1 /\ state_' = "kConnecting"
             /\ functors'[i].op = "connectDestroyed" =>
                  server' # "has" /\ (state_' = "kDisconnected" \/ server' = "gone")
             /\ functors'[i].op = "sendInLoop" => server' # "gone"
  <2>1. CASE i \in 1..Len(functors)
    <3>1. functors'[i] = functors[i]
      BY <1>1, <2>1
    <3>2. /\ functors[i].op = "connectEstablished" => i = 1 /\ state_ = "kConnecting"
          /\ functors[i].op = "connectDestroyed" =>
               server # "has" /\ (state_ = "kDisconnected" \/ server = "gone")
          /\ functors[i].op = "sendInLoop" => server # "gone" /\ server' # "gone"
      BY <2>1 DEF Life, LifeOfQueue
    <3> QED
      BY <3>1, <3>2 DEF Ages
  <2>2. CASE i > Len(functors)
    <3>1. functors'[i].op \in ops
      BY <1>1, <2>2
    <3>2. MayQueue(functors'[i].op)
      BY <3>1
    <3> QED
      BY <3>2 DEF MayQueue
  <2> QED
    BY <1>1, <2>1, <2>2
<1> QED
  BY <1>2, <1>3 DEF QueueLife

\* Running the closure at the head keeps QueueLife.
LEMMA PoppingAges ==
  ASSUME Typed, Life, Ages, InTime, [Next]_vars, QueuePopped, server' = server
  PROVE  QueueLife'
<1>0. Queue /\ LifeOfQueue /\ batch > 0
  BY DEF Typed, Life, QueuePopped
<1> DEFINE t == Tail(functors)
<1>1. /\ t \in Seq(Closures) /\ Len(t) \in Nat
      /\ \A i \in 1..Len(t) : i + 1 \in 1..Len(functors) /\ t[i] = functors[i + 1]
  BY <1>0, Popped
<1>2. /\ functors' \in Seq(Closures) /\ Len(functors') \in Nat /\ Len(t) <= Len(functors')
      /\ \A i \in 1..Len(t) : functors'[i] = t[i]
      /\ \A i \in 1..Len(functors') : i > Len(t) => functors'[i].op \in Callbacks
  BY DEF QueuePopped, Later
<1> HIDE DEF t
<1>3. state_' # "kConnecting"
  <2>1. CASE state_ = "kConnecting"
    <3>1. ConnectEstablished
      BY <2>1, EstablishedFirst
    <3> QED
      BY <3>1 DEF ConnectEstablished
  <2> QED
    BY <2>1 DEF Ages
<1>4. ASSUME NEW i \in 1..Len(functors')
      PROVE  /\ functors'[i].op # "connectEstablished"
             /\ functors'[i].op = "connectDestroyed" =>
                  server' # "has" /\ (state_' = "kDisconnected" \/ server' = "gone")
             /\ functors'[i].op = "sendInLoop" => server' # "gone"
  <2>1. CASE i \in 1..Len(t)
    <3>1. i + 1 \in 1..Len(functors) /\ functors'[i] = functors[i + 1] /\ i + 1 # 1
      BY <1>1, <1>2, <2>1
    <3> DEFINE j == i + 1
    <3> HIDE DEF j
    <3>2. j \in 1..Len(functors) /\ functors'[i] = functors[j] /\ j # 1
      BY <3>1 DEF j
    <3>3. /\ functors[j].op # "connectEstablished"
          /\ functors[j].op = "connectDestroyed" =>
               server # "has" /\ (state_ = "kDisconnected" \/ server = "gone")
          /\ functors[j].op = "sendInLoop" => server # "gone"
      BY <1>0, <3>2 DEF LifeOfQueue
    <3> QED
      BY <3>2, <3>3 DEF Ages
  <2>2. CASE i > Len(t)
    BY <1>2, <2>2 DEF Callbacks
  <2> QED
    BY <1>1, <1>2, <2>1, <2>2
<1> QED
  BY <1>3, <1>4 DEF QueueLife

\* Two steps only change what the server is.
LEMMA ServerSteps ==
  ASSUME [Next]_vars
  PROVE  server' = server \/ RemoveConnectionInLoop \/ ServerDestroyed
<1>1. CASE \/ Poll \/ OnClose \/ OnError \/ OnRead \/ OnWrite
           \/ DoPendingFunctors \/ PendingFunctorsDone
           \/ ConnectEstablished \/ RunSendInLoop \/ RunShutdownInLoop \/ RunCallback
           \/ ConnectDestroyed \/ DestroyConnected \/ UserReturns
           \/ Shutdown \/ \E data \in Chunk(Loop) : Send(data)
  BY <1>1 DEF Poll, OnClose, OnError, OnRead, OnWrite, DoPendingFunctors, PendingFunctorsDone,
     ConnectEstablished, RunSendInLoop, RunShutdownInLoop, RunCallback, Runs, ConnectDestroyed,
     DestroyConnected, UserReturns, Shutdown, Send, serverVars
<1>2. CASE \/ \E t \in Senders : SendTest(t) \/ \E data \in Chunk(t) : SendQueue(t, data)
           \/ \E t \in Shutters : ShutdownTest(t) \/ ShutdownSet(t) \/ ShutdownQueue(t)
           \/ Environment \/ UNCHANGED vars
  BY <1>2 DEF SendTest, SendQueue, Begins, ShutdownTest, ShutdownSet, ShutdownQueue,
     Environment, PeerSends, PeerCloses, PeerResets, PeerAcks, vars, serverVars
<1> QED
  BY <1>1, <1>2, Steps

\* The server goes only when no other thread's closure is queued.
LEMMA NoSendLeftBehind ==
  ASSUME Typed, [Next]_vars, server # "gone", server' = "gone"
  PROVE  \A i \in 1..Len(functors) : functors[i].op # "sendInLoop"
<1>1. ServerDestroyed
  BY ServerSteps DEF RemoveConnectionInLoop
<1>2. DOMAIN functors = 1..Len(functors)
  BY DEF Typed, Queue
<1> QED
  BY <1>1, <1>2 DEF ServerDestroyed

\* Every step keeps QueueLife.
LEMMA QueueLifeStep ==
  ASSUME Typed, Life, InTime, [Next]_vars
  PROVE  QueueLife'
<1>0. /\ Ages /\ Queue /\ Data /\ LifeOfQueue
      /\ functors \in Seq(Closures) /\ Len(functors) \in Nat /\ batch \in 0..Len(functors)
  BY EachAges DEF Typed, Life, Queue
<1>1. server # "gone" /\ server' = "gone" =>
        \A i \in 1..Len(functors) : functors[i].op # "sendInLoop"
  BY NoSendLeftBehind
<1>2. ASSUME batch' = batch \/ batch' = Len(functors)
      PROVE  state_ = "kConnecting" => state_' = "kConnecting"
  <2>1. ~ConnectEstablished
    <3>1. ConnectEstablished => batch > 0 /\ batch' = batch - 1
      BY DEF ConnectEstablished, Runs
    <3> QED
      BY <1>0, <1>2, <3>1
  <2> QED
    BY <1>0, <2>1 DEF Ages
<1>3. ASSUME NEW ops, \A op \in ops : MayQueue(op), QueueMore(ops)
      PROVE  QueueLife'
  BY <1>0, <1>1, <1>2, <1>3, GrowingAges DEF QueueMore
<1>4. CASE QueueSame
  <2>1. Later(functors, functors', {}) /\ (batch' = batch \/ batch' = Len(functors))
    BY <1>0, <1>4, LaterSame DEF QueueSame
  <2> QED
    BY <1>0, <1>1, <1>2, <2>1, GrowingAges
<1>5. CASE QueueMore(Callbacks)
  <2>1. \A op \in Callbacks : MayQueue(op)
    BY DEF Callbacks, MayQueue
  <2> QED
    BY <1>3, <1>5, <2>1
<1>6. CASE QueuePopped
  <2>1. batch' # batch
    BY <1>0, <1>6 DEF QueuePopped
  <2>2. server' = server
    BY <2>1, ServerSteps DEF RemoveConnectionInLoop, ServerDestroyed
  <2> QED
    BY <1>0, <1>6, <2>2, PoppingAges
<1>7. CASE (\E t \in Senders : \E data \in Chunk(t) : SendQueue(t, data))
             /\ QueueMore({"sendInLoop"})
  <2>1. PICK t \in Others : call[t] = "send" /\ server' = server
    BY <1>7 DEF SendQueue, Others, serverVars
  <2>2. server' # "gone"
    BY <1>0, <2>1 DEF LifeOfQueue
  <2>3. \A op \in {"sendInLoop"} : MayQueue(op)
    BY <2>2 DEF MayQueue
  <2> QED
    BY <1>3, <1>7, <2>3
<1>8. CASE (RemoveConnectionInLoop \/ ServerDestroyed) /\ QueueMore({"connectDestroyed"})
  <2>1. server' # "has" /\ (state_' = "kDisconnected" \/ server' = "gone")
    BY <1>0, <1>8 DEF RemoveConnectionInLoop, ServerDestroyed, connVars, LifeOfQueue
  <2>2. \A op \in {"connectDestroyed"} : MayQueue(op)
    BY <2>1 DEF MayQueue
  <2> QED
    BY <1>3, <1>8, <2>2
<1>9. CASE (\E t \in Shutters : ShutdownQueue(t)) /\ QueueMore({"shutdownInLoop"})
  <2>1. \A op \in {"shutdownInLoop"} : MayQueue(op)
    BY DEF MayQueue
  <2> QED
    BY <1>3, <1>9, <2>1
<1> QED
  BY <1>0, <1>4, <1>5, <1>6, <1>7, <1>8, <1>9, QueueSteps

\* Every step keeps what LifeOfQueue says.
LEMMA LifeOfQueueStep ==
  ASSUME Typed, Life, InTime, [Next]_vars
  PROVE  LifeOfQueue'
<1>0. Ages /\ Places /\ LifeOfQueue
  BY EachAges DEF Typed, Life
<1>1. QueueLife'
  BY QueueLifeStep
<1>2. destroyed' => state_' = "kDisconnected" \/ server' = "gone"
  BY <1>0 DEF Ages, LifeOfQueue
<1>3. server' = "gone" => \A t \in Others : call'[t] = "idle"
  <2> SUFFICES ASSUME server' = "gone"
               PROVE  \A t \in Others : call'[t] = "idle"
    OBVIOUS
  <2>1. call' = call
    BY <1>0 DEF Ages
  <2>2. CASE server = "gone"
    BY <1>0, <2>1, <2>2 DEF LifeOfQueue
  <2>3. CASE server # "gone"
    <3>1. ServerDestroyed
      BY <2>3, ServerSteps DEF RemoveConnectionInLoop
    <3> QED
      BY <2>1, <3>1 DEF ServerDestroyed
  <2> QED
    BY <2>2, <2>3
<1>4. /\ removals' > 0 => state_' = "kDisconnected"
      /\ removals' <= 1
  <2>1. removals \in Nat /\ (removals > 0 => state_ = "kDisconnected") /\ removals <= 1
    BY <1>0 DEF Places, LifeOfQueue
  <2>2. CASE removals' = removals + 1 /\ Up /\ state_' = "kDisconnected"
    BY <2>1, <2>2 DEF Up
  <2>3. CASE removals' \in {0, removals, removals - 1}
    <3>1. removals' > 0 => removals > 0
      BY <2>1, <2>3
    <3>2. removals' <= 1
      BY <2>1, <2>3
    <3> QED
      BY <1>0, <2>1, <3>1, <3>2 DEF Ages
  <2> QED
    BY <1>0, <2>2, <2>3 DEF Ages
<1>5. pc' = "destroy" => server' = "gone"
  BY <1>0 DEF Ages, LifeOfQueue
<1>6. state_' = "kConnecting" => \A t \in Others : call'[t] = "idle"
  BY <1>0 DEF Ages, LifeOfQueue
<1> QED
  BY <1>1, <1>2, <1>3, <1>4, <1>5, <1>6 DEF QueueLife, LifeOfQueue

\* A step that changes nothing sets nothing.
LEMMA StillInTime ==
  ASSUME Typed, [InTime]_vars
  PROVE  InTime
<1> SUFFICES ASSUME UNCHANGED vars, NEW t \in Shutters, ShutdownSet(t) PROVE FALSE
  BY DEF InTime
<1>1. call \in [Others -> {"idle", "send", "shutdown", "queue"}] /\ t \in Others
  BY DEF Typed, Places, Others
<1>2. call' = call /\ call[t] = "shutdown" /\ call' = [call EXCEPT ![t] = "queue"]
  BY DEF vars, callVars, ShutdownSet
<1> QED
  BY <1>1, <1>2

\* Life holds in every behaviour in which no shutdown comes too late.
LEMMA LifeInductive == Spec /\ [][InTime]_vars => []Life
<1>1. Init => Life
  <2> SUFFICES ASSUME Init PROVE Life
    OBVIOUS
  <2> DEFINE f == Functor("connectEstablished", <<>>)
  <2>1. f \in Closures /\ f.op = "connectEstablished" /\ functors = <<f>>
    BY FunctorIs, NoData DEF Init, Ops
  <2> HIDE DEF f
  <2>2. Len(functors) = 1 /\ functors[1].op = "connectEstablished"
    BY <2>1
  <2>3. \A i \in 1..Len(functors) : i = 1
    BY <2>2
  <2>4. LifeOfQueue
    BY <2>2, <2>3 DEF Init, LifeOfQueue
  <2>5. LifeOfChannel
    BY NewChannelInStep DEF Init, LifeOfChannel, Up, NewChannel
  <2> QED
    BY <2>4, <2>5 DEF Life
<1>2. Typed /\ InStep(channel_) /\ Life /\ [Next]_vars /\ [InTime]_vars => Life'
  BY LifeOfChannelStep, LifeOfQueueStep, StillInTime DEF Life
<1> QED
  BY <1>1, <1>2, TypedInductive, ChannelInductive, PTL DEF Spec

\* No shutdown comes too late if no other thread shuts down: what follows is then true of
\* every behaviour.
THEOREM NobodyIsLate == Shutters = {} => (Spec => [][InTime]_vars)
<1> SUFFICES ASSUME Shutters = {} PROVE Spec => [][InTime]_vars
  OBVIOUS
<1>1. InTime
  BY DEF InTime
<1> QED
  BY <1>1, PTL

\* However closing by the peer, by the user on any thread and by the server interleave, the
\* user's callback sees the connection come up, then go down once; the connection is closed
\* once by handleClose or by connectDestroyed.  Only one thing can break it: shutdown on
\* another thread sets kDisconnecting after handleClose set kDisconnected.
THEOREM UpThenDownOnce == Spec /\ [][InTime]_vars => []UpThenDown
<1>1. Places /\ Life => UpThenDown
  BY DEF Places, Life, LifeOfChannel, Up, UpThenDown
<1>2. Typed => Places
  BY DEF Typed
<1> QED
  BY <1>1, <1>2, LifeInductive, TypedInductive, PTL

\* What connectDestroyed took out of the poller never comes back: a closure that is still
\* queued, or a user that still has the connection, does not enable an event.
THEOREM StaysRemoved == Spec /\ [][InTime]_vars => []RemovedForGood
<1>1. Life => RemovedForGood
  BY DEF Life, LifeOfChannel, RemovedForGood
<1> QED
  BY <1>1, LifeInductive, PTL

\* Every variable has its type, the batch is never longer than the queue, and the base
\* loop is told of one closing when no other thread shuts down.
THEOREM TypeCorrect == Spec => []TypeOK
<1>1. Typed /\ InStep(channel_) /\ (Shutters = {} => removals <= 1) => TypeOK
  BY DEF Typed, Places, Data, Queue, InStep, TypeOK
<1>2. CASE Shutters = {}
  <2>1. Typed /\ InStep(channel_) /\ Life => TypeOK
    BY <1>1 DEF Life, LifeOfQueue
  <2>2. Spec => []Life
    BY <1>2, LifeInductive, NobodyIsLate
  <2> QED
    BY <2>1, <2>2, TypedInductive, ChannelInductive, PTL
<1>3. CASE Shutters # {}
  <2>1. Typed /\ InStep(channel_) => TypeOK
    BY <1>1, <1>3
  <2> QED
    BY <2>1, TypedInductive, ChannelInductive, PTL
<1> QED
  BY <1>2, <1>3

--------------------------------------------------------------------------
(* The connection implements Connection.                                    *)

\* handleClose, seen from outside.
LEMMA ClosesOutside ==
  ASSUME Places, InStep(channel_), LifeOfChannel, HandleClose, UNCHANGED <<destroyed, server>>,
         revents_ \cap {"hup", "in"} # {}
  PROVE  Contract!Closes
<1>1. Up /\ ~destroyed
  BY DEF LifeOfChannel
<1>2. state_' = "kDisconnected" /\ callbacks' = <<"up", "down">>
  BY <1>1, CloseOnce
<1>3. server # "gone" => removals' > 0
  BY DEF HandleClose, Places
<1>4. Place' \in IF Place = "left" THEN {"left"} ELSE {"told", "left"}
  BY <1>3 DEF Place
<1> QED
  BY <1>1, <1>2, <1>4 DEF Contract!Closes, Contract!GoesDown, Up

\* Every step is one of Connection's, or none.
LEMMA StepsOutside ==
  ASSUME Typed, InStep(channel_), Life, InTime, [Next]_vars
  PROVE  [Contract!Next]_Contract!vars
<1>0. Places /\ Queue /\ LifeOfChannel /\ LifeOfQueue
  BY DEF Typed, Life
<1>1. CASE OnClose
  <2>1. "hup" \in revents_ /\ UNCHANGED <<destroyed, server>>
    BY <1>1 DEF OnClose, Handles
  <2>2. CASE HandleClose
    BY <1>0, <2>1, <2>2, ClosesOutside DEF Contract!Next
  <2>3. CASE UNCHANGED <<state_, channel_, callbacks, removals>>
    BY <2>1, <2>3 DEF Contract!vars, Place
  <2> QED
    BY <1>1, <2>2, <2>3 DEF OnClose
<1>2. CASE OnRead
  <2>1. "in" \in revents_ /\ UNCHANGED <<destroyed, server>>
    BY <1>2 DEF OnRead, Handles
  <2>2. CASE HandleClose
    BY <1>0, <2>1, <2>2, ClosesOutside DEF Contract!Next
  <2>3. CASE UNCHANGED <<state_, channel_, callbacks, removals>>
    BY <2>1, <2>3 DEF Contract!vars, Place
  <2> QED
    BY <1>2, <2>2, <2>3 DEF OnRead
<1>3. CASE ConnectEstablished
  <2>1. /\ pc = "functors" /\ batch > 0 /\ Head(functors).op = "connectEstablished"
        /\ state_' = "kConnected" /\ callbacks' = Append(callbacks, "up")
        /\ UNCHANGED <<destroyed, server, removals>>
    BY <1>3 DEF ConnectEstablished, Runs, serverVars
  <2>2. state_ = "kConnecting"
    BY <1>0, <2>1, NextClosure
  <2>3. callbacks' = <<"up">>
    BY <1>0, <2>1, <2>2, UpAndDown DEF LifeOfChannel
  <2> QED
    BY <2>1, <2>2, <2>3 DEF Contract!Next, Contract!ComesUp, Place
<1>4. CASE ConnectDestroyed
  <2>1. /\ pc = "functors" /\ batch > 0 /\ Head(functors).op = "connectDestroyed"
        /\ UNCHANGED <<state_, callbacks, server, removals>>
    BY <1>4 DEF ConnectDestroyed, Runs, serverVars
  <2>2. server # "has" /\ state_ # "kConnecting"
    BY <1>0, <2>1, NextClosure
  <2>3. CASE state_ = "kConnected"
    BY <1>4, <2>1, <2>3 DEF ConnectDestroyed, Contract!vars, Place
  <2>4. CASE state_ # "kConnected"
    <3>1. destroyed' = TRUE
      BY <1>4, <2>4 DEF ConnectDestroyed
    <3>2. CASE destroyed
      BY <1>0, <2>1, <3>1, <3>2 DEF Contract!vars, Place, Places
    <3>3. CASE ~destroyed
      <4>1. Place' = "left"
        BY <2>1, <2>2 DEF Place
      <4> QED
        BY <2>1, <2>2, <2>4, <3>1, <3>3, <4>1 DEF Contract!Next, Contract!IsDestroyed
    <3> QED
      BY <3>2, <3>3
  <2> QED
    BY <2>3, <2>4
<1>5. CASE DestroyConnected
  <2>1. /\ state_ = "kConnected" /\ callbacks = <<"up">> /\ ~destroyed /\ server # "has"
    BY <1>0, <1>5 DEF DestroyConnected, LifeOfChannel, LifeOfQueue, Up
  <2>2. /\ state_' = "kDisconnected" /\ callbacks' = Append(callbacks, "down")
        /\ destroyed' = TRUE /\ UNCHANGED <<server, removals>>
    BY <1>5 DEF DestroyConnected, serverVars
  <2>3. callbacks' = <<"up", "down">> /\ Place' = "left"
    BY <2>1, <2>2, UpAndDown DEF Place
  <2> QED
    BY <2>1, <2>2, <2>3 DEF Contract!Next, Contract!IsDestroyed, Contract!GoesDown
<1>6. CASE Shutdown
  <2>1. /\ state_ = "kConnected" /\ state_' = "kDisconnecting"
        /\ UNCHANGED <<callbacks, destroyed, server, removals>>
    BY <1>6 DEF Shutdown, serverVars
  <2>2. ~destroyed
    BY <1>0, <2>1 DEF LifeOfChannel
  <2> QED
    BY <2>1, <2>2 DEF Contract!Next, Contract!IsShutDown, Place
<1>7. CASE RemoveConnectionInLoop \/ ServerDestroyed
  <2>1. server' # "has" /\ UNCHANGED <<state_, callbacks, destroyed>>
    BY <1>7 DEF RemoveConnectionInLoop, ServerDestroyed, connVars
  <2>2. Place' = "left"
    BY <2>1 DEF Place
  <2> QED
    BY <2>1, <2>2 DEF Contract!Next, Contract!Leaves, Contract!vars
<1>8. CASE \/ Poll \/ OnError \/ OnWrite \/ DoPendingFunctors \/ PendingFunctorsDone
           \/ RunSendInLoop \/ RunShutdownInLoop \/ RunCallback \/ UserReturns
           \/ \E data \in Chunk(Loop) : Send(data)
           \/ \E t \in Senders : SendTest(t) \/ \E data \in Chunk(t) : SendQueue(t, data)
           \/ \E t \in Shutters : ShutdownTest(t) \/ ShutdownQueue(t)
           \/ Environment \/ UNCHANGED vars
  <2>1. UNCHANGED <<state_, callbacks, destroyed, server, removals>>
    BY <1>8 DEF ShutdownTest, ShutdownQueue, Poll, OnError, OnWrite, DoPendingFunctors,
       PendingFunctorsDone, RunSendInLoop, RunShutdownInLoop, RunCallback, Runs,
       UserReturns, Send, SendTest, Begins, SendQueue,
       Environment, PeerSends, PeerCloses, PeerResets, PeerAcks, connVars, serverVars, vars
  <2> QED
    BY <2>1 DEF Contract!vars, Place
<1>9. ASSUME NEW t \in Shutters, ShutdownSet(t)
      PROVE  [Contract!Next]_Contract!vars
  <2>1. /\ Up /\ state_' = "kDisconnecting"
        /\ UNCHANGED <<callbacks, destroyed, server, removals>>
    BY <1>0, <1>9, SetInTime DEF ShutdownSet, serverVars
  <2>2. Place' = Place
    BY <2>1 DEF Place
  <2>3. CASE state_ = "kConnected"
    <3>1. ~destroyed
      BY <1>0, <2>3 DEF LifeOfChannel
    <3> QED
      BY <2>1, <2>2, <2>3, <3>1 DEF Contract!Next, Contract!IsShutDown
  <2>4. CASE state_ = "kDisconnecting"
    BY <2>1, <2>2, <2>4 DEF Contract!vars
  <2> QED
    BY <2>1, <2>3, <2>4 DEF Up
<1> QED
  BY <1>1, <1>2, <1>3, <1>4, <1>5, <1>6, <1>7, <1>8, <1>9, Steps

\* Seen from its user and its server a connection that no shutdown reaches too late is what
\* Connection says: it comes up, it closes or is let go, and it is destroyed, each once.
THEOREM RefinesConnection == Spec /\ [][InTime]_vars => ImplementsConnection
<1>1. Init => Contract!Init
  BY DEF Init, Contract!Init, Place
<1>2. Typed /\ InStep(channel_) /\ Life /\ [Next]_vars /\ [InTime]_vars
        => [Contract!Next]_Contract!vars
  BY StepsOutside, StillInTime
<1> QED
  BY <1>1, <1>2, TypedInductive, ChannelInductive, LifeInductive, PTL
     DEF Spec, ImplementsConnection, Contract!Spec

--------------------------------------------------------------------------
(* The bytes that are sent, when handleWrite writes all of its output or     *)
(* none of it.                                                              *)

Holds(s, b) == \E i \in 1..Len(s) : s[i] = b

\* Is byte b in a closure of q that will send it?
Queued(q, b) == \E i \in 1..Len(q) : Sending(q, i) /\ Holds(q[i].data, b)

\* Nothing is written any more: the socket is broken, or the connection is closed.
Stopped == Broken \/ state_ = "kDisconnected"

OnItsWay(w, out, q, b) == Holds(w, b) \/ Holds(out, b) \/ Queued(q, b)

AllOnTheirWay(w, out, q, snt) ==
  \A t \in Senders \cup {Loop} : \A k \in 1..snt[t] : OnItsWay(w, out, q, <<t, k>>)

\* Until the connection is closed or broken, every byte that was sent is on the wire, in
\* the output buffer or in the queue.
NoneLost == ~Stopped => AllOnTheirWay(wire, outputBuffer_, functors, sent)

\* Bytes of two sequences, one behind the other.
LEMMA ConcatHolds ==
  ASSUME NEW s \in Seq(Bytes), NEW r \in Seq(Bytes), NEW b, Holds(s, b) \/ Holds(r, b)
  PROVE  Holds(s \o r, b)
<1> DEFINE c == s \o r
<1>0. Len(s) \in Nat /\ Len(r) \in Nat
  OBVIOUS
<1>1. /\ Len(c) = Len(s) + Len(r)
      /\ \A i \in 1..Len(s) + Len(r) : c[i] = IF i <= Len(s) THEN s[i] ELSE r[i - Len(s)]
  BY ConcatProperties
<1> HIDE DEF c
<1>2. CASE Holds(s, b)
  <2>1. PICK i \in 1..Len(s) : s[i] = b
    BY <1>2 DEF Holds
  <2>2. i \in 1..Len(c) /\ c[i] = b
    BY <1>0, <1>1, <2>1
  <2> QED
    BY <2>2 DEF Holds, c
<1>3. CASE Holds(r, b)
  <2>1. PICK i \in 1..Len(r) : r[i] = b
    BY <1>3 DEF Holds
  <2> DEFINE j == Len(s) + i
  <2>2. j \in 1..(Len(s) + Len(r)) /\ ~(j <= Len(s)) /\ j - Len(s) = i
    BY <1>0
  <2> HIDE DEF j
  <2>3. j \in 1..Len(c) /\ c[j] = b
    BY <1>1, <2>1, <2>2
  <2> QED
    BY <2>3 DEF Holds, c
<1> QED
  BY <1>2, <1>3

\* A byte of the data is among those written or among the others.
LEMMA FrontOrRest ==
  ASSUME NEW data \in Seq(Bytes), NEW n \in 0..Len(data), NEW b, Holds(data, b)
  PROVE  Holds(Front(data, n), b) \/ Holds(Rest(data, n), b)
<1> DEFINE f == Front(data, n)
           r == Rest(data, n)
<1>0. n \in Nat /\ Len(data) \in Nat
  OBVIOUS
<1>1. /\ Len(f) = n /\ \A i \in 1..n : f[i] = data[i]
      /\ Len(r) = Len(data) - n
      /\ \A i \in 1..Len(r) : r[i] = data[n + i]
  BY <1>0, FrontIs, RestIs
<1> HIDE DEF f, r
<1>2. PICK i \in 1..Len(data) : data[i] = b
  BY DEF Holds
<1>3. CASE i <= n
  <2>1. i \in 1..Len(f) /\ f[i] = b
    BY <1>0, <1>1, <1>2, <1>3
  <2> QED
    BY <2>1 DEF Holds, f
<1>4. CASE i > n
  <2> DEFINE j == i - n
  <2>1. j \in 1..Len(r) /\ n + j = i
    BY <1>0, <1>1, <1>4
  <2> HIDE DEF j
  <2>2. r[j] = b
    BY <1>1, <1>2, <2>1
  <2> QED
    BY <2>1, <2>2 DEF Holds, r
<1> QED
  BY <1>0, <1>3, <1>4

\* A queue that only grew still holds what it held.
LEMMA LaterQueued ==
  ASSUME NEW q, Len(q) \in Nat, NEW r, NEW ops, Later(q, r, ops), NEW b, Queued(q, b)
  PROVE  Queued(r, b)
<1>1. Len(r) \in Nat /\ Len(q) <= Len(r) /\ \A i \in 1..Len(q) : r[i] = q[i]
  BY DEF Later
<1>2. PICK i \in 1..Len(q) : Sending(q, i) /\ Holds(q[i].data, b)
  BY DEF Queued
<1>3. i \in 1..Len(r) /\ r[i] = q[i]
  BY <1>1
<1> QED
  BY <1>2, <1>3 DEF Queued, Sending

\* One whose head was taken still holds what the head did not.
LEMMA TailQueued ==
  ASSUME Queue, batch > 0, NEW b, Queued(functors, b)
  PROVE  \/ Queued(Tail(functors), b)
         \/ Head(functors).op = "sendInLoop" /\ Holds(Head(functors).data, b)
<1> DEFINE t == Tail(functors)
<1>1. /\ functors \in Seq(Closures) /\ Len(functors) \in Nat /\ Head(functors) = functors[1]
      /\ Len(t) = Len(functors) - 1
      /\ \A i \in 1..Len(t) : t[i] = functors[i + 1]
  BY Popped DEF Queue
<1> HIDE DEF t
<1>2. PICK i \in 1..Len(functors) : Sending(functors, i) /\ Holds(functors[i].data, b)
  BY DEF Queued
<1>3. CASE i = 1
  BY <1>1, <1>2, <1>3 DEF Sending
<1>4. CASE i # 1
  <2> DEFINE j == i - 1
  <2>1. j \in 1..Len(t) /\ j + 1 = i
    BY <1>1, <1>4
  <2> HIDE DEF j
  <2>2. t[j] = functors[i]
    BY <1>1, <2>1
  <2>3. Sending(t, j)
    BY <1>2, <2>1, <2>2 DEF Sending
  <2> QED
    BY <1>2, <2>1, <2>2, <2>3 DEF Queued, t
<1> QED
  BY <1>3, <1>4

\* sendInLoop, on a connection that is neither closed nor broken, puts all it is given on
\* the wire or in the output buffer, and takes nothing away.
LEMMA SendKeepsAll ==
  ASSUME Data, ~Stopped, NEW data \in Seq(Bytes), NEW q, SendInLoop(data, q), NEW b,
         Holds(wire, b) \/ Holds(outputBuffer_, b) \/ Holds(data, b)
  PROVE  Holds(wire', b) \/ Holds(outputBuffer_', b)
<1>0. wire \in Seq(Bytes) /\ acked \in 0..Len(wire) /\ outputBuffer_ \in Seq(Bytes)
  BY DEF Data
<1>1. ~Broken /\ state_ # "kDisconnected"
  BY DEF Stopped
<1>2. PICK n \in 0..Len(data), keep \in Seq(Bytes) : Sends(data, n, keep)
  BY <1>0, <1>1, WhatSends
<1>3. /\ wire' = wire \o Front(data, n) /\ outputBuffer_' = outputBuffer_ \o Rest(data, n)
      /\ n \in Nat
  BY <1>1, <1>2 DEF Sends
<1>4. Front(data, n) \in Seq(Bytes) /\ Rest(data, n) \in Seq(Bytes)
  BY <1>3, FrontIs, RestIs
<1>5. Holds(data, b) => Holds(Front(data, n), b) \/ Holds(Rest(data, n), b)
  BY FrontOrRest
<1>6. Holds(wire, b) \/ Holds(Front(data, n), b) => Holds(wire', b)
  BY <1>0, <1>3, <1>4, ConcatHolds
<1>7. Holds(outputBuffer_, b) \/ Holds(Rest(data, n), b) => Holds(outputBuffer_', b)
  BY <1>0, <1>3, <1>4, ConcatHolds
<1> QED
  BY <1>5, <1>6, <1>7

\* handleWrite, when it writes all or nothing, loses nothing either.
LEMMA WriteKeepsAll ==
  ASSUME Data, OnWrite, WholeWrites, NEW b, Holds(wire, b) \/ Holds(outputBuffer_, b)
  PROVE  Holds(wire', b) \/ Holds(outputBuffer_', b)
<1>0. /\ wire \in Seq(Bytes) /\ acked \in 0..Len(wire) /\ outputBuffer_ \in Seq(Bytes)
      /\ Len(outputBuffer_) \in Nat /\ Len(wire) \in Nat
  BY DEF Data
<1>1. CASE UNCHANGED <<outputBuffer_, wire>>
  BY <1>1
<1>2. CASE \E n \in Writes(Len(outputBuffer_)) :
             /\ wire' = wire \o Front(outputBuffer_, n)
             /\ outputBuffer_' = AfterWrite(n)
  <2>1. PICK n \in Writes(Len(outputBuffer_)) :
             /\ wire' = wire \o Front(outputBuffer_, n)
             /\ outputBuffer_' = AfterWrite(n)
    BY <1>2
  <2>2. n \in 0..Len(outputBuffer_) /\ n \in Nat
    BY <1>0, <2>1, WritesAre
  <2>3. Front(outputBuffer_, n) \in Seq(Bytes) /\ Len(Front(outputBuffer_, n)) = n
    BY <1>0, <2>2, FrontIs
  <2>4. Len(wire') = Len(wire) + n
    <3> DEFINE f == Front(outputBuffer_, n)
    <3>1. Len(wire \o f) = Len(wire) + Len(f)
      BY <1>0, <2>3, ConcatProperties
    <3> QED
      BY <2>1, <2>3, <3>1
  <2>5. CASE wire' = wire \o outputBuffer_
    BY <1>0, <2>5, ConcatHolds
  <2>6. CASE wire' = wire
    <3>1. n = 0
      BY <1>0, <2>2, <2>4, <2>6
    <3>2. Rest(outputBuffer_, 0) = outputBuffer_
      <4> DEFINE t == Rest(outputBuffer_, 0)
      <4>1. /\ t \in Seq(Bytes) /\ Len(t) = Len(outputBuffer_)
            /\ \A i \in 1..Len(t) : t[i] = outputBuffer_[0 + i]
        BY <1>0, RestIs
      <4> HIDE DEF t
      <4>2. \A i \in 1..Len(t) : t[i] = outputBuffer_[i]
        BY <1>0, <4>1
      <4>3. t = outputBuffer_
        BY <1>0, <4>1, <4>2, SeqEqual
      <4> QED
        BY <4>3 DEF t
    <3>3. outputBuffer_' = outputBuffer_
      BY <2>1, <3>1, <3>2 DEF AfterWrite
    <3> QED
      BY <2>6, <3>3
  <2> QED
    BY <2>5, <2>6 DEF WholeWrites
<1> QED
  BY <1>1, <1>2 DEF OnWrite

\* A broken socket stays broken.
LEMMA BrokenStays ==
  ASSUME Typed, [Next]_vars, Broken
  PROVE  Broken'
<1>1. CASE \/ Poll \/ OnClose \/ OnError \/ OnRead \/ DoPendingFunctors
           \/ PendingFunctorsDone \/ ConnectEstablished \/ RunSendInLoop \/ RunCallback
           \/ ConnectDestroyed \/ DestroyConnected \/ UserReturns
           \/ \E data \in Chunk(Loop) : Send(data)
           \/ \E t \in Senders : SendTest(t) \/ \E data \in Chunk(t) : SendQueue(t, data)
           \/ \E t \in Shutters : ShutdownTest(t) \/ ShutdownSet(t) \/ ShutdownQueue(t)
           \/ RemoveConnectionInLoop \/ ServerDestroyed \/ UNCHANGED vars
  <2>1. UNCHANGED <<fin, peer>>
    BY <1>1 DEF Poll, OnClose, OnError, OnRead, DoPendingFunctors, PendingFunctorsDone,
       ConnectEstablished, RunSendInLoop, RunCallback, ConnectDestroyed, DestroyConnected,
       UserReturns, Send, SendTest, Begins, SendQueue, ShutdownTest, ShutdownSet,
       ShutdownQueue, RemoveConnectionInLoop, ServerDestroyed, sockVars, vars
  <2> QED
    BY <2>1 DEF Broken
<1>2. CASE OnWrite \/ RunShutdownInLoop \/ Shutdown
  <2>1. peer' = peer /\ (fin' = fin \/ fin' = TRUE)
    BY <1>2 DEF OnWrite, RunShutdownInLoop, Shutdown, ShutdownInLoop, ShutdownWrite
  <2> QED
    BY <2>1 DEF Broken
<1>3. CASE Environment
  BY <1>3 DEF Environment, PeerSends, PeerCloses, PeerResets, PeerAcks, Broken
<1> QED
  BY <1>1, <1>2, <1>3, Steps

\* A connection that is closed or broken writes nothing and stays so.
LEMMA StoppedIsOver ==
  ASSUME Typed, InStep(channel_), Life, InTime, [Next]_vars, Stopped
  PROVE  wire' = wire /\ Stopped'
<1>0. /\ Data /\ Places /\ LifeOfChannel
      /\ wire \in Seq(Bytes) /\ acked \in 0..Len(wire) /\ outputBuffer_ \in Seq(Bytes)
  BY DEF Typed, Data, Life
<1>1. Stopped'
  <2>1. state_ = "kDisconnected" => state_' = "kDisconnected"
    BY EachAges DEF Ages
  <2>2. Broken => Broken'
    BY BrokenStays
  <2> QED
    BY <2>1, <2>2 DEF Stopped
<1> SUFFICES wire' = wire
  BY <1>1
<1>2. ASSUME NEW data \in Seq(Bytes), NEW n \in Writes(Len(data)) \cup {0}, Broken
      PROVE  wire \o Front(data, n) = wire
  <2>1. n = 0
    BY <1>2 DEF Writes
  <2>2. Front(data, 0) \in Seq(Bytes) /\ Len(Front(data, 0)) = 0
    BY FrontIs
  <2>3. Front(data, 0) = <<>>
    BY <2>2
  <2> QED
    BY <1>0, <2>1, <2>3, ConcatEmptySeq
<1>3. ASSUME NEW data \in Seq(Bytes), NEW q, SendInLoop(data, q)
      PROVE  wire' = wire
  <2>1. CASE state_ = "kDisconnected"
    BY <1>3, <2>1 DEF SendInLoop
  <2>2. CASE state_ # "kDisconnected"
    <3>1. PICK n \in Writes(Len(data)) \cup {0} : wire' = wire \o Front(data, n)
      BY <1>3, <2>2 DEF SendInLoop
    <3> QED
      BY <1>2, <2>2, <3>1 DEF Stopped
  <2> QED
    BY <2>1, <2>2
<1>4. CASE OnWrite
  <2>1. CASE state_ = "kDisconnected"
    <3>1. ~IsWriting(channel_)
      BY <1>0, <2>1 DEF LifeOfChannel, IsWriting
    <3>2. IF ~IsWriting(channel_) THEN UNCHANGED <<channel_, outputBuffer_, wire, functors, fin>>
          ELSE TRUE
      BY <1>4, <3>1 DEF OnWrite
    <3> QED
      BY <3>1, <3>2
  <2>2. CASE Broken
    <3>1. wire' = wire \/ \E n \in Writes(Len(outputBuffer_)) :
                              wire' = wire \o Front(outputBuffer_, n)
      BY <1>4 DEF OnWrite
    <3> QED
      BY <1>0, <1>2, <2>2, <3>1
  <2> QED
    BY <2>1, <2>2 DEF Stopped
<1>5. CASE RunSendInLoop
  <2> DEFINE data == Head(functors).data
             q == Tail(functors)
  <2>1. batch > 0 /\ SendInLoop(data, q)
    BY <1>5 DEF RunSendInLoop, Runs
  <2>2. data \in Seq(Bytes)
    BY <2>1, Popped DEF Typed, Closures
  <2> HIDE DEF data, q
  <2> QED
    BY <1>3, <2>1, <2>2
<1>6. CASE \E data \in Chunk(Loop) : Send(data)
  <2>1. PICK data \in Chunk(Loop) : SendInLoop(data, functors) /\ CanSend(Loop, data)
    BY <1>6 DEF Send
  <2>2. data \in Seq(Bytes)
    BY <1>0, <2>1, ChunkIs DEF Data
  <2> HIDE DEF SendInLoop
  <2> QED
    BY <1>3, <2>1, <2>2
<1>7. ASSUME NEW t \in Senders, NEW data \in Chunk(t), SendQueue(t, data)
      PROVE  wire' = wire
  BY <1>7 DEF SendQueue, sockVars
<1> QED
  BY <1>4, <1>5, <1>6, <1>7, QuietSteps DEF Typed

\* What is written is written on a connection that is neither broken nor closed, and leaves
\* it so.
LEMMA WireMoves ==
  ASSUME Typed, InStep(channel_), Life, InTime, [Next]_vars, wire' # wire
  PROVE  ~Stopped'
<1>1. ~Stopped
  BY StoppedIsOver
<1>2. OnWrite \/ RunSendInLoop \/ \E data \in Chunk(Loop) : Send(data)
  <2>1. ASSUME NEW t \in Senders, NEW data \in Chunk(t), SendQueue(t, data) PROVE FALSE
    BY <2>1 DEF SendQueue, sockVars
  <2> QED
    BY <2>1, QuietSteps DEF Typed
<1>3. CASE OnWrite
  <2>1. state_ # "kDisconnected"
    BY <1>1 DEF Stopped
  <2>2. UNCHANGED <<fin, peer, state_>>
    BY <1>3, <2>1 DEF OnWrite
  <2> QED
    BY <1>1, <2>2 DEF Stopped, Broken
<1>4. CASE RunSendInLoop \/ \E data \in Chunk(Loop) : Send(data)
  <2>1. UNCHANGED <<fin, peer, state_>>
    BY <1>4 DEF RunSendInLoop, Send
  <2> QED
    BY <1>1, <2>1 DEF Stopped, Broken
<1> QED
  BY <1>2, <1>3, <1>4

\* A byte sent by now was sent before, or is in the data of this call.
LEMMA SentByNow ==
  ASSUME Data, NEW u \in Senders \cup {Loop}, NEW data \in Chunk(u), CanSend(u, data),
         sent' = [sent EXCEPT ![u] = @ + Len(data)],
         NEW t \in Senders \cup {Loop}, NEW k \in 1..sent'[t]
  PROVE  k \in 1..sent[t] \/ Holds(data, <<t, k>>)
<1>1. /\ sent[u] \in Nat /\ Len(data) \in Nat
      /\ \A i \in 1..Len(data) : data[i] = <<u, sent[u] + i>>
  BY ChunkIs DEF Data
<1>2. CASE t # u
  <2>1. sent'[t] = sent[t]
    BY <1>2 DEF Data
  <2> QED
    BY <2>1
<1>3. CASE t = u
  <2>1. sent'[u] = sent[u] + Len(data)
    BY DEF Data
  <2>2. CASE k <= sent[u]
    BY <1>1, <1>3, <2>1, <2>2
  <2>3. CASE k > sent[u]
    <3> DEFINE i == k - sent[u]
    <3>1. i \in 1..Len(data) /\ sent[u] + i = k
      BY <1>1, <1>3, <2>1, <2>3
    <3> HIDE DEF i
    <3>2. data[i] = <<t, k>>
      BY <1>1, <1>3, <3>1
    <3> QED
      BY <3>1, <3>2 DEF Holds
  <2> QED
    BY <1>1, <1>3, <2>1, <2>2, <2>3
<1> QED
  BY <1>2, <1>3

\* Every step keeps NoneLost, handleWrite's too if it writes all or nothing.
LEMMA NoneLostStep ==
  ASSUME Typed, InStep(channel_), Life, NoneLost, InTime, WholeWrites, [Next]_vars
  PROVE  NoneLost'
<1> SUFFICES ASSUME ~Stopped', NEW t \in Senders \cup {Loop}, NEW k \in 1..sent'[t]
             PROVE  OnItsWay(wire', outputBuffer_', functors', <<t, k>>)
  BY DEF NoneLost, AllOnTheirWay
<1> DEFINE b == <<t, k>>
<1>0. /\ Data /\ Queue /\ functors \in Seq(Closures) /\ Len(functors) \in Nat
      /\ sent \in [Senders \cup {Loop} -> 0..MaxBytes]
  BY DEF Typed, Data, Queue
<1>1. ~Stopped
  BY StoppedIsOver
<1>2. k \in 1..sent[t] => OnItsWay(wire, outputBuffer_, functors, b)
  BY <1>1 DEF NoneLost, AllOnTheirWay
<1>3. ASSUME NEW u \in Senders \cup {Loop}, NEW data \in Chunk(u), CanSend(u, data),
             sent' = [sent EXCEPT ![u] = @ + Len(data)]
      PROVE  k \in 1..sent[t] \/ Holds(data, b)
  BY <1>0, <1>3, SentByNow
<1>4. sent' = sent => k \in 1..sent[t]
  OBVIOUS
<1> HIDE DEF b
<1>5. SUFFICES OnItsWay(wire', outputBuffer_', functors', b)
  BY DEF b
<1>6. CASE /\ ~RunSendInLoop
           /\ UNCHANGED <<outputBuffer_, wire, sent>>
           /\ \/ QueueSame \/ QueueMore(Callbacks) \/ QueuePopped
              \/ QueueMore({"shutdownInLoop"}) \/ QueueMore({"connectDestroyed"})
  <2>1. OnItsWay(wire, outputBuffer_, functors, b)
    BY <1>2, <1>4, <1>6
  <2>2. Queued(functors, b) => Queued(functors', b)
    <3>1. CASE QueueSame
      BY <3>1 DEF QueueSame
    <3>2. ASSUME NEW ops, QueueMore(ops), Queued(functors, b)
          PROVE  Queued(functors', b)
      BY <1>0, <3>2, LaterQueued DEF QueueMore
    <3>3. CASE QueuePopped
      <4> SUFFICES ASSUME Queued(functors, b) PROVE Queued(functors', b)
        OBVIOUS
      <4>1. Head(functors).op # "sendInLoop"
        BY <1>6, <3>3, RunsHead DEF ConnectEstablished, RunShutdownInLoop, RunCallback,
           ConnectDestroyed, Runs
      <4>2. Queued(Tail(functors), b) /\ Len(Tail(functors)) \in Nat
        BY <1>0, <3>3, <4>1, TailQueued, Popped DEF QueuePopped
      <4> QED
        BY <3>3, <4>2, LaterQueued DEF QueuePopped
    <3> QED
      BY <1>6, <3>1, <3>2, <3>3
  <2> QED
    BY <1>6, <2>1, <2>2 DEF OnItsWay
<1>7. CASE OnWrite
  <2>1. /\ sent' = sent
        /\ functors' = functors \/ functors' = Append(functors, Functor("callback", <<>>))
    BY <1>7 DEF OnWrite, Handles, callVars
  <2>2. Later(functors, functors', Callbacks)
    BY <1>0, <2>1, LaterSame, LaterAppend, NoData DEF Ops, Callbacks
  <2>3. Queued(functors, b) => Queued(functors', b)
    BY <1>0, <2>2, LaterQueued
  <2>4. Holds(wire, b) \/ Holds(outputBuffer_, b) => Holds(wire', b) \/ Holds(outputBuffer_', b)
    BY <1>0, <1>7, WriteKeepsAll
  <2>5. OnItsWay(wire, outputBuffer_, functors, b)
    BY <1>2, <1>4, <2>1
  <2> QED
    BY <2>3, <2>4, <2>5 DEF OnItsWay
<1>8. CASE RunSendInLoop
  <2> DEFINE d == Head(functors).data
             q == Tail(functors)
  <2>1. /\ batch > 0 /\ SendInLoop(d, q) /\ sent' = sent
    BY <1>8 DEF RunSendInLoop, Runs, callVars
  <2>2. /\ q \in Seq(Closures) /\ Len(q) \in Nat /\ d \in Seq(Bytes)
        /\ Queued(functors, b) => Queued(q, b) \/ Holds(d, b)
    BY <1>0, <2>1, Popped, TailQueued DEF Closures
  <2>3. OnItsWay(wire, outputBuffer_, functors, b)
    BY <1>2, <1>4, <2>1
  <2> HIDE DEF d, q
  <2>4. Queued(q, b) => Queued(functors', b)
    BY <2>1, <2>2, WhatSendsQueues, LaterQueued DEF Later, Callbacks
  <2>5. Holds(wire, b) \/ Holds(outputBuffer_, b) \/ Holds(d, b) =>
          Holds(wire', b) \/ Holds(outputBuffer_', b)
    BY <1>0, <1>1, <2>1, <2>2, SendKeepsAll
  <2> QED
    BY <2>2, <2>3, <2>4, <2>5 DEF OnItsWay
<1>9. CASE \E data \in Chunk(Loop) : Send(data)
  <2>1. PICK data \in Chunk(Loop) : Send(data)
    BY <1>9
  <2>2. /\ SendInLoop(data, functors) /\ CanSend(Loop, data)
        /\ sent' = [sent EXCEPT ![Loop] = @ + Len(data)]
    BY <2>1 DEF Send
  <2>3. data \in Seq(Bytes)
    BY <1>0, <2>2, ChunkIs
  <2>4. OnItsWay(wire, outputBuffer_, functors, b) \/ Holds(data, b)
    BY <1>2, <1>3, <2>2
  <2>5. Queued(functors, b) => Queued(functors', b)
    BY <1>0, <2>2, WhatSendsQueues, LaterQueued DEF Later, Callbacks
  <2>6. Holds(wire, b) \/ Holds(outputBuffer_, b) \/ Holds(data, b) =>
          Holds(wire', b) \/ Holds(outputBuffer_', b)
    BY <1>0, <1>1, <2>2, <2>3, SendKeepsAll
  <2> QED
    BY <2>4, <2>5, <2>6 DEF OnItsWay
<1>10. ASSUME NEW u \in Senders, NEW data \in Chunk(u), SendQueue(u, data)
       PROVE  OnItsWay(wire', outputBuffer_', functors', b)
  <2>1. /\ functors' = Append(functors, Functor("sendInLoop", data)) /\ CanSend(u, data)
        /\ sent' = [sent EXCEPT ![u] = @ + Len(data)]
        /\ UNCHANGED <<outputBuffer_, wire>>
    BY <1>10 DEF SendQueue, connVars, sockVars
  <2>2. data \in Seq(Bytes)
    BY <1>0, <2>1, ChunkIs
  <2>3. OnItsWay(wire, outputBuffer_, functors, b) \/ Holds(data, b)
    BY <1>2, <1>3, <2>1
  <2>4. /\ Later(functors, functors', {"sendInLoop"}) /\ Len(functors') = Len(functors) + 1
        /\ functors'[Len(functors) + 1] = Functor("sendInLoop", data)
        /\ Functor("sendInLoop", data).op = "sendInLoop"
        /\ Functor("sendInLoop", data).data = data
    BY <1>0, <2>1, <2>2, LaterAppend, FunctorIs DEF Ops
  <2>5. Queued(functors, b) => Queued(functors', b)
    BY <1>0, <2>4, LaterQueued
  <2> DEFINE n == Len(functors) + 1
  <2>6. n \in 1..Len(functors') /\ functors'[n].op = "sendInLoop" /\ functors'[n].data = data
    BY <1>0, <2>4
  <2> HIDE DEF n
  <2>7. Holds(data, b) => Queued(functors', b)
    BY <2>6 DEF Queued, Sending
  <2> QED
    BY <2>1, <2>3, <2>5, <2>7 DEF OnItsWay
<1> QED
  BY <1>0, <1>6, <1>7, <1>8, <1>9, <1>10, QuietSteps

\* When no byte is lost and the bytes are in order, those in front of a byte on the wire
\* are there too.
LEMMA AllOnTheWire ==
  ASSUME Typed, Order, NoneLost, ~Stopped
  PROVE  OutputComplete
<1>0. /\ wire \in Seq(Bytes) /\ outputBuffer_ \in Seq(Bytes) /\ functors \in Seq(Closures)
      /\ Ordered(wire) /\ Before(wire, outputBuffer_) /\ Numbered(wire, sent)
      /\ BeforeQueue(wire, functors)
      /\ sent \in [Senders \cup {Loop} -> 0..MaxBytes]
      /\ DOMAIN wire = 1..Len(wire)
  BY DEF Typed, Data, Queue, Order, AllOrdered, OutputOrdered
<1> SUFFICES ASSUME NEW i \in 1..Len(wire), NEW k \in 1..wire[i][2]
             PROVE  \E j \in 1..i : wire[j] = <<wire[i][1], k>>
  BY <1>0 DEF OutputComplete
<1> DEFINE t == wire[i][1]
           m == wire[i][2]
           b == <<t, k>>
<1>1. t \in Senders \cup {Loop} /\ m \in Nat /\ m <= sent[t]
  BY <1>0, ByteIs DEF Numbered
<1>2. sent[t] \in Nat /\ k \in 1..m
  BY <1>0, <1>1, TcpConnectionAssumption
<1>3. b[1] = t /\ b[2] = k
  OBVIOUS
<1> HIDE DEF t, m
<1>4. k \in 1..sent[t]
  BY <1>1, <1>2
<1>5. OnItsWay(wire, outputBuffer_, functors, b)
  BY <1>1, <1>4 DEF NoneLost, AllOnTheirWay
<1> HIDE DEF b
<1>6. ~(m < k)
  BY <1>1, <1>2
<1>7. CASE Holds(wire, b)
  <2>1. PICK j \in 1..Len(wire) : wire[j] = b
    BY <1>7 DEF Holds
  <2>2. ~(i < j)
    BY <1>0, <1>3, <1>6, <2>1 DEF Ordered, t, m
  <2>3. j \in 1..i
    BY <2>2
  <2> QED
    BY <2>1, <2>3 DEF b, t
<1>8. CASE Holds(outputBuffer_, b)
  <2>1. PICK j \in 1..Len(outputBuffer_) : outputBuffer_[j] = b
    BY <1>8 DEF Holds
  <2> QED
    BY <1>0, <1>3, <1>6, <2>1 DEF Before, t, m
<1>9. CASE Queued(functors, b)
  <2>1. PICK x \in 1..Len(functors) : Sending(functors, x) /\ Holds(functors[x].data, b)
    BY <1>9 DEF Queued
  <2>2. PICK j \in 1..Len(functors[x].data) : functors[x].data[j] = b
    BY <2>1 DEF Holds
  <2>3. Before(wire, functors[x].data)
    BY <1>0, <2>1 DEF BeforeQueue
  <2> QED
    BY <1>3, <1>6, <2>2, <2>3 DEF Before, t, m
<1> QED
  BY <1>5, <1>7, <1>8, <1>9 DEF OnItsWay

\* A step that changes nothing writes nothing.
LEMMA StillWhole == [WholeWrites]_vars => WholeWrites
BY DEF WholeWrites, vars, sockVars

\* All the data in the send buffer is sent, as the comment in handleWrite has it, with two
\* exceptions and no other: handleWrite itself writes a part of its output, or a shutdown
\* on another thread comes too late and lets a closed connection send.
THEOREM NothingElseIsLost ==
  Spec /\ [][InTime /\ WholeWrites]_vars => []OutputComplete
<1>1. Init => OutputComplete /\ NoneLost
  BY DEF Init, OutputComplete, NoneLost, AllOnTheirWay
<1>2. [InTime /\ WholeWrites]_vars => [InTime]_vars
  OBVIOUS
<1>3. /\ Typed /\ Typed' /\ Order' /\ InStep(channel_) /\ Life /\ OutputComplete /\ NoneLost
      /\ [Next]_vars /\ [InTime /\ WholeWrites]_vars
      => OutputComplete' /\ NoneLost'
  <2> SUFFICES ASSUME Typed, Typed', Order', InStep(channel_), Life, OutputComplete, NoneLost,
                      [Next]_vars, [InTime /\ WholeWrites]_vars
               PROVE  OutputComplete' /\ NoneLost'
    OBVIOUS
  <2>1. InTime /\ WholeWrites
    BY StillInTime, StillWhole
  <2>2. NoneLost'
    BY <2>1, NoneLostStep
  <2>3. CASE wire' = wire
    BY <2>2, <2>3 DEF OutputComplete
  <2>4. CASE wire' # wire
    <3>1. ~Stopped'
      BY <2>1, <2>4, WireMoves
    <3>2. (Typed /\ Order /\ NoneLost /\ ~Stopped => OutputComplete)'
      BY AllOnTheWire, PTL
    <3> QED
      BY <2>2, <3>1, <3>2
  <2> QED
    BY <2>3, <2>4
<1>4. Spec /\ [][InTime /\ WholeWrites]_vars => []Life
  BY <1>2, LifeInductive, PTL
<1>5. Spec => []Typed /\ []Order /\ []InStep(channel_)
  BY TypedInductive, OrderInductive, ChannelInductive, PTL
<1> QED
  BY <1>1, <1>3, <1>4, <1>5, PTL DEF Spec

--------------------------------------------------------------------------
(* The high-water mark.                                                     *)

\* Where the closures are that tell of the mark.
Marks(q) == {i \in DOMAIN q : q[i].op = "highWater"}

\* They can be counted.
LEMMA MarksFinite ==
  ASSUME NEW q \in Seq(Closures)
  PROVE  IsFiniteSet(Marks(q)) /\ HighWaters(q) \in Nat
<1>1. Len(q) \in Nat /\ Marks(q) \in SUBSET (1..Len(q))
  BY DEF Marks
<1>2. IsFiniteSet(1..Len(q))
  BY <1>1, FS_Interval
<1>3. IsFiniteSet(Marks(q))
  BY <1>1, <1>2, FS_Subset
<1>4. Cardinality(Marks(q)) \in Nat
  BY <1>3, FS_CardinalityType
<1>5. HighWaters(q) = Cardinality(Marks(q))
  BY DEF HighWaters, Marks
<1> QED
  BY <1>3, <1>4, <1>5

\* One closure more behind the others, which counts if it is of that kind.
LEMMA MarksOfOneMore ==
  ASSUME NEW q \in Seq(Closures), NEW r \in Seq(Closures), NEW f,
         Len(r) = Len(q) + 1, \A i \in 1..Len(q) : r[i] = q[i], r[Len(q) + 1] = f
  PROVE  HighWaters(r) = HighWaters(q) + (IF f.op = "highWater" THEN 1 ELSE 0)
<1> DEFINE n == Len(q) + 1
<1>1. /\ Len(q) \in Nat /\ n \notin 1..Len(q) /\ DOMAIN q = 1..Len(q) /\ DOMAIN r = 1..n
      /\ 1..n = (1..Len(q)) \cup {n}
  OBVIOUS
<1> HIDE DEF n
<1>2. r[n] = f
  BY DEF n
<1>3. HighWaters(q) = Cardinality(Marks(q)) /\ HighWaters(r) = Cardinality(Marks(r))
  BY DEF HighWaters, Marks
<1>4. IsFiniteSet(Marks(q)) /\ HighWaters(q) \in Nat /\ n \notin Marks(q)
  BY <1>1, MarksFinite DEF Marks
<1>5. CASE f.op = "highWater"
  <2>1. Marks(r) = Marks(q) \cup {n}
    BY <1>1, <1>2, <1>5 DEF Marks
  <2>2. Cardinality(Marks(q) \cup {n}) = Cardinality(Marks(q)) + 1
    BY <1>4, FS_AddElement
  <2> QED
    BY <1>3, <1>5, <2>1, <2>2
<1>6. CASE f.op # "highWater"
  <2>1. Marks(r) = Marks(q)
    BY <1>1, <1>2, <1>6 DEF Marks
  <2> QED
    BY <1>3, <1>4, <1>6, <2>1
<1> QED
  BY <1>5, <1>6

\* Such a closure made anew.
LEMMA MarksOfAppend ==
  ASSUME NEW q \in Seq(Closures), NEW op \in Ops, NEW data \in Seq(Bytes)
  PROVE  /\ Append(q, Functor(op, data)) \in Seq(Closures)
         /\ HighWaters(Append(q, Functor(op, data)))
              = HighWaters(q) + (IF op = "highWater" THEN 1 ELSE 0)
<1> DEFINE f == Functor(op, data)
           r == Append(q, f)
<1>1. f \in Closures /\ f.op = op
  BY FunctorIs
<1> HIDE DEF f
<1>2. r \in Seq(Closures) /\ Len(r) = Len(q) + 1
      /\ (\A i \in 1..Len(q) : r[i] = q[i]) /\ r[Len(q) + 1] = f
  BY <1>1, AppendProperties
<1> HIDE DEF r
<1>3. HighWaters(r) = HighWaters(q) + (IF f.op = "highWater" THEN 1 ELSE 0)
  BY <1>2, MarksOfOneMore
<1> QED
  BY <1>1, <1>2, <1>3 DEF r, f

\* A callback of the user queued behind the others does not count.
LEMMA MarksOfCallback ==
  ASSUME NEW q \in Seq(Closures)
  PROVE  /\ Append(q, Functor("callback", <<>>)) \in Seq(Closures)
         /\ HighWaters(Append(q, Functor("callback", <<>>))) = HighWaters(q)
<1>1. "callback" \in Ops /\ <<>> \in Seq(Bytes) /\ HighWaters(q) \in Nat
  BY NoData, MarksFinite DEF Ops
<1>2. Append(q, Functor("callback", <<>>)) \in Seq(Closures)
  BY <1>1, MarksOfAppend
<1>3. HighWaters(Append(q, Functor("callback", <<>>))) = HighWaters(q) + 0
  BY <1>1, MarksOfAppend
<1>4. HighWaters(q) + 0 = HighWaters(q)
  BY <1>1
<1> QED
  BY <1>2, <1>3, <1>4, Zenon

\* Without its head a queue has no more of them, and as many if the head was none.
LEMMA MarksOfTail ==
  ASSUME NEW q \in Seq(Closures), q # <<>>
  PROVE  /\ HighWaters(Tail(q)) <= HighWaters(q)
         /\ Head(q).op # "highWater" => HighWaters(Tail(q)) = HighWaters(q)
<1> DEFINE t == Tail(q)
           f == [i \in Marks(t) |-> i + 1]
<1>1. /\ t \in Seq(Closures) /\ Len(q) \in Nat \ {0} /\ Len(t) = Len(q) - 1
      /\ \A i \in 1..Len(t) : t[i] = q[i + 1]
      /\ DOMAIN t = 1..Len(t) /\ DOMAIN q = 1..Len(q) /\ Head(q) = q[1]
  BY HeadTailProperties
<1> HIDE DEF t
<1>2. HighWaters(q) = Cardinality(Marks(q)) /\ HighWaters(t) = Cardinality(Marks(t))
  BY DEF HighWaters, Marks
<1>3. IsFiniteSet(Marks(q)) /\ IsFiniteSet(Marks(t))
  BY <1>1, MarksFinite
<1>4. \A i \in Marks(t) : i \in Nat /\ i + 1 \in Marks(q)
  BY <1>1 DEF Marks
<1>5. f \in Injection(Marks(t), Marks(q))
  <2>1. f \in [Marks(t) -> Marks(q)]
    BY <1>4
  <2>2. IsInjective(f)
    BY <1>4 DEF IsInjective
  <2> QED
    BY <2>1, <2>2 DEF Injection
<1>6. q[1].op # "highWater" => f \in Surjection(Marks(t), Marks(q))
  <2> SUFFICES ASSUME q[1].op # "highWater"
               PROVE  f \in Surjection(Marks(t), Marks(q))
    OBVIOUS
  <2>1. \A j \in Marks(q) : j - 1 \in Marks(t) /\ (j - 1) + 1 = j
    <3> SUFFICES ASSUME NEW j \in Marks(q) PROVE j - 1 \in Marks(t) /\ (j - 1) + 1 = j
      OBVIOUS
    <3>1. j \in 1..Len(q) /\ q[j].op = "highWater" /\ j # 1
      BY <1>1 DEF Marks
    <3>2. j - 1 \in 1..Len(t) /\ (j - 1) + 1 = j
      BY <1>1, <3>1
    <3> QED
      BY <1>1, <3>1, <3>2 DEF Marks
  <2>2. f \in [Marks(t) -> Marks(q)]
    BY <1>4
  <2>3. \A j \in Marks(q) : \E i \in Marks(t) : f[i] = j
    BY <2>1
  <2> QED
    BY <2>2, <2>3 DEF Surjection
<1> HIDE DEF f
<1>7. Cardinality(Marks(t)) <= Cardinality(Marks(q))
  BY <1>3, <1>5, FS_Injection
<1>8. q[1].op # "highWater" => Cardinality(Marks(t)) = Cardinality(Marks(q))
  BY <1>3, <1>5, <1>6, FS_Injection
<1> QED
  BY <1>1, <1>2, <1>7, <1>8 DEF t

\* What the property says of a step.
Crossed == Len(outputBuffer_) < highWaterMark_ /\ Len(outputBuffer_') >= highWaterMark_
MarkOnCrossing == HighWaters(functors') > HighWaters(functors) <=> Crossed

\* sendInLoop, on a queue that counts as many as the one before, tells of the crossing if
\* there is one.
LEMMA SendMarks ==
  ASSUME Data, NEW data \in Seq(Bytes), NEW q \in Seq(Closures),
         HighWaters(q) = HighWaters(functors), SendInLoop(data, q)
  PROVE  MarkOnCrossing
<1> DEFINE cb == Functor("callback", <<>>)
           hw == Functor("highWater", <<>>)
<1>0. /\ outputBuffer_ \in Seq(Bytes) /\ Len(outputBuffer_) \in Nat /\ HighWaters(q) \in Nat
      /\ wire \in Seq(Bytes) /\ acked \in 0..Len(wire) /\ Len(data) \in Nat
      /\ highWaterMark_ \in Nat
  BY MarksFinite, TcpConnectionAssumption DEF Data
<1>1. CASE state_ = "kDisconnected"
  BY <1>0, <1>1 DEF SendInLoop, MarkOnCrossing, Crossed
<1>2. CASE state_ # "kDisconnected"
  <2> DEFINE direct == ~IsWriting(channel_) /\ outputBuffer_ = <<>>
             oldLen == Len(outputBuffer_)
  <2>1. PICK n \in IF direct THEN Writes(Len(data)) ELSE {0} :
          LET rest == IF direct /\ Broken THEN <<>> ELSE Rest(data, n)
              total == oldLen + Len(rest)
          IN  /\ outputBuffer_' = outputBuffer_ \o rest
              /\ functors' = q
                   \o (IF n = Len(data) THEN <<cb>> ELSE <<>>)
                   \o (IF rest # <<>> /\ Crosses(oldLen, total) THEN <<hw>> ELSE <<>>)
    BY <1>2 DEF SendInLoop
  <2> DEFINE rest == IF direct /\ Broken THEN <<>> ELSE Rest(data, n)
             total == oldLen + Len(rest)
             p == q \o (IF n = Len(data) THEN <<cb>> ELSE <<>>)
             tells == rest # <<>> /\ Crosses(oldLen, total)
  <2>2. outputBuffer_' = outputBuffer_ \o rest /\ functors' = p \o (IF tells THEN <<hw>> ELSE <<>>)
    BY <2>1
  <2>3. n \in Nat
    BY <1>0, WritesAre
  <2>4. rest \in Seq(Bytes) /\ Len(rest) \in Nat /\ (rest = <<>> => Len(rest) = 0)
    BY <1>0, <2>3, RestIs, NoData
  <2>5. p \in Seq(Closures) /\ HighWaters(p) = HighWaters(q)
    <3>1. CASE n = Len(data)
      <4>1. p = Append(q, cb)
        BY <3>1, AppendIsConcat, FunctorIs, NoData DEF Ops
      <4> QED
        BY <4>1, MarksOfCallback
    <3>2. CASE n # Len(data)
      <4>1. p = q \o <<>>
        BY <3>2
      <4>2. q \o <<>> = q
        BY ConcatEmptySeq
      <4> HIDE DEF p
      <4> QED
        BY <4>1, <4>2
    <3> QED
      BY <3>1, <3>2
  <2> HIDE DEF p, rest, direct
  <2>6. Len(outputBuffer_') = total
    BY <1>0, <2>2, <2>4, ConcatProperties
  <2>7. tells <=> Crossed
    BY <1>0, <2>4, <2>6 DEF Crosses, Crossed
  <2>8. CASE tells
    <3>1. functors' = Append(p, hw)
      BY <2>2, <2>5, <2>8, AppendIsConcat, FunctorIs, NoData DEF Ops
    <3>2. HighWaters(functors') = HighWaters(p) + 1
      BY <2>5, <3>1, MarksOfAppend, NoData DEF Ops
    <3> QED
      BY <1>0, <2>5, <2>7, <2>8, <3>2 DEF MarkOnCrossing
  <2>9. CASE ~tells
    <3>1. functors' = p
      BY <2>2, <2>5, <2>9
    <3> QED
      BY <1>0, <2>5, <2>7, <2>9, <3>1 DEF MarkOnCrossing
  <2> QED
    BY <2>8, <2>9
<1> QED
  BY <1>1, <1>2

\* A step that neither adds output nor tells of the mark.
LEMMA NoMark ==
  ASSUME Data, Queue, HighWaters(functors') <= HighWaters(functors),
         HighWaters(functors') \in Nat, Len(outputBuffer_') \in Nat,
         Len(outputBuffer_') <= Len(outputBuffer_)
  PROVE  MarkOnCrossing
<1>1. HighWaters(functors) \in Nat /\ Len(outputBuffer_) \in Nat /\ highWaterMark_ \in Nat
  BY MarksFinite, TcpConnectionAssumption DEF Data, Queue
<1> QED
  BY <1>1 DEF MarkOnCrossing, Crossed

\* The steps that leave the output alone.
LEMMA SameOutput ==
  ASSUME Data, Queue, outputBuffer_' = outputBuffer_,
         \/ functors' = functors
         \/ functors' = Tail(functors) /\ functors # <<>>
         \/ \E op \in Ops \ {"highWater"}, data \in Seq(Bytes) :
              functors' = Append(functors, Functor(op, data))
  PROVE  MarkOnCrossing
<1>0. /\ functors \in Seq(Closures) /\ HighWaters(functors) \in Nat
      /\ Len(outputBuffer_) \in Nat
  BY MarksFinite DEF Data, Queue
<1>1. CASE functors' = functors
  BY <1>0, <1>1, NoMark
<1>2. CASE functors' = Tail(functors) /\ functors # <<>>
  <2>1. Tail(functors) \in Seq(Closures)
    BY <1>0, <1>2
  <2>2. HighWaters(Tail(functors)) \in Nat
    BY <2>1, MarksFinite
  <2> QED
    BY <1>0, <1>2, <2>2, MarksOfTail, NoMark
<1>3. ASSUME NEW op \in Ops \ {"highWater"}, NEW data \in Seq(Bytes),
             functors' = Append(functors, Functor(op, data))
      PROVE  MarkOnCrossing
  <2>1. HighWaters(functors') = HighWaters(functors)
    BY <1>0, <1>3, MarksOfAppend
  <2> QED
    BY <1>0, <2>1, NoMark
<1> QED
  BY <1>1, <1>2, <1>3

\* A step that queues the high-water callback is one that crosses the mark.
LEMMA MarkStep ==
  ASSUME Typed, [Next]_vars
  PROVE  MarkOnCrossing
<1>0. Data /\ Queue /\ functors \in Seq(Closures)
  BY DEF Typed, Queue
<1>1. CASE \/ Poll \/ OnClose \/ OnError \/ OnRead \/ DoPendingFunctors
           \/ PendingFunctorsDone \/ DestroyConnected \/ UserReturns \/ Shutdown
  <2>1. UNCHANGED <<outputBuffer_, functors>>
    BY <1>1 DEF Poll, OnClose, OnError, OnRead, DoPendingFunctors, PendingFunctorsDone,
       DestroyConnected, UserReturns, Shutdown, connVars, loopVars
  <2> QED
    BY <1>0, <2>1, SameOutput
<1>2. CASE OnWrite
  <2>1. CASE UNCHANGED <<outputBuffer_, functors>>
    BY <1>0, <2>1, SameOutput
  <2>2. ASSUME NEW n \in Writes(Len(outputBuffer_)), outputBuffer_' = AfterWrite(n),
               \/ functors' = functors
               \/ functors' = Append(functors, Functor("callback", <<>>))
        PROVE  MarkOnCrossing
    <3>1. n \in Nat
      BY <1>0, WritesAre DEF Data
    <3>2. Len(outputBuffer_') \in Nat /\ Len(outputBuffer_') <= Len(outputBuffer_)
      <4> DEFINE r == Rest(outputBuffer_, n)
      <4>1. r \in Seq(Bytes) /\ Len(r) <= Len(outputBuffer_) /\ Len(outputBuffer_) \in Nat
        BY <1>0, <3>1, RestIs DEF Data
      <4>2. outputBuffer_' = Rest(r, n)
        BY <2>2 DEF AfterWrite
      <4> HIDE DEF r
      <4>3. Rest(r, n) \in Seq(Bytes) /\ Len(Rest(r, n)) <= Len(r) /\ Len(r) \in Nat
        BY <3>1, <4>1, RestIs
      <4> QED
        BY <4>1, <4>2, <4>3
    <3>3. HighWaters(functors') = HighWaters(functors) /\ HighWaters(functors) \in Nat
      BY <1>0, <2>2, MarksFinite, MarksOfCallback
    <3> QED
      BY <1>0, <3>2, <3>3, NoMark
  <2> QED
    BY <1>2, <2>1, <2>2 DEF OnWrite
<1>3. CASE ConnectEstablished \/ RunShutdownInLoop \/ RunCallback \/ ConnectDestroyed
  <2>1. outputBuffer_' = outputBuffer_ /\ functors' = Tail(functors) /\ batch > 0
    BY <1>3 DEF ConnectEstablished, RunShutdownInLoop, RunCallback, ConnectDestroyed, Runs,
       connVars
  <2>2. functors # <<>>
    BY <1>0, <2>1, Popped
  <2> QED
    BY <1>0, <2>1, <2>2, SameOutput
<1>4. CASE RunSendInLoop
  <2>1. batch > 0 /\ Head(functors).op = "sendInLoop"
        /\ SendInLoop(Head(functors).data, Tail(functors))
    BY <1>4 DEF RunSendInLoop, Runs
  <2>2. functors # <<>> /\ Head(functors) \in Closures /\ Tail(functors) \in Seq(Closures)
    BY <1>0, <2>1, Popped
  <2>3. Head(functors).data \in Seq(Bytes)
    BY <2>2 DEF Closures
  <2>4. HighWaters(Tail(functors)) = HighWaters(functors)
    BY <1>0, <2>1, <2>2, MarksOfTail
  <2> QED
    BY <1>0, <2>1, <2>2, <2>3, <2>4, SendMarks
<1>5. ASSUME NEW data \in Chunk(Loop), Send(data) PROVE MarkOnCrossing
  <2>1. data \in Seq(Bytes) /\ SendInLoop(data, functors)
    BY <1>0, <1>5, ChunkIs DEF Send, Data
  <2> QED
    BY <1>0, <2>1, SendMarks
<1>6. ASSUME NEW t \in Senders, NEW data \in Chunk(t), SendQueue(t, data) PROVE MarkOnCrossing
  <2>1. data \in Seq(Bytes)
    BY <1>0, <1>6, ChunkIs DEF SendQueue, Data
  <2>2. outputBuffer_' = outputBuffer_ /\ functors' = Append(functors, Functor("sendInLoop", data))
    BY <1>6 DEF SendQueue, connVars
  <2> QED
    BY <1>0, <2>1, <2>2, SameOutput DEF Ops
<1>7. ASSUME NEW t \in Shutters, ShutdownQueue(t) PROVE MarkOnCrossing
  <2>1. outputBuffer_' = outputBuffer_
        /\ functors' = Append(functors, Functor("shutdownInLoop", <<>>))
    BY <1>7 DEF ShutdownQueue, connVars
  <2> QED
    BY <1>0, <2>1, SameOutput, NoData DEF Ops
<1>8. CASE \/ \E t \in Senders : SendTest(t)
           \/ \E t \in Shutters : ShutdownTest(t) \/ ShutdownSet(t)
           \/ Environment \/ UNCHANGED vars
  <2>1. UNCHANGED <<outputBuffer_, functors>>
    BY <1>8 DEF SendTest, ShutdownTest, ShutdownSet, Begins, Environment, PeerSends,
       PeerCloses, PeerResets, PeerAcks, connVars, loopVars, vars
  <2> QED
    BY <1>0, <2>1, SameOutput
<1>9. CASE RemoveConnectionInLoop \/ ServerDestroyed
  <2>1. outputBuffer_' = outputBuffer_
        /\ functors' \in {functors, Append(functors, Functor("connectDestroyed", <<>>))}
    BY <1>9 DEF RemoveConnectionInLoop, ServerDestroyed, QueueConnectDestroyed, connVars
  <2> QED
    BY <1>0, <2>1, SameOutput, NoData DEF Ops
<1> QED
  BY <1>1, <1>2, <1>3, <1>4, <1>5, <1>6, <1>7, <1>8, <1>9, Steps

\* Whichever thread sends, and however much, the user hears of the high-water mark exactly
\* when the waiting output crosses it.
THEOREM MarkIsToldOnCrossing == Spec => HighWaterOnCrossing
<1>1. Typed /\ [Next]_vars =>
        [HighWaters(functors') > HighWaters(functors)
           <=> Len(outputBuffer_) < highWaterMark_ /\ Len(outputBuffer_') >= highWaterMark_]_vars
  BY MarkStep DEF MarkOnCrossing, Crossed
<1> QED
  BY <1>1, TypedInductive, PTL DEF Spec, HighWaterOnCrossing

--------------------------------------------------------------------------
(* The two programs, EchoServer.                                            *)

\* onMessage has a message to send, and no longer one than the peer may have sent.
MessageWaits == step = "send" => msg \in 1..MaxMessages

\* Every step of a program is one of TcpConnection's, or none.
LEMMA EchoSteps ==
  ASSUME MaxMessages <= MaxChunk, Typed, MessageWaits, [EchoNext]_echoVars
  PROVE  [Next]_vars /\ MessageWaits'
<1>0. inbox \in 0..MaxMessages /\ MaxMessages \in Nat /\ MaxChunk \in Nat
  BY TcpConnectionAssumption DEF Typed, Places
<1>1. CASE EchoLoop
  <2>1. LoopStep
    BY <1>1 DEF EchoLoop
  <2>2. CASE pc = "event" /\ pc' = "handler"
    <3>1. OnRead
      BY <2>1, <2>2 DEF LoopStep, Poll, OnClose, OnError, OnWrite, DoPendingFunctors,
         PendingFunctorsDone, ConnectEstablished, RunSendInLoop, RunShutdownInLoop,
         RunCallback, ConnectDestroyed, DestroyConnected, UserReturns, InUserCode, Handles,
         Runs
    <3>2. inbox > 0 /\ msg' = inbox
      BY <1>1, <2>2, <3>1 DEF EchoLoop, OnRead
    <3> QED
      BY <1>0, <2>1, <3>2 DEF Next, MessageWaits
  <2>3. CASE ~(pc = "event" /\ pc' = "handler")
    <3>1. msg' = msg /\ step' = step
      BY <1>1, <2>3 DEF EchoLoop
    <3> QED
      BY <2>1, <3>1 DEF Next, MessageWaits
  <2> QED
    BY <2>2, <2>3
<1>2. CASE EchoSend
  <2>1. MessageWaits'
    BY <1>2 DEF EchoSend, MessageWaits
  <2> DEFINE data == [i \in 1..msg |-> <<Loop, sent[Loop] + i>>]
  <2>2. data \in Chunk(Loop)
    <3>1. msg \in 1..MaxChunk
      BY <1>0, <1>2 DEF EchoSend, MessageWaits
    <3> QED
      BY <3>1 DEF Chunk
  <2>3. Send(data) \/ UNCHANGED vars
    BY <1>2 DEF EchoSend
  <2> HIDE DEF data
  <2> QED
    BY <2>1, <2>2, <2>3 DEF Next, UserCode
<1>3. CASE EchoShutdown
  BY <1>3 DEF EchoShutdown, MessageWaits, Next, UserCode
<1>4. CASE (RemoveConnectionInLoop /\ UNCHANGED <<msg, step>>) \/ EchoPeer
  BY <1>4 DEF EchoPeer, MessageWaits, Next, Environment
<1>5. CASE UNCHANGED echoVars
  BY <1>5 DEF echoVars, MessageWaits
<1> QED
  BY <1>1, <1>2, <1>3, <1>4, <1>5 DEF EchoNext, EchoStep

\* A program that sends back what it read, and shuts down or not, does to its connection
\* what TcpConnection allows: the theorems above hold of the two programs.
THEOREM ProgramsUseAConnection == MaxMessages <= MaxChunk => (EchoSpec => Spec)
<1> SUFFICES ASSUME MaxMessages <= MaxChunk PROVE EchoSpec => Spec
  OBVIOUS
<1>1. EchoInit => Init /\ Typed /\ MessageWaits
  BY TypedAtFirst DEF EchoInit, MessageWaits
<1>2. Typed /\ MessageWaits /\ [EchoNext]_echoVars => [Next]_vars /\ Typed' /\ MessageWaits'
  BY EchoSteps, TypedStep
<1> QED
  BY <1>1, <1>2, PTL DEF EchoSpec, Spec

\* The echo servers have no other thread in the connection: their user sees it come up,
\* then go down once, and what connectDestroyed removed stays removed.
THEOREM ProgramsSeeUpThenDown ==
  Shutters = {} /\ MaxMessages <= MaxChunk =>
    (EchoSpec => [](UpThenDown /\ RemovedForGood /\ InOrder))
<1> SUFFICES ASSUME Shutters = {}, MaxMessages <= MaxChunk
             PROVE  EchoSpec => [](UpThenDown /\ RemovedForGood /\ InOrder)
  OBVIOUS
<1>1. EchoSpec => Spec
  BY ProgramsUseAConnection
<1>2. Spec => [][InTime]_vars
  BY NobodyIsLate
<1> QED
  BY <1>1, <1>2, UpThenDownOnce, StaysRemoved, BytesInOrder, PTL

=============================================================================
