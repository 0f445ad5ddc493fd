----------------------- MODULE ConnectionLifetimeProofs -----------------------
(***************************************************************************)
(* Proofs about ConnectionLifetime: no pointer is used after the connection *)
(* was freed, and what it promises as Connection.  What all of it rests on   *)
(* is that connectDestroyed is queued once, when the map lets go of the      *)
(* connection, and that nothing puts the channel back after it.             *)
(***************************************************************************)
EXTENDS ConnectionLifetime, ChannelProofs, SequenceTheorems, TLAPS

Closure == [op : {"connectEstablished", "callback", "sendInLoop", "connectDestroyed"},
            late : BOOLEAN]

LifetimeType ==
  /\ pc \in {"poll", "event", "handling", "functors", "exited"}
  /\ reported \in SUBSET {"in", "out", "hup"}
  /\ queue \in Seq(Closure)
  /\ batch \in 0..Len(queue)
  /\ held \in BOOLEAN
  /\ state_ \in {"kConnecting", "kConnected", "kDisconnecting", "kDisconnected"}
  /\ destroyed \in {"no", "taken", "run"}
  /\ connections_ \in BOOLEAN
  /\ base \in {0, 1}
  /\ baseHeld \in BOOLEAN
  /\ server \in {"up", "gone", "quit"}
  /\ user \in [Users -> {"none", "holds", "send"}]
  /\ InStep(channel_)

HasDestroy == \E i \in DOMAIN queue : queue[i].op = "connectDestroyed"

\* connectEstablished is first, and the connection in kConnecting until it was run.
EstablishedFirst ==
  /\ \A i \in DOMAIN queue :
       queue[i].op = "connectEstablished" => i = 1 /\ state_ = "kConnecting"
  /\ state_ = "kConnecting" => queue # <<>> /\ queue[1].op = "connectEstablished"

\* connectDestroyed is queued once, when the map lets the connection go, and is in the
\* closures of this iteration exactly when it was taken.
DestroyedOnce ==
  /\ \A i, j \in DOMAIN queue :
       queue[i].op = "connectDestroyed" /\ queue[j].op = "connectDestroyed" => i = j
  /\ \A i \in DOMAIN queue :
       queue[i].op = "connectDestroyed" =>
         ~connections_ /\ destroyed # "run" /\ (i <= batch <=> destroyed = "taken")
  /\ destroyed = "taken" => pc = "functors" /\ HasDestroy
  /\ destroyed # "no" => ~connections_

\* Until it was run, either the map or the closure keeps the connection.
KeptUntilRun == destroyed # "run" => connections_ \/ HasDestroy

\* What was queued before it was taken is run in the same iteration at the latest, in which
\* the vector keeps the connection.
EarlyInBatch ==
  \A i \in DOMAIN queue :
    ~queue[i].late /\ destroyed # "no" => i <= batch /\ (destroyed = "run" => held)

\* The channel is in epoll exactly between connectEstablished and the closing.
ChannelFollows ==
  /\ state_ = "kConnecting" => channel_.epoll = {} /\ reported = {}
  /\ state_ \in {"kConnected", "kDisconnecting"} /\ destroyed # "run" =>
       "in" \in channel_.events /\ channel_.epoll # {}
  /\ state_ = "kDisconnected" =>
       channel_.events = {} /\ channel_.epoll = {} /\ reported \subseteq {"out"}
  /\ destroyed = "run" =>
       state_ \in {"kDisconnecting", "kDisconnected"} /\ channel_.epoll = {}
  /\ reported # {} => \/ pc = "handling"
                      \/ pc = "event" /\ state_ \in {"kConnected", "kDisconnecting"}
  /\ reported # {} \/ pc = "handling" => destroyed = "no"

\* The server lets go of the connection when it was closed, or goes away itself, and then
\* no other thread sends.
ServerFollows ==
  /\ base = 1 => state_ = "kDisconnected" /\ (server = "up" => connections_)
  /\ server = "up" /\ ~connections_ => state_ = "kDisconnected"
  /\ server # "up" => /\ ~connections_
                      /\ \A u \in Users : user[u] # "send"
                      /\ \A i \in DOMAIN queue : queue[i].op # "sendInLoop"

LifetimeInv ==
  /\ LifetimeType /\ EstablishedFirst /\ DestroyedOnce /\ KeptUntilRun /\ EarlyInBatch
  /\ ChannelFollows /\ ServerFollows

--------------------------------------------------------------------------
(* How the queue changes.                                                   *)

\* A step that has nothing to do with the queue.
QueueKept ==
  /\ UNCHANGED <<queue, batch, held, destroyed, connections_>>
  /\ pc' = "functors" <=> pc = "functors"
  /\ state_' = "kConnecting" <=> state_ = "kConnecting"

\* One that queues a closure.
QueueGrows(op) ==
  /\ queue' = Append(queue, Functor(op))
  /\ UNCHANGED <<batch, held, destroyed>>
  /\ pc' = "functors" <=> pc = "functors"
  /\ state_' = "kConnecting" <=> state_ = "kConnecting"
  /\ IF op = "connectDestroyed" THEN connections_ /\ ~connections_'
                                ELSE connections_' = connections_
  /\ op = "sendInLoop" => \E u \in Users : user[u] = "send"

\* One that runs the head.
QueueShrinks ==
  /\ pc = "functors" /\ pc' = "functors"
  /\ batch > 0 /\ batch' = batch - 1
  /\ \/ queue' = Tail(queue)
     \/ queue' = Append(Tail(queue), Functor("callback")) /\ queue[1].op # "connectDestroyed"
  /\ held' = (held \/ queue[1].op # "sendInLoop")
  /\ destroyed' = IF queue[1].op = "connectDestroyed" THEN "run" ELSE destroyed
  /\ IF queue[1].op = "connectEstablished" THEN state_' # "kConnecting"
     ELSE state_' = "kConnecting" <=> state_ = "kConnecting"
  /\ connections_' = connections_

\* The end of doPendingFunctors.
BatchDone ==
  /\ UNCHANGED <<queue, batch, destroyed, connections_, state_>>
  /\ pc = "functors" /\ batch = 0 /\ pc' \in {"poll", "exited"} /\ held' = FALSE

\* While closures of this iteration are left, the first of the queue is one of them.
LEMMA HeadOp ==
  ASSUME LifetimeType, batch > 0
  PROVE  Head(queue) = queue[1] /\ queue # <<>> /\ 1 \in DOMAIN queue
BY DEF LifetimeType

\* Every step leaves the queue alone, adds a closure at its end, runs its head, or opens
\* or closes the batch.
LEMMA QueueSteps ==
  ASSUME LifetimeInv, [Next]_vars
  PROVE  \/ QueueKept
         \/ \E op \in {"callback", "sendInLoop", "connectDestroyed"} : QueueGrows(op)
         \/ QueueShrinks \/ DoPendingFunctors \/ BatchDone
<1> DEFINE Goal == \/ QueueKept
                   \/ \E op \in {"callback", "sendInLoop", "connectDestroyed"} : QueueGrows(op)
                   \/ QueueShrinks \/ DoPendingFunctors \/ BatchDone
<1> USE DEF connVars, serverVars
<1>t. LifetimeType /\ EstablishedFirst /\ ChannelFollows /\ ServerFollows
  BY DEF LifetimeInv
<1>1. CASE Poll
  BY <1>1 DEF Poll, QueueKept
<1>2. CASE HandlerEvent
  BY <1>2 DEF HandlerEvent, QueueKept
<1>3. CASE OnClose
  <2>1. state_ # "kConnecting"
    BY <1>3, <1>t DEF OnClose, Handles, ChannelFollows
  <2> QED
    BY <1>3, <2>1 DEF OnClose, Handles, HandleClose, QueueKept
<1>4. CASE OnRead
  <2>1. state_ # "kConnecting" /\ pc # "functors" /\ pc' # "functors"
    BY <1>4, <1>t DEF OnRead, Handles, ChannelFollows
  <2>2. UNCHANGED <<batch, held, destroyed, connections_>> /\ state_' # "kConnecting"
    BY <1>4, <2>1 DEF OnRead, Handles, HandleClose, UserCode
  <2>3. queue' = queue \/ queue' = Append(queue, Functor("callback"))
    BY <1>4 DEF OnRead, UserCode, SendInLoop
  <2> QED
    BY <2>1, <2>2, <2>3 DEF QueueKept, QueueGrows
<1>5. CASE OnWrite
  BY <1>5 DEF OnWrite, Handles, Queued, QueueKept, QueueGrows
<1>6. CASE HandlersDone
  BY <1>6 DEF HandlersDone, QueueKept
<1>7. CASE DoPendingFunctors
  BY <1>7
<1>8. CASE PendingFunctorsDone
  BY <1>8 DEF PendingFunctorsDone, BatchDone
<1>9. ASSUME NEW op, Runs(op)
      PROVE  /\ pc = "functors" /\ pc' = "functors" /\ batch > 0 /\ batch' = batch - 1
             /\ queue[1].op = op /\ connections_' = connections_
             /\ held' = (held \/ queue[1].op # "sendInLoop")
  <2>1. batch > 0
    BY <1>9 DEF Runs
  <2>2. Head(queue) = queue[1]
    BY <2>1, <1>t, HeadOp
  <2> QED
    BY <1>9, <2>1, <2>2 DEF Runs, Keeps
<1>10. CASE ConnectEstablished
  <2>1. Runs("connectEstablished") /\ queue' = Tail(queue) /\ state_' = "kConnected"
        /\ destroyed' = destroyed
    BY <1>10 DEF ConnectEstablished
  <2>2. QueueShrinks
    BY <2>1, <1>9 DEF QueueShrinks
  <2> QED
    BY <2>2
<1>11. CASE RunCallback
  <2>1. Runs("callback") /\ UserCode(Tail(queue)) /\ destroyed' = destroyed
    BY <1>11 DEF RunCallback
  <2>2. state_' = "kConnecting" <=> state_ = "kConnecting"
    BY <2>1 DEF UserCode
  <2>3. queue' = Tail(queue) \/ queue' = Append(Tail(queue), Functor("callback"))
    BY <2>1 DEF UserCode, SendInLoop
  <2>4. QueueShrinks
    BY <2>1, <2>2, <2>3, <1>9 DEF QueueShrinks
  <2> QED
    BY <2>4
<1>12. CASE RunSendInLoop
  <2>1. Runs("sendInLoop") /\ destroyed' = destroyed /\ state_' = state_
    BY <1>12 DEF RunSendInLoop
  <2>2. queue' = Tail(queue) \/ queue' = Append(Tail(queue), Functor("callback"))
    BY <1>12 DEF RunSendInLoop, SendInLoop
  <2>3. QueueShrinks
    BY <2>1, <2>2, <1>9 DEF QueueShrinks
  <2> QED
    BY <2>3
<1>13. CASE ConnectDestroyed
  <2>1. Runs("connectDestroyed") /\ queue' = Tail(queue) /\ destroyed' = "run"
        /\ (state_' = "kConnecting" <=> state_ = "kConnecting")
    BY <1>13 DEF ConnectDestroyed
  <2>2. QueueShrinks
    BY <2>1, <1>9 DEF QueueShrinks
  <2> QED
    BY <2>2
<1>14. CASE RemoveConnectionInLoop
  <2>1. connections_ /\ ~connections_'
    BY <1>14, <1>t DEF RemoveConnectionInLoop, ServerFollows, LifetimeType
  <2>2. QueueGrows("connectDestroyed")
    BY <1>14, <2>1 DEF RemoveConnectionInLoop, Queued, QueueGrows
  <2> QED
    BY <2>2
<1>15. CASE BaseFunctorsDone
  BY <1>15 DEF BaseFunctorsDone, QueueKept
<1>16. CASE Quit
  BY <1>16 DEF Quit, QueueKept
<1>17. CASE ServerDestroyed
  <2>1. CASE connections_
    <3>1. QueueGrows("connectDestroyed")
      BY <1>17, <2>1 DEF ServerDestroyed, Queued, QueueGrows
    <3> QED
      BY <3>1
  <2>2. CASE ~connections_
    <3>1. connections_' = connections_
      BY <1>17, <1>t, <2>2 DEF ServerDestroyed, LifetimeType
    <3> QED
      BY <1>17, <2>2, <3>1 DEF ServerDestroyed, QueueKept
  <2> QED
    BY <2>1, <2>2
<1>18. ASSUME NEW u \in Users, SendTest(u) \/ Drop(u) PROVE Goal
  BY <1>18 DEF SendTest, Drop, UserStep, QueueKept
<1>19. ASSUME NEW u \in Users, SendQueue(u) PROVE Goal
  <2>1. QueueGrows("sendInLoop")
    BY <1>19 DEF SendQueue, UserStep, Queued, QueueGrows
  <2> QED
    BY <2>1
<1>20. CASE UNCHANGED vars
  BY <1>20 DEF vars, QueueKept
<1> QED
  BY <1>1, <1>2, <1>3, <1>4, <1>5, <1>6, <1>7, <1>8, <1>10, <1>11, <1>12, <1>13, <1>14,
     <1>15, <1>16, <1>17, <1>18, <1>19, <1>20 DEF Next, LoopStep, BaseStep

\* A closure in the queue after it grew is an old one at its place, or the new one, last.
LEMMA GrownQueue ==
  ASSUME LifetimeType,
         NEW op \in {"callback", "sendInLoop", "connectDestroyed"}, QueueGrows(op)
  PROVE  /\ queue' \in Seq(Closure) /\ Len(queue') = Len(queue) + 1
         /\ batch' \in 0..Len(queue')
         /\ \A i \in DOMAIN queue : i \in DOMAIN queue' /\ queue'[i] = queue[i]
         /\ \A i \in DOMAIN queue' :
              i \in DOMAIN queue \/ (i = Len(queue) + 1 /\ queue'[i] = Functor(op))
         /\ Len(queue) + 1 \in DOMAIN queue' /\ queue'[Len(queue) + 1] = Functor(op)
<1>1. queue \in Seq(Closure) /\ batch \in 0..Len(queue)
  BY DEF LifetimeType
<1> DEFINE f == Functor(op)
<1>2. f \in Closure
  BY DEF Functor, Closure
<1>3. queue' = Append(queue, f) /\ batch' = batch
  BY DEF QueueGrows
<1> HIDE DEF f
<1>4. queue' \in Seq(Closure) /\ Len(queue') = Len(queue) + 1
  BY <1>1, <1>2, <1>3
<1>5. batch' \in 0..Len(queue')
  BY <1>1, <1>3, <1>4
<1>6. \A i \in DOMAIN queue : i \in DOMAIN queue' /\ queue'[i] = queue[i]
  BY <1>1, <1>2, <1>3
<1>7. Len(queue) + 1 \in DOMAIN queue' /\ queue'[Len(queue) + 1] = f
  BY <1>1, <1>2, <1>3
<1>8. \A i \in DOMAIN queue' :
        i \in DOMAIN queue \/ (i = Len(queue) + 1 /\ queue'[i] = f)
  BY <1>1, <1>4, <1>7
<1> QED
  BY <1>4, <1>5, <1>6, <1>7, <1>8 DEF f

\* One after it shrank is an old one moved up, or a callback queued while the first was run.
LEMMA ShrunkQueue ==
  ASSUME LifetimeType, QueueShrinks
  PROVE  /\ 1 \in DOMAIN queue
         /\ queue' \in Seq(Closure) /\ batch' \in 0..Len(queue')
         /\ \A i \in DOMAIN queue : i # 1 => i - 1 \in DOMAIN queue' /\ queue'[i - 1] = queue[i]
         /\ \A i \in DOMAIN queue' :
              \/ i + 1 \in DOMAIN queue /\ queue'[i] = queue[i + 1]
              \/ queue'[i] = Functor("callback") /\ queue[1].op # "connectDestroyed"
<1>1. queue \in Seq(Closure) /\ batch \in 0..Len(queue) /\ batch > 0 /\ queue # <<>>
  BY DEF LifetimeType, QueueShrinks
<1>2. Functor("callback") \in Closure
  BY DEF Functor, Closure
<1> DEFINE t == Tail(queue)
<1>3. /\ t \in Seq(Closure) /\ Len(t) = Len(queue) - 1
      /\ \A i \in DOMAIN t : i + 1 \in DOMAIN queue /\ t[i] = queue[i + 1]
      /\ \A i \in DOMAIN queue : i # 1 => i - 1 \in DOMAIN t /\ t[i - 1] = queue[i]
  BY <1>1
<1>4. CASE queue' = t
  BY <1>1, <1>3, <1>4 DEF QueueShrinks
<1>5. CASE queue' = Append(t, Functor("callback")) /\ queue[1].op # "connectDestroyed"
  <2> HIDE DEF t
  <2>1. /\ queue' \in Seq(Closure) /\ Len(queue') = Len(t) + 1
        /\ \A i \in DOMAIN t : i \in DOMAIN queue' /\ queue'[i] = t[i]
        /\ \A i \in DOMAIN queue' : i \in DOMAIN t \/ queue'[i] = Functor("callback")
    BY <1>2, <1>3, <1>5
  <2>2. batch' \in 0..Len(queue')
    BY <1>1, <1>3, <2>1 DEF QueueShrinks
  <2>3. \A i \in DOMAIN queue : i # 1 => i - 1 \in DOMAIN queue' /\ queue'[i - 1] = queue[i]
    BY <1>3, <2>1
  <2>4. \A i \in DOMAIN queue' :
              \/ i + 1 \in DOMAIN queue /\ queue'[i] = queue[i + 1]
              \/ queue'[i] = Functor("callback") /\ queue[1].op # "connectDestroyed"
    BY <1>3, <1>5, <2>1
  <2> QED
    BY <1>1, <2>1, <2>2, <2>3, <2>4
<1> QED
  BY <1>4, <1>5 DEF QueueShrinks

\* Every step keeps connectEstablished first, and the connection kConnecting until it ran.
LEMMA EstablishedFirstStep ==
  ASSUME LifetimeInv, [Next]_vars
  PROVE  EstablishedFirst'
<1>t. LifetimeType /\ EstablishedFirst
  BY DEF LifetimeInv
<1>1. CASE QueueKept
  BY <1>t, <1>1 DEF EstablishedFirst, QueueKept
<1>2. ASSUME NEW op \in {"callback", "sendInLoop", "connectDestroyed"}, QueueGrows(op)
      PROVE  EstablishedFirst'
  <2>1. Functor(op).op = op
    BY DEF Functor
  <2>2. state_' = "kConnecting" <=> state_ = "kConnecting"
    BY <1>2 DEF QueueGrows
  <2>3. ASSUME NEW i \in DOMAIN queue', queue'[i].op = "connectEstablished"
        PROVE  i = 1 /\ state_' = "kConnecting"
    BY <1>t, <1>2, <2>1, <2>2, <2>3, GrownQueue DEF EstablishedFirst
  <2>4. ASSUME state_' = "kConnecting"
        PROVE  queue' # <<>> /\ queue'[1].op = "connectEstablished"
    <3>1. 1 \in DOMAIN queue /\ queue[1].op = "connectEstablished"
      BY <1>t, <2>2, <2>4 DEF EstablishedFirst, LifetimeType
    <3> QED
      BY <1>t, <1>2, <3>1, GrownQueue
  <2> QED
    BY <2>3, <2>4 DEF EstablishedFirst
<1>3. CASE QueueShrinks
  <2>1. Functor("callback").op = "callback"
    BY DEF Functor
  <2>2. \A i \in DOMAIN queue' : queue'[i].op # "connectEstablished"
    <3>1. \A i \in DOMAIN queue' : i + 1 # 1
      BY <1>t, <1>3, ShrunkQueue
    <3> QED
      BY <1>t, <1>3, <2>1, <3>1, ShrunkQueue DEF EstablishedFirst
  <2>3. state_' # "kConnecting"
    BY <1>t, <1>3 DEF QueueShrinks, EstablishedFirst
  <2> QED
    BY <2>2, <2>3 DEF EstablishedFirst
<1>4. CASE DoPendingFunctors
  BY <1>t, <1>4 DEF DoPendingFunctors, EstablishedFirst
<1>5. CASE BatchDone
  BY <1>t, <1>5 DEF BatchDone, EstablishedFirst
<1> QED
  BY <1>1, <1>2, <1>3, <1>4, <1>5, QueueSteps

\* Every step keeps connectDestroyed queued at most once, after the map let go.
LEMMA DestroyedOnceStep ==
  ASSUME LifetimeInv, [Next]_vars
  PROVE  DestroyedOnce'
<1>t. LifetimeType /\ DestroyedOnce
  BY DEF LifetimeInv
<1>d. queue \in Seq(Closure) /\ batch \in 0..Len(queue)
  BY <1>t DEF LifetimeType
<1>1. CASE QueueKept
  BY <1>t, <1>1 DEF DestroyedOnce, HasDestroy, QueueKept
<1>2. ASSUME NEW op \in {"callback", "sendInLoop"}, QueueGrows(op)
      PROVE  DestroyedOnce'
  <2>1. Functor(op).op = op
    BY DEF Functor
  <2>2. \A i \in DOMAIN queue' : queue'[i].op = "connectDestroyed" =>
          i \in DOMAIN queue /\ queue[i].op = "connectDestroyed"
    BY <1>t, <1>2, <2>1, GrownQueue
  <2>3. HasDestroy => HasDestroy'
    BY <1>t, <1>2, GrownQueue DEF HasDestroy
  <2>4. UNCHANGED <<batch, destroyed, connections_>> /\ (pc' = "functors" <=> pc = "functors")
    BY <1>2 DEF QueueGrows
  <2> QED
    BY <1>t, <2>2, <2>3, <2>4 DEF DestroyedOnce
<1>3. CASE QueueGrows("connectDestroyed")
  <2>1. connections_ /\ ~connections_' /\ UNCHANGED <<batch, destroyed>>
    BY <1>3 DEF QueueGrows
  <2>2. /\ \A i \in DOMAIN queue : queue[i].op # "connectDestroyed"
        /\ destroyed = "no"
    BY <1>t, <2>1 DEF DestroyedOnce, LifetimeType
  <2>3. \A i \in DOMAIN queue' : queue'[i].op = "connectDestroyed" => i = Len(queue) + 1
    BY <1>t, <1>3, <2>2, GrownQueue
  <2>4. ~(Len(queue) + 1 <= batch')
    BY <1>d, <2>1
  <2> QED
    BY <2>1, <2>2, <2>3, <2>4 DEF DestroyedOnce
<1>4. CASE QueueShrinks
  <2>1. Functor("callback").op = "callback"
    BY DEF Functor
  <2>2. \A i \in DOMAIN queue' : queue'[i].op = "connectDestroyed" =>
          i + 1 \in DOMAIN queue /\ queue[i + 1].op = "connectDestroyed"
    BY <1>t, <1>4, <2>1, ShrunkQueue
  <2>3. DOMAIN queue' \subseteq Nat /\ 1 \in DOMAIN queue
    BY <1>t, <1>4, ShrunkQueue
  <2>4. /\ batch > 0 /\ batch' = batch - 1 /\ connections_' = connections_
        /\ pc' = "functors"
        /\ destroyed' = IF queue[1].op = "connectDestroyed" THEN "run" ELSE destroyed
    BY <1>4 DEF QueueShrinks
  <2>5. ASSUME NEW i \in DOMAIN queue', NEW j \in DOMAIN queue',
               queue'[i].op = "connectDestroyed", queue'[j].op = "connectDestroyed"
        PROVE  i = j
    <3>1. i + 1 = j + 1
      BY <1>t, <2>2, <2>5 DEF DestroyedOnce
    <3> QED
      BY <3>1, <2>3
  <2>6. ASSUME NEW i \in DOMAIN queue', queue'[i].op = "connectDestroyed"
        PROVE  ~connections_' /\ destroyed' # "run" /\ (i <= batch' <=> destroyed' = "taken")
    <3>1. i + 1 \in DOMAIN queue /\ queue[i + 1].op = "connectDestroyed" /\ i \in Nat /\ i # 0
      BY <2>2, <2>3, <2>6, <1>t, <1>4, ShrunkQueue
    <3>2. queue[1].op # "connectDestroyed"
      BY <1>t, <2>3, <3>1 DEF DestroyedOnce
    <3>3. destroyed' = destroyed
      BY <2>4, <3>2
    <3>4. i + 1 <= batch <=> i <= batch'
      BY <1>d, <2>4, <3>1
    <3> QED
      BY <1>t, <2>4, <3>1, <3>3, <3>4 DEF DestroyedOnce
  <2>7. destroyed' = "taken" => HasDestroy'
    <3> SUFFICES ASSUME destroyed' = "taken" PROVE HasDestroy'
      OBVIOUS
    <3>1. destroyed = "taken" /\ queue[1].op # "connectDestroyed"
      BY <2>4
    <3>2. PICK i \in DOMAIN queue : queue[i].op = "connectDestroyed"
      BY <1>t, <3>1 DEF DestroyedOnce, HasDestroy
    <3>3. i - 1 \in DOMAIN queue' /\ queue'[i - 1] = queue[i]
      BY <1>t, <1>4, <3>1, <3>2, ShrunkQueue
    <3> QED
      BY <3>2, <3>3 DEF HasDestroy
  <2>8. destroyed' # "no" => ~connections_'
    BY <1>t, <2>3, <2>4 DEF DestroyedOnce
  <2> QED
    BY <2>4, <2>5, <2>6, <2>7, <2>8 DEF DestroyedOnce
<1>5. CASE DoPendingFunctors
  <2>1. /\ queue' = queue /\ connections_' = connections_ /\ batch' = Len(queue)
        /\ pc # "functors" /\ pc' = "functors"
        /\ destroyed' = IF HasDestroy THEN "taken" ELSE destroyed
    BY <1>5 DEF DoPendingFunctors, HasDestroy, serverVars
  <2>2. destroyed # "taken"
    BY <1>t, <2>1 DEF DestroyedOnce
  <2>3. HasDestroy' <=> HasDestroy
    BY <2>1 DEF HasDestroy
  <2>4. ASSUME NEW i \in DOMAIN queue, queue[i].op = "connectDestroyed"
        PROVE  ~connections_' /\ destroyed' # "run" /\ (i <= batch' <=> destroyed' = "taken")
    <3>1. HasDestroy /\ i <= Len(queue)
      BY <1>d, <2>4 DEF HasDestroy
    <3> QED
      BY <1>t, <2>1, <2>4, <3>1 DEF DestroyedOnce
  <2>5. destroyed' # "no" => ~connections_'
    BY <1>t, <2>1, <2>4 DEF DestroyedOnce, HasDestroy
  <2> QED
    BY <1>t, <2>1, <2>2, <2>3, <2>4, <2>5 DEF DestroyedOnce
<1>6. CASE BatchDone
  <2>1. destroyed # "taken"
    BY <1>t, <1>d, <1>6 DEF BatchDone, DestroyedOnce, HasDestroy
  <2> QED
    BY <1>t, <1>6, <2>1 DEF BatchDone, DestroyedOnce, HasDestroy
<1> QED
  BY <1>1, <1>2, <1>3, <1>4, <1>5, <1>6, QueueSteps

\* No step drops the map's reference without the closure that takes its place.
LEMMA KeptUntilRunStep ==
  ASSUME LifetimeInv, [Next]_vars
  PROVE  KeptUntilRun'
<1>t. LifetimeType /\ KeptUntilRun
  BY DEF LifetimeInv
<1>1. CASE QueueKept
  BY <1>t, <1>1 DEF KeptUntilRun, HasDestroy, QueueKept
<1>2. ASSUME NEW op \in {"callback", "sendInLoop", "connectDestroyed"}, QueueGrows(op)
      PROVE  KeptUntilRun'
  <2>1. HasDestroy => HasDestroy'
    BY <1>t, <1>2, GrownQueue DEF HasDestroy
  <2>2. op = "connectDestroyed" => HasDestroy'
    BY <1>t, <1>2, GrownQueue DEF HasDestroy, Functor
  <2> QED
    BY <1>t, <1>2, <2>1, <2>2 DEF KeptUntilRun, QueueGrows
<1>3. CASE QueueShrinks
  <2>1. queue[1].op # "connectDestroyed" /\ HasDestroy => HasDestroy'
    BY <1>t, <1>3, ShrunkQueue DEF HasDestroy
  <2> QED
    BY <1>t, <1>3, <2>1 DEF KeptUntilRun, QueueShrinks
<1>4. CASE DoPendingFunctors
  BY <1>t, <1>4 DEF DoPendingFunctors, KeptUntilRun, HasDestroy, serverVars
<1>5. CASE BatchDone
  BY <1>t, <1>5 DEF BatchDone, KeptUntilRun, HasDestroy
<1> QED
  BY <1>1, <1>2, <1>3, <1>4, <1>5, QueueSteps

\* Every step keeps in the batch whatever was queued before connectDestroyed was taken.
LEMMA EarlyInBatchStep ==
  ASSUME LifetimeInv, [Next]_vars
  PROVE  EarlyInBatch'
<1>t. LifetimeType /\ DestroyedOnce /\ EarlyInBatch
  BY DEF LifetimeInv
<1>d. queue \in Seq(Closure) /\ batch \in 0..Len(queue)
  BY <1>t DEF LifetimeType
<1>1. CASE QueueKept
  BY <1>t, <1>1 DEF EarlyInBatch, QueueKept
<1>2. ASSUME NEW op \in {"callback", "sendInLoop", "connectDestroyed"}, QueueGrows(op)
      PROVE  EarlyInBatch'
  <2>1. Functor(op).late <=> destroyed # "no"
    BY DEF Functor
  <2>2. UNCHANGED <<batch, held, destroyed>>
    BY <1>2 DEF QueueGrows
  <2>3. \A i \in DOMAIN queue' : ~queue'[i].late /\ destroyed' # "no" =>
           i \in DOMAIN queue /\ ~queue[i].late
    BY <1>t, <1>2, <2>1, <2>2, GrownQueue
  <2> QED
    BY <1>t, <2>2, <2>3 DEF EarlyInBatch
<1>3. CASE QueueShrinks
  <2>1. Functor("callback").late <=> destroyed # "no"
    BY DEF Functor
  <2>2. /\ batch > 0 /\ batch' = batch - 1
        /\ held' = (held \/ queue[1].op # "sendInLoop")
        /\ destroyed' = IF queue[1].op = "connectDestroyed" THEN "run" ELSE destroyed
    BY <1>3 DEF QueueShrinks
  <2>3. SUFFICES ASSUME NEW i \in DOMAIN queue', ~queue'[i].late, destroyed' # "no"
                 PROVE  i <= batch' /\ (destroyed' = "run" => held')
    BY DEF EarlyInBatch
  <2>4. destroyed # "no"
    BY <1>t, <1>3, <1>d, <2>2, <2>3, ShrunkQueue DEF DestroyedOnce
  <2>5. i + 1 \in DOMAIN queue /\ ~queue[i + 1].late
    BY <1>t, <1>3, <2>1, <2>3, <2>4, ShrunkQueue
  <2>6. i + 1 <= batch /\ (destroyed = "run" => held)
    BY <1>t, <2>4, <2>5 DEF EarlyInBatch
  <2>7. i \in Nat
    BY <1>t, <1>3, <2>3, ShrunkQueue
  <2>8. i <= batch'
    BY <1>d, <2>2, <2>6, <2>7
  <2> QED
    BY <2>2, <2>6, <2>8
<1>4. CASE DoPendingFunctors
  <2>1. /\ queue' = queue /\ batch' = Len(queue) /\ held' = held
        /\ destroyed' = IF HasDestroy THEN "taken" ELSE destroyed
    BY <1>4 DEF DoPendingFunctors, HasDestroy
  <2>2. \A i \in DOMAIN queue : i <= Len(queue)
    BY <1>d
  <2> QED
    BY <1>t, <2>1, <2>2 DEF EarlyInBatch
<1>5. CASE BatchDone
  <2>1. \A i \in DOMAIN queue : ~(i <= 0)
    BY <1>d
  <2> QED
    BY <1>t, <1>5, <2>1 DEF BatchDone, EarlyInBatch
<1> QED
  BY <1>1, <1>2, <1>3, <1>4, <1>5, QueueSteps

--------------------------------------------------------------------------
(* The channel, the state and the server.                                   *)

\* A callback only adds holders.
LEMMA CopiesType ==
  ASSUME user \in [Users -> {"none", "holds", "send"}], Copies
  PROVE  /\ user' \in [Users -> {"none", "holds", "send"}]
         /\ \A u \in Users : user'[u] = "send" => user[u] = "send"
BY DEF Copies

\* While a handler is called for "in" or "hup" the connection is up, and nothing of its end
\* has begun; for "out" it may just have been closed.
LEMMA WhileHandling ==
  ASSUME LifetimeInv, NEW e, Handles(e)
  PROVE  /\ destroyed = "no" /\ state_ # "kConnecting"
         /\ e # "out" => state_ \in {"kConnected", "kDisconnecting"}
         /\ state_ \in {"kConnected", "kDisconnecting"} =>
              "in" \in channel_.events /\ channel_.epoll # {} /\ base = 0
              /\ (server = "up" => connections_)
BY DEF LifetimeInv, LifetimeType, ChannelFollows, ServerFollows, Handles

\* A write leaves the channel as it is, or asks for "out" besides, unless it is closed.
LEMMA SendInLoopChannel ==
  ASSUME InStep(channel_), NEW q, SendInLoop(q)
  PROVE  \/ channel_' = channel_
         \/ /\ state_ # "kDisconnected"
            /\ InStep(channel_') /\ channel_'.epoll # {}
            /\ "in" \in channel_.events => "in" \in channel_'.events
<1>1. channel_' = channel_ \/ (state_ # "kDisconnected" /\ channel_' = EnableWriting(channel_))
  BY DEF SendInLoop
<1> QED
  BY <1>1, EnablesInStep

\* What user code may do to the connection it is called for.
LEMMA UserCodeChannel ==
  ASSUME InStep(channel_), NEW q, UserCode(q)
  PROVE  /\ InStep(channel_')
         /\ state_' = state_ \/ (state_ = "kConnected" /\ state_' = "kDisconnecting")
         /\ channel_' = channel_ \/ /\ state_ = "kConnected"
                                    /\ channel_'.epoll # {}
                                    /\ "in" \in channel_.events => "in" \in channel_'.events
<1>1. CASE UNCHANGED <<state_, channel_>>
  BY <1>1
<1>2. CASE state_ = "kConnected" /\ SendInLoop(q) /\ UNCHANGED state_
  BY <1>2, SendInLoopChannel
<1>3. CASE state_ = "kConnected" /\ state_' = "kDisconnecting" /\ UNCHANGED channel_
  BY <1>3
<1> QED
  BY <1>1, <1>2, <1>3 DEF UserCode

\* A closing takes the channel out of epoll, for good.
LEMMA HandleCloseChannel ==
  ASSUME InStep(channel_), channel_.epoll # {}, HandleClose
  PROVE  /\ InStep(channel_') /\ channel_'.events = {} /\ channel_'.epoll = {}
         /\ state_' = "kDisconnected" /\ base' = base + 1
BY DisablesInStep DEF HandleClose

\* connectDestroyed removes it from the poller, in whatever state it is.
LEMMA ConnectDestroyedChannel ==
  ASSUME InStep(channel_), ConnectDestroyed
  PROVE  /\ InStep(channel_') /\ channel_'.epoll = {}
         /\ IF state_ = "kConnected" THEN state_' = "kDisconnected" /\ channel_'.events = {}
            ELSE state_' = state_ /\ channel_'.events = channel_.events
<1>1. CASE state_ = "kConnected"
  <2>1. state_' = "kDisconnected" /\ channel_' = Remove(DisableAll(channel_))
    BY <1>1 DEF ConnectDestroyed
  <2>2. InStep(DisableAll(channel_)) /\ DisableAll(channel_).events = {}
    BY DisablesInStep
  <2> QED
    BY <1>1, <2>1, <2>2, RemoveInStep
<1>2. CASE state_ # "kConnected"
  BY <1>2, RemoveInStep DEF ConnectDestroyed
<1> QED
  BY <1>1, <1>2

\* What a closure that is run says of where the loop is.
LEMMA WhileRunning ==
  ASSUME LifetimeInv, NEW op, Runs(op)
  PROVE  /\ pc = "functors" /\ pc' = "functors" /\ reported = {} /\ reported' = {}
         /\ UNCHANGED serverVars
         /\ 1 \in DOMAIN queue /\ queue[1].op = op
         /\ op = "connectEstablished" <=> state_ = "kConnecting"
         /\ op = "connectDestroyed" =>
              destroyed = "taken" /\ ~connections_ /\ state_ # "kConnecting"
         /\ op = "sendInLoop" => server = "up" /\ (destroyed = "run" => state_ = "kDisconnected")
<1>1. LifetimeType /\ EstablishedFirst /\ DestroyedOnce /\ ChannelFollows /\ ServerFollows
  BY DEF LifetimeInv
<1>2. batch > 0 /\ pc = "functors" /\ pc' = "functors" /\ reported' = reported
      /\ UNCHANGED serverVars /\ Head(queue).op = op
  BY DEF Runs
<1>3. Head(queue) = queue[1] /\ queue # <<>> /\ 1 \in DOMAIN queue
  BY <1>1, <1>2, HeadOp
<1>4. reported = {}
  BY <1>1, <1>2 DEF ChannelFollows
<1>5. op = "connectEstablished" <=> state_ = "kConnecting"
  BY <1>1, <1>2, <1>3 DEF EstablishedFirst
<1>6. 1 <= batch
  BY <1>1, <1>2 DEF LifetimeType
<1>7. op = "connectDestroyed" => destroyed = "taken" /\ ~connections_ /\ state_ # "kConnecting"
  BY <1>1, <1>2, <1>3, <1>5, <1>6 DEF DestroyedOnce
<1>8. op = "sendInLoop" => server = "up" /\ (destroyed = "run" => state_ = "kDisconnected")
  BY <1>1, <1>2, <1>3 DEF ServerFollows, DestroyedOnce
<1> QED
  BY <1>2, <1>3, <1>4, <1>5, <1>7, <1>8

\* Every step keeps the channel in epoll exactly between connectEstablished and the closing.
LEMMA ChannelFollowsStep ==
  ASSUME LifetimeInv, [Next]_vars
  PROVE  InStep(channel_') /\ ChannelFollows'
<1> USE DEF connVars, serverVars
<1> DEFINE Goal == InStep(channel_') /\ ChannelFollows'
<1>t. LifetimeType /\ ChannelFollows /\ InStep(channel_)
  BY DEF LifetimeInv, LifetimeType
<1>1. CASE Poll
  <2>1. channel_.epoll = {} => reported' = {}
    BY <1>1 DEF Poll, Reported
  <2>2. destroyed # "taken"
    BY <1>1 DEF LifetimeInv, DestroyedOnce, Poll
  <2>3. UNCHANGED <<state_, channel_, destroyed>> /\ pc' = "event" /\ pc = "poll"
    BY <1>1 DEF Poll
  <2> QED
    BY <1>t, <2>1, <2>2, <2>3 DEF ChannelFollows, LifetimeType
<1>2. CASE HandlerEvent
  BY <1>t, <1>2 DEF HandlerEvent, ChannelFollows
<1>3. CASE HandlersDone
  BY <1>t, <1>3 DEF HandlersDone, ChannelFollows
<1>4. CASE OnClose
  <2>1. /\ destroyed = "no" /\ state_ \in {"kConnected", "kDisconnecting"}
        /\ channel_.epoll # {} /\ "in" \in channel_.events
    BY <1>4, WhileHandling DEF OnClose
  <2>2. /\ destroyed' = "no" /\ pc' = "handling" /\ reported' = reported \ {"hup"}
    BY <1>4, <2>1 DEF OnClose, Handles
  <2>3. CASE "in" \in reported
    <3>1. UNCHANGED <<state_, channel_>>
      BY <1>4, <2>3 DEF OnClose
    <3> QED
      BY <1>t, <2>1, <2>2, <3>1 DEF ChannelFollows
  <2>4. CASE "in" \notin reported
    <3>1. HandleClose
      BY <1>4, <2>4 DEF OnClose
    <3>2. reported' \subseteq {"out"}
      BY <1>t, <2>2, <2>4 DEF LifetimeType
    <3> QED
      BY <1>t, <2>1, <2>2, <3>1, <3>2, HandleCloseChannel DEF ChannelFollows
  <2> QED
    BY <2>3, <2>4
<1>5. CASE OnRead
  <2>1. /\ destroyed = "no" /\ state_ \in {"kConnected", "kDisconnecting"}
        /\ channel_.epoll # {} /\ "in" \in channel_.events
    BY <1>5, WhileHandling DEF OnRead
  <2>2. /\ destroyed' = "no" /\ pc' = "handling" /\ reported' \subseteq {"out"}
    BY <1>5, <1>t, <2>1 DEF OnRead, Handles, LifetimeType
  <2>3. CASE UserCode(queue)
    <3>1. InStep(channel_') /\ state_' \in {"kConnected", "kDisconnecting"}
          /\ channel_'.epoll # {} /\ "in" \in channel_'.events
      BY <1>t, <2>1, <2>3, UserCodeChannel
    <3> QED
      BY <2>2, <3>1 DEF ChannelFollows
  <2>4. CASE HandleClose
    BY <1>t, <2>1, <2>2, <2>4, HandleCloseChannel DEF ChannelFollows
  <2> QED
    BY <1>5, <2>3, <2>4 DEF OnRead
<1>6. CASE OnWrite
  <2>1. /\ destroyed = "no" /\ state_ # "kConnecting"
        /\ state_ \in {"kConnected", "kDisconnecting"} =>
             channel_.epoll # {} /\ "in" \in channel_.events
    BY <1>6, WhileHandling DEF OnWrite
  <2>2. /\ destroyed' = "no" /\ pc' = "handling" /\ reported' = {} /\ state_' = state_
    BY <1>6, <2>1 DEF OnWrite, Handles
  <2>3. CASE UNCHANGED channel_
    BY <1>t, <2>1, <2>2, <2>3 DEF ChannelFollows
  <2>4. CASE IsWriting(channel_) /\ channel_' = DisableWriting(channel_)
    <3>1. state_ \in {"kConnected", "kDisconnecting"}
      BY <1>t, <2>1, <2>4 DEF ChannelFollows, LifetimeType, IsWriting
    <3>2. InStep(channel_') /\ channel_'.epoll # {} /\ "in" \in channel_'.events
      BY <1>t, <2>1, <2>4, <3>1, DisablesInStep
    <3> QED
      BY <2>2, <3>1, <3>2 DEF ChannelFollows
  <2> QED
    BY <1>6, <2>3, <2>4 DEF OnWrite
<1>7. CASE DoPendingFunctors
  <2>1. destroyed' # "run" \/ destroyed = "run"
    BY <1>7 DEF DoPendingFunctors
  <2>2. destroyed = "run" => destroyed' = "run"
    BY <1>7 DEF DoPendingFunctors, LifetimeInv, DestroyedOnce
  <2> QED
    BY <1>t, <1>7, <2>1, <2>2 DEF DoPendingFunctors, ChannelFollows
<1>8. CASE PendingFunctorsDone
  <2>1. reported = {} /\ reported' = {}
    BY <1>t, <1>8 DEF PendingFunctorsDone, ChannelFollows
  <2> QED
    BY <1>t, <1>8, <2>1 DEF PendingFunctorsDone, ChannelFollows
<1>9. CASE ConnectEstablished
  <2>1. Runs("connectEstablished") /\ state_' = "kConnected" /\ destroyed' = destroyed
        /\ channel_' = EnableReading(channel_)
    BY <1>9 DEF ConnectEstablished
  <2>2. pc' = "functors" /\ reported' = {} /\ state_ = "kConnecting"
    BY <2>1, WhileRunning
  <2>3. InStep(channel_') /\ channel_'.epoll # {} /\ "in" \in channel_'.events
    BY <1>t, <2>1, EnablesInStep
  <2>4. destroyed' # "run"
    BY <1>t, <2>1, <2>2 DEF ChannelFollows
  <2> QED
    BY <2>1, <2>2, <2>3, <2>4 DEF ChannelFollows
<1>10. CASE RunCallback
  <2>1. Runs("callback") /\ UserCode(Tail(queue)) /\ destroyed' = destroyed
    BY <1>10 DEF RunCallback
  <2>2. pc' = "functors" /\ reported' = {} /\ state_ # "kConnecting"
    BY <2>1, WhileRunning
  <2> QED
    BY <1>t, <2>1, <2>2, UserCodeChannel DEF ChannelFollows, LifetimeType
<1>11. CASE RunSendInLoop
  <2>1. Runs("sendInLoop") /\ destroyed' = destroyed /\ state_' = state_
    BY <1>11 DEF RunSendInLoop
  <2>2. pc' = "functors" /\ reported' = {} /\ state_ # "kConnecting"
        /\ (destroyed = "run" => state_ = "kDisconnected")
    BY <2>1, WhileRunning
  <2>3. channel_' = channel_ \/ SendInLoop(Tail(queue))
    BY <1>11 DEF RunSendInLoop
  <2> QED
    BY <1>t, <2>1, <2>2, <2>3, SendInLoopChannel DEF ChannelFollows
<1>12. CASE ConnectDestroyed
  <2>1. Runs("connectDestroyed") /\ destroyed' = "run"
    BY <1>12 DEF ConnectDestroyed
  <2>2. pc' = "functors" /\ reported' = {} /\ state_ # "kConnecting" /\ destroyed # "run"
    BY <2>1, WhileRunning
  <2> QED
    BY <1>t, <1>12, <2>1, <2>2, ConnectDestroyedChannel DEF ChannelFollows, LifetimeType
<1>13. CASE UNCHANGED <<pc, reported, state_, channel_, destroyed>>
  BY <1>t, <1>13 DEF ChannelFollows
<1>14. CASE RemoveConnectionInLoop \/ BaseFunctorsDone \/ Quit \/ ServerDestroyed
  BY <1>13, <1>14 DEF RemoveConnectionInLoop, BaseFunctorsDone, Quit, ServerDestroyed
<1>15. ASSUME NEW u \in Users, SendTest(u) \/ SendQueue(u) \/ Drop(u) PROVE Goal
  BY <1>13, <1>15 DEF SendTest, SendQueue, Drop, UserStep
<1>16. CASE UNCHANGED vars
  BY <1>13, <1>16 DEF vars
<1> QED
  BY <1>1, <1>2, <1>3, <1>4, <1>5, <1>6, <1>7, <1>8, <1>9, <1>10, <1>11, <1>12, <1>14,
     <1>15, <1>16 DEF Next, LoopStep, BaseStep

\* No other thread can get a raw closure into the queue but one that tested state_ first.
NoRawSend ==
  /\ \A u \in Users : user[u] # "send"
  /\ \A i \in DOMAIN queue : queue[i].op # "sendInLoop"

\* Every step keeps each user in one of its three places.
LEMMA UserType ==
  ASSUME LifetimeInv, [Next]_vars
  PROVE  /\ user' \in [Users -> {"none", "holds", "send"}]
         /\ \A u \in Users : user'[u] = "send" => user[u] = "send" \/ SendTest(u)
<1> USE DEF connVars, serverVars
<1> DEFINE Goal == /\ user' \in [Users -> {"none", "holds", "send"}]
                   /\ \A u \in Users : user'[u] = "send" => user[u] = "send" \/ SendTest(u)
<1>t. user \in [Users -> {"none", "holds", "send"}]
  BY DEF LifetimeInv, LifetimeType
<1>1. CASE UNCHANGED user
  BY <1>t, <1>1
<1>2. CASE Copies
  BY <1>t, <1>2, CopiesType
<1>3. CASE Poll \/ HandlerEvent \/ OnWrite \/ HandlersDone \/ DoPendingFunctors
             \/ PendingFunctorsDone \/ RunSendInLoop
  BY <1>1, <1>3 DEF Poll, HandlerEvent, OnWrite, HandlersDone, DoPendingFunctors,
                    PendingFunctorsDone, RunSendInLoop
<1>4. CASE OnClose \/ OnRead \/ ConnectEstablished \/ RunCallback \/ ConnectDestroyed
  BY <1>1, <1>2, <1>4 DEF OnClose, OnRead, ConnectEstablished, RunCallback, ConnectDestroyed,
                          HandleClose, UserCode
<1>5. CASE BaseStep \/ ServerDestroyed \/ UNCHANGED vars
  BY <1>1, <1>5 DEF BaseStep, RemoveConnectionInLoop, BaseFunctorsDone, Quit,
                    ServerDestroyed, vars
<1>6. ASSUME NEW u \in Users, SendTest(u) PROVE Goal
  BY <1>t, <1>6 DEF SendTest, UserStep
<1>7. ASSUME NEW u \in Users, SendQueue(u) \/ Drop(u) PROVE Goal
  BY <1>t, <1>7 DEF SendQueue, Drop, UserStep
<1> QED
  BY <1>3, <1>4, <1>5, <1>6, <1>7 DEF Next, LoopStep

\* Once the server goes away, no other thread sends or has a send queued.
LEMMA NoRawSendStep ==
  ASSUME LifetimeInv, [Next]_vars, NoRawSend, \A u \in Users : ~SendTest(u)
  PROVE  NoRawSend'
<1>t. LifetimeType
  BY DEF LifetimeInv
<1>1. \A u \in Users : user'[u] # "send"
  BY UserType DEF NoRawSend
<1>2. \A i \in DOMAIN queue' : queue'[i].op # "sendInLoop"
  <2>1. CASE QueueKept
    BY <2>1 DEF QueueKept, NoRawSend
  <2>2. ASSUME NEW op \in {"callback", "sendInLoop", "connectDestroyed"}, QueueGrows(op)
        PROVE  \A i \in DOMAIN queue' : queue'[i].op # "sendInLoop"
    <3>1. op # "sendInLoop"
      BY <2>2 DEF QueueGrows, NoRawSend
    <3>2. Functor(op).op = op
      BY DEF Functor
    <3> QED
      BY <1>t, <2>2, <3>1, <3>2, GrownQueue DEF NoRawSend
  <2>3. CASE QueueShrinks
    <3>1. Functor("callback").op = "callback"
      BY DEF Functor
    <3> QED
      BY <1>t, <2>3, <3>1, ShrunkQueue DEF NoRawSend
  <2>4. CASE DoPendingFunctors
    BY <2>4 DEF DoPendingFunctors, NoRawSend
  <2>5. CASE BatchDone
    BY <2>5 DEF BatchDone, NoRawSend
  <2> QED
    BY <2>1, <2>2, <2>3, <2>4, <2>5, QueueSteps
<1> QED
  BY <1>1, <1>2 DEF NoRawSend

\* Once closed, a connection stays closed.
LEMMA ClosedStays ==
  ASSUME LifetimeInv, [Next]_vars, state_ = "kDisconnected"
  PROVE  state_' = "kDisconnected"
<1> USE DEF connVars, serverVars
<1>1. CASE Poll \/ HandlerEvent \/ OnWrite \/ HandlersDone \/ DoPendingFunctors
             \/ PendingFunctorsDone \/ RunSendInLoop
  BY <1>1 DEF Poll, HandlerEvent, OnWrite, HandlersDone, DoPendingFunctors,
              PendingFunctorsDone, RunSendInLoop
<1>2. CASE OnClose \/ OnRead \/ RunCallback \/ ConnectDestroyed
  BY <1>2 DEF OnClose, OnRead, RunCallback, ConnectDestroyed, HandleClose, UserCode
<1>3. CASE ConnectEstablished
  BY <1>3, WhileRunning DEF ConnectEstablished
<1>4. CASE BaseStep \/ ServerDestroyed \/ UNCHANGED vars
  BY <1>4 DEF BaseStep, RemoveConnectionInLoop, BaseFunctorsDone, Quit, ServerDestroyed, vars
<1>5. ASSUME NEW u \in Users, SendTest(u) \/ SendQueue(u) \/ Drop(u)
      PROVE  state_' = "kDisconnected"
  BY <1>5 DEF SendTest, SendQueue, Drop, UserStep
<1> QED
  BY <1>1, <1>2, <1>3, <1>4, <1>5 DEF Next, LoopStep

\* What a step does to the server's side: nothing, or it tells of a closing, or the map
\* lets go of the connection because of that, or because the server goes away.
LEMMA ServerSteps ==
  ASSUME LifetimeInv, [Next]_vars
  PROVE  \/ UNCHANGED <<connections_, base, server>>
         \/ /\ UNCHANGED <<connections_, server>> /\ base = 0 /\ base' = 1
            /\ server = "up" => connections_
            /\ state_ \in {"kConnected", "kDisconnecting"} /\ state_' = "kDisconnected"
         \/ /\ server = "up" /\ UNCHANGED server /\ ~connections_' /\ base = 1 /\ base' = 0
            /\ connections_ /\ UNCHANGED <<state_, destroyed>>
         \/ /\ server = "up" /\ server' = "gone" /\ ~connections_' /\ UNCHANGED base
            /\ NoRawSend /\ UNCHANGED <<state_, destroyed, user>>
         \/ /\ server = "gone" /\ server' = "quit" /\ UNCHANGED <<connections_, base>>
<1> USE DEF connVars, serverVars
<1>t. LifetimeType /\ ServerFollows
  BY DEF LifetimeInv
<1>1. CASE Poll \/ HandlerEvent \/ OnWrite \/ HandlersDone \/ DoPendingFunctors
             \/ PendingFunctorsDone
  BY <1>1 DEF Poll, HandlerEvent, OnWrite, Handles, HandlersDone, DoPendingFunctors,
              PendingFunctorsDone
<1>2. ASSUME NEW e, Handles(e), e # "out", HandleClose
      PROVE  /\ UNCHANGED <<connections_, server>> /\ base = 0 /\ base' = 1
             /\ server = "up" => connections_
             /\ state_ \in {"kConnected", "kDisconnecting"} /\ state_' = "kDisconnected"
  <2>1. state_ \in {"kConnected", "kDisconnecting"}
    BY <1>2, WhileHandling
  <2>2. base = 0 /\ (server = "up" => connections_)
    BY <1>2, <2>1, WhileHandling
  <2> QED
    BY <1>2, <2>1, <2>2 DEF Handles, HandleClose
<1>3. CASE OnClose
  <2>1. CASE HandleClose
    BY <1>2, <1>3, <2>1 DEF OnClose
  <2>2. CASE UNCHANGED base
    BY <1>3, <2>2 DEF OnClose, Handles
  <2> QED
    BY <1>3, <2>1, <2>2 DEF OnClose
<1>4. CASE OnRead
  <2>1. CASE HandleClose
    BY <1>2, <1>4, <2>1 DEF OnRead
  <2>2. CASE UNCHANGED base
    BY <1>4, <2>2 DEF OnRead, Handles
  <2> QED
    BY <1>4, <2>1, <2>2 DEF OnRead
<1>5. CASE ConnectEstablished \/ RunCallback \/ RunSendInLoop \/ ConnectDestroyed
  BY <1>5, WhileRunning DEF ConnectEstablished, RunCallback, RunSendInLoop, ConnectDestroyed
<1>6. CASE RemoveConnectionInLoop
  BY <1>t, <1>6 DEF RemoveConnectionInLoop, ServerFollows, LifetimeType
<1>7. CASE ServerDestroyed
  <2>1. NoRawSend
    BY <1>7 DEF ServerDestroyed, ServerMayGo, NoRawSend, Keeps
  <2> QED
    BY <1>7, <2>1 DEF ServerDestroyed, ServerMayGo
<1>8. CASE BaseFunctorsDone \/ Quit \/ UNCHANGED vars
  BY <1>8 DEF BaseFunctorsDone, Quit, vars
<1>9. ASSUME NEW u \in Users, SendTest(u) \/ SendQueue(u) \/ Drop(u)
      PROVE  UNCHANGED <<connections_, base, server>>
  BY <1>9 DEF SendTest, SendQueue, Drop, UserStep
<1> QED
  BY <1>1, <1>3, <1>4, <1>5, <1>6, <1>7, <1>8, <1>9 DEF Next, LoopStep, BaseStep

\* Every step keeps the server's part: it lets go after a closing, or for its own end.
LEMMA ServerFollowsStep ==
  ASSUME LifetimeInv, [Next]_vars
  PROVE  ServerFollows'
<1>t. LifetimeType /\ ServerFollows
  BY DEF LifetimeInv
<1>1. state_ = "kDisconnected" => state_' = "kDisconnected"
  BY ClosedStays
<1>2. server' # "up" => ~connections_' /\ NoRawSend'
  <2>1. ASSUME server # "up" PROVE NoRawSend'
    <3>1. NoRawSend /\ \A u \in Users : ~SendTest(u)
      BY <1>t, <2>1 DEF ServerFollows, NoRawSend, SendTest
    <3> QED
      BY <3>1, NoRawSendStep
  <2>2. ASSUME server = "up", server' # "up" PROVE NoRawSend'
    <3>1. NoRawSend /\ user' = user
      BY <2>2, ServerSteps
    <3>2. \A u \in Users : ~SendTest(u)
      BY <2>2 DEF SendTest, UserStep, serverVars
    <3> QED
      BY <3>1, <3>2, NoRawSendStep
  <2>3. server' # "up" => ~connections_'
    BY <1>t, ServerSteps DEF ServerFollows
  <2> QED
    BY <2>1, <2>2, <2>3
<1>3. base' = 1 => state_' = "kDisconnected" /\ (server' = "up" => connections_')
  BY <1>t, <1>1, ServerSteps DEF ServerFollows
<1>4. server' = "up" /\ ~connections_' => state_' = "kDisconnected"
  BY <1>t, <1>1, ServerSteps DEF ServerFollows
<1> QED
  BY <1>2, <1>3, <1>4 DEF ServerFollows, NoRawSend

\* The variables that no step relates to others.
LEMMA RestType ==
  ASSUME LifetimeInv, [Next]_vars
  PROVE  /\ pc' \in {"poll", "event", "handling", "functors", "exited"}
         /\ reported' \in SUBSET {"in", "out", "hup"}
         /\ held' \in BOOLEAN /\ baseHeld' \in BOOLEAN
         /\ state_' \in {"kConnecting", "kConnected", "kDisconnecting", "kDisconnected"}
         /\ destroyed' \in {"no", "taken", "run"}
         /\ connections_' = connections_ \/ connections_' = FALSE
<1> USE DEF connVars, serverVars
<1> DEFINE Goal ==
       /\ pc' \in {"poll", "event", "handling", "functors", "exited"}
       /\ reported' \in SUBSET {"in", "out", "hup"}
       /\ held' \in BOOLEAN /\ baseHeld' \in BOOLEAN
       /\ state_' \in {"kConnecting", "kConnected", "kDisconnecting", "kDisconnected"}
       /\ destroyed' \in {"no", "taken", "run"}
       /\ connections_' = connections_ \/ connections_' = FALSE
<1>t. /\ pc \in {"poll", "event", "handling", "functors", "exited"}
      /\ reported \in SUBSET {"in", "out", "hup"}
      /\ held \in BOOLEAN /\ baseHeld \in BOOLEAN
      /\ state_ \in {"kConnecting", "kConnected", "kDisconnecting", "kDisconnected"}
      /\ destroyed \in {"no", "taken", "run"}
  BY DEF LifetimeInv, LifetimeType
<1>1. CASE Poll
  <2>1. reported' \in SUBSET {"in", "out", "hup"}
    BY <1>1 DEF Poll, Reported
  <2> QED
    BY <1>t, <1>1, <2>1 DEF Poll
<1>2. CASE HandlerEvent \/ HandlersDone \/ DoPendingFunctors \/ PendingFunctorsDone
  BY <1>t, <1>2 DEF HandlerEvent, HandlersDone, DoPendingFunctors, PendingFunctorsDone
<1>3. CASE OnClose \/ OnRead \/ OnWrite
  <2>1. \E e : Handles(e)
    BY <1>3 DEF OnClose, OnRead, OnWrite
  <2>2. /\ UNCHANGED <<pc, held, destroyed, connections_, baseHeld>>
        /\ reported' \in SUBSET {"in", "out", "hup"}
    BY <1>t, <2>1 DEF Handles
  <2>3. state_' = state_ \/ state_' \in {"kDisconnecting", "kDisconnected"}
    BY <1>3 DEF OnClose, OnRead, OnWrite, HandleClose, UserCode
  <2> QED
    BY <1>t, <2>2, <2>3
<1>4. CASE ConnectEstablished \/ RunCallback \/ RunSendInLoop \/ ConnectDestroyed
  <2>1. PICK op : Runs(op)
    BY <1>4 DEF ConnectEstablished, RunCallback, RunSendInLoop, ConnectDestroyed
  <2>2. held' = (held \/ Keeps(Head(queue))) /\ UNCHANGED <<pc, reported, connections_, baseHeld>>
    BY <2>1 DEF Runs
  <2>3. held' \in BOOLEAN
    BY <1>t, <2>2 DEF Keeps
  <2>4. destroyed' = destroyed \/ destroyed' = "run"
    BY <1>4 DEF ConnectEstablished, RunCallback, RunSendInLoop, ConnectDestroyed
  <2>5. state_' = state_ \/ state_' \in {"kConnected", "kDisconnecting", "kDisconnected"}
    BY <1>4 DEF ConnectEstablished, RunCallback, RunSendInLoop, ConnectDestroyed, UserCode
  <2> QED
    BY <1>t, <2>2, <2>3, <2>4, <2>5
<1>5. CASE BaseStep \/ ServerDestroyed \/ UNCHANGED vars
  BY <1>t, <1>5 DEF BaseStep, RemoveConnectionInLoop, BaseFunctorsDone, Quit,
                    ServerDestroyed, vars
<1>6. ASSUME NEW u \in Users, SendTest(u) \/ SendQueue(u) \/ Drop(u) PROVE Goal
  BY <1>t, <1>6 DEF SendTest, SendQueue, Drop, UserStep
<1> QED
  BY <1>1, <1>2, <1>3, <1>4, <1>5, <1>6 DEF Next, LoopStep

\* Every step keeps the types.
LEMMA LifetimeTypeStep ==
  ASSUME LifetimeInv, [Next]_vars
  PROVE  LifetimeType'
<1> USE DEF connVars, serverVars
<1>t. LifetimeType
  BY DEF LifetimeInv
<1>1. queue' \in Seq(Closure) /\ batch' \in 0..Len(queue')
  <2>1. CASE QueueKept
    BY <1>t, <2>1 DEF QueueKept, LifetimeType
  <2>2. ASSUME NEW op \in {"callback", "sendInLoop", "connectDestroyed"}, QueueGrows(op)
        PROVE  queue' \in Seq(Closure) /\ batch' \in 0..Len(queue')
    BY <1>t, <2>2, GrownQueue
  <2>3. CASE QueueShrinks
    BY <1>t, <2>3, ShrunkQueue
  <2>4. CASE DoPendingFunctors
    BY <1>t, <2>4 DEF DoPendingFunctors, LifetimeType
  <2>5. CASE BatchDone
    BY <1>t, <2>5 DEF BatchDone, LifetimeType
  <2> QED
    BY <2>1, <2>2, <2>3, <2>4, <2>5, QueueSteps
<1>2. /\ connections_' \in BOOLEAN /\ base' \in {0, 1} /\ server' \in {"up", "gone", "quit"}
  <2>1. connections_ \in BOOLEAN /\ base \in {0, 1} /\ server \in {"up", "gone", "quit"}
    BY <1>t DEF LifetimeType
  <2>2. connections_' = connections_ \/ connections_' = FALSE
    BY RestType
  <2> QED
    BY <2>1, <2>2, ServerSteps
<1>3. user' \in [Users -> {"none", "holds", "send"}]
  BY UserType
<1>4. InStep(channel_')
  BY ChannelFollowsStep
<1>5. /\ pc' \in {"poll", "event", "handling", "functors", "exited"}
      /\ reported' \in SUBSET {"in", "out", "hup"}
      /\ held' \in BOOLEAN /\ baseHeld' \in BOOLEAN
      /\ state_' \in {"kConnecting", "kConnected", "kDisconnecting", "kDisconnected"}
      /\ destroyed' \in {"no", "taken", "run"}
  BY RestType
<1> QED
  BY <1>1, <1>2, <1>3, <1>4, <1>5 DEF LifetimeType

--------------------------------------------------------------------------
(* What follows.                                                            *)

\* A connection is created with connectEstablished queued and the map holding it.
LEMMA LifetimeInit == Init => LifetimeInv
<1> SUFFICES ASSUME Init PROVE LifetimeInv
  OBVIOUS
<1> DEFINE f == [op |-> "connectEstablished", late |-> FALSE]
<1>1. f \in Closure /\ f.op = "connectEstablished"
  BY DEF Closure
<1>2. queue = <<f>>
  BY DEF Init
<1> HIDE DEF f
<1>3. queue \in Seq(Closure) /\ Len(queue) = 1 /\ DOMAIN queue = {1} /\ queue[1] = f
  BY <1>1, <1>2
<1>4. InStep(channel_) /\ channel_.epoll = {}
  BY NewChannelInStep DEF Init
<1>5. LifetimeType
  <2>1. user \in [Users -> {"none", "holds", "send"}]
    BY DEF Init
  <2>2. batch \in 0..Len(queue)
    BY <1>3 DEF Init
  <2>3. /\ pc = "poll" /\ reported = {} /\ held = FALSE /\ state_ = "kConnecting"
        /\ destroyed = "no" /\ connections_ = TRUE /\ base = 0 /\ baseHeld = FALSE
        /\ server = "up"
    BY DEF Init
  <2> QED
    BY <1>3, <1>4, <2>1, <2>2, <2>3 DEF LifetimeType
<1>6. EstablishedFirst /\ DestroyedOnce /\ KeptUntilRun /\ EarlyInBatch
  BY <1>1, <1>3 DEF Init, EstablishedFirst, DestroyedOnce, KeptUntilRun, EarlyInBatch
<1>7. ChannelFollows /\ ServerFollows
  BY <1>4 DEF Init, ChannelFollows, ServerFollows
<1> QED
  BY <1>5, <1>6, <1>7 DEF LifetimeInv

\* The conjunction of the parts is inductive.
LEMMA LifetimeInvStep == LifetimeInv /\ [Next]_vars => LifetimeInv'
BY EstablishedFirstStep, DestroyedOnceStep, KeptUntilRunStep, EarlyInBatchStep,
   ChannelFollowsStep, ServerFollowsStep, LifetimeTypeStep DEF LifetimeInv

\* LifetimeInv holds in every behaviour, whatever the number of users and of closures.
THEOREM LifetimeAlways == Spec => []LifetimeInv
BY LifetimeInit, LifetimeInvStep, PTL DEF Spec

\* What keeps the connection until connectDestroyed was run: the map, or that closure.
LEMMA AliveUntilRun ==
  ASSUME LifetimeInv, destroyed # "run", pc # "exited"
  PROVE  Alive
<1>1. connections_ \/ HasDestroy
  BY DEF LifetimeInv, KeptUntilRun
<1>2. HasDestroy => \E i \in DOMAIN queue : Keeps(queue[i])
  BY DEF HasDestroy, Keeps
<1> QED
  BY <1>1, <1>2 DEF Alive

\* The poller's Channel* never outlives the connection: whatever is in epoll, or was
\* reported and is still to be handled, belongs to a connection that is alive
\* (TcpServer::removeConnectionInLoop queues connectDestroyed, which holds the last reference).
THEOREM PolledAlive == Spec => []PolledIsAlive
<1>1. LifetimeInv => PolledIsAlive
  <2> SUFFICES ASSUME LifetimeInv, pc # "exited", channel_.epoll # {} \/ reported # {}
               PROVE  Alive
    BY DEF PolledIsAlive
  <2>1. destroyed # "run"
    BY DEF LifetimeInv, ChannelFollows
  <2> QED
    BY <2>1, AliveUntilRun
<1> QED
  BY LifetimeAlways, <1>1, PTL

\* The sendInLoop closure of another thread's send holds only `this`; when it is run the
\* connection is still alive, if it was queued before connectDestroyed was taken.
THEOREM RawClosureSafe == Spec => []RawClosureIsSafe
<1>1. LifetimeInv => RawClosureIsSafe
  <2> SUFFICES ASSUME LifetimeInv, pc = "functors", batch > 0,
                      Head(queue).op = "sendInLoop", ~Head(queue).late
               PROVE  Alive
    BY DEF RawClosureIsSafe
  <2>1. Head(queue) = queue[1] /\ 1 \in DOMAIN queue
    BY HeadOp DEF LifetimeInv
  <2>2. destroyed = "run" => held
    BY <2>1 DEF LifetimeInv, EarlyInBatch
  <2> QED
    BY <2>2, AliveUntilRun DEF Alive
<1> QED
  BY LifetimeAlways, <1>1, PTL

\* The last reference goes only after connectDestroyed has run, or with the loop.
THEOREM FreedAfter == Spec => FreedAfterDestroyed
<1>1. LifetimeInv' /\ [Next]_vars =>
        [Alive /\ ~Alive' => destroyed' = "run" \/ pc' = "exited"]_vars
  <2> SUFFICES ASSUME LifetimeInv', destroyed' # "run", pc' # "exited" PROVE Alive'
    OBVIOUS
  <2>1. connections_' \/ HasDestroy'
    BY DEF LifetimeInv, KeptUntilRun
  <2>2. HasDestroy' => \E i \in DOMAIN queue' : Keeps(queue'[i])
    BY DEF HasDestroy, Keeps
  <2> QED
    BY <2>1, <2>2 DEF Alive
<1> QED
  BY LifetimeAlways, <1>1, PTL DEF Spec, FreedAfterDestroyed

\* The abstract state a step leaves alone when it leaves alone what it is made of.
LEMMA ContractStutters ==
  ASSUME UNCHANGED <<state_, connections_, base>>, (destroyed = "run")' = (destroyed = "run")
  PROVE  UNCHANGED Contract!vars
<1>1. Callbacks' = Callbacks /\ Place' = Place
  BY DEF Callbacks, Place
<1> QED
  BY <1>1 DEF Contract!vars

\* Every step is one of Connection, or none.
LEMMA ContractStep == LifetimeInv /\ [Next]_vars => [Contract!Next]_(Contract!vars)
<1> SUFFICES ASSUME LifetimeInv, [Next]_vars PROVE [Contract!Next]_(Contract!vars)
  OBVIOUS
<1> USE DEF connVars, serverVars
<1>t. LifetimeType /\ ChannelFollows /\ ServerFollows /\ DestroyedOnce
  BY DEF LifetimeInv
<1>1. CASE Poll \/ HandlerEvent \/ HandlersDone \/ PendingFunctorsDone \/ BaseFunctorsDone
             \/ Quit \/ UNCHANGED vars
  <2>1. UNCHANGED <<state_, connections_, base, destroyed>>
    BY <1>1 DEF Poll, HandlerEvent, HandlersDone, PendingFunctorsDone, BaseFunctorsDone,
                Quit, vars
  <2> QED
    BY <2>1, ContractStutters
<1>2. CASE DoPendingFunctors
  <2>1. UNCHANGED <<state_, connections_, base>>
    BY <1>2 DEF DoPendingFunctors
  <2>2. (destroyed = "run")' = (destroyed = "run")
    BY <1>2, <1>t DEF DoPendingFunctors, DestroyedOnce
  <2> QED
    BY <2>1, <2>2, ContractStutters
<1>3. ASSUME NEW e, Handles(e), e # "out", HandleClose PROVE Contract!Closes
  <2>1. /\ state_ \in {"kConnected", "kDisconnecting"} /\ destroyed = "no" /\ destroyed' = "no"
        /\ state_' = "kDisconnected" /\ base = 0 /\ base' = 1 /\ connections_' = connections_
    BY <1>3, WhileHandling DEF Handles, HandleClose
  <2>2. Callbacks' = <<"up", "down">>
    BY <2>1 DEF Callbacks
  <2>3. Place' \in IF Place = "left" THEN {"left"} ELSE {"told", "left"}
    BY <2>1 DEF Place
  <2>4. (destroyed = "run") = FALSE /\ (destroyed = "run")' = FALSE
    BY <2>1
  <2> QED
    BY <2>1, <2>2, <2>3, <2>4 DEF Contract!Closes, Contract!GoesDown
<1>4. ASSUME state_ = "kConnected", state_' = "kDisconnecting", destroyed' = destroyed,
             UNCHANGED <<connections_, base>>
      PROVE  Contract!IsShutDown
  <2>1. (destroyed = "run") = FALSE /\ (destroyed = "run")' = FALSE
    BY <1>4, <1>t DEF ChannelFollows
  <2>2. Callbacks' = Callbacks /\ Place' = Place
    BY <1>4 DEF Callbacks, Place
  <2> QED
    BY <1>4, <2>1, <2>2 DEF Contract!IsShutDown
<1>5. CASE OnClose
  <2>1. CASE HandleClose
    BY <1>3, <1>5, <2>1 DEF OnClose, Contract!Next
  <2>2. CASE UNCHANGED <<state_, base>>
    BY <1>5, <2>2, ContractStutters DEF OnClose, Handles
  <2> QED
    BY <1>5, <2>1, <2>2 DEF OnClose
<1>6. CASE OnRead
  <2>1. CASE HandleClose
    BY <1>3, <1>6, <2>1 DEF OnRead, Contract!Next
  <2>2. CASE UserCode(queue) /\ UNCHANGED base
    <3>1. UNCHANGED <<connections_, base, destroyed>>
      BY <1>6, <2>2 DEF OnRead, Handles
    <3>2. state_' = state_ \/ (state_ = "kConnected" /\ state_' = "kDisconnecting")
      BY <2>2 DEF UserCode
    <3> QED
      BY <1>4, <3>1, <3>2, ContractStutters DEF Contract!Next
  <2> QED
    BY <1>6, <2>1, <2>2 DEF OnRead
<1>7. CASE OnWrite
  BY <1>7, ContractStutters DEF OnWrite, Handles
<1>8. CASE ConnectEstablished
  <2>1. Runs("connectEstablished") /\ state_' = "kConnected" /\ destroyed' = destroyed
    BY <1>8 DEF ConnectEstablished
  <2>2. state_ = "kConnecting" /\ UNCHANGED <<connections_, base>>
    BY <2>1, WhileRunning
  <2>3. Callbacks' = <<"up">> /\ Place' = Place
    BY <2>1, <2>2 DEF Callbacks, Place
  <2>4. (destroyed = "run")' = (destroyed = "run")
    BY <2>1
  <2> QED
    BY <2>1, <2>2, <2>3, <2>4 DEF Contract!ComesUp, Contract!Next
<1>9. CASE RunCallback \/ RunSendInLoop
  <2>1. PICK op : Runs(op) /\ destroyed' = destroyed
    BY <1>9 DEF RunCallback, RunSendInLoop
  <2>2. UNCHANGED <<connections_, base, destroyed>>
    BY <2>1, WhileRunning
  <2>3. state_' = state_ \/ (state_ = "kConnected" /\ state_' = "kDisconnecting")
    BY <1>9 DEF RunCallback, RunSendInLoop, UserCode
  <2> QED
    BY <1>4, <2>2, <2>3, ContractStutters DEF Contract!Next
<1>10. CASE ConnectDestroyed
  <2>1. Runs("connectDestroyed") /\ destroyed' = "run"
    BY <1>10 DEF ConnectDestroyed
  <2>2. /\ state_ # "kConnecting" /\ destroyed = "taken" /\ ~connections_
        /\ UNCHANGED <<connections_, base>>
    BY <2>1, WhileRunning
  <2>3. Place' = "left"
    BY <2>2 DEF Place
  <2>4. (destroyed = "run") = FALSE /\ (destroyed = "run")' = TRUE
    BY <2>1, <2>2
  <2>5. CASE state_ = "kConnected"
    <3>1. state_' = "kDisconnected" /\ Callbacks' = <<"up", "down">>
      BY <1>10, <2>5 DEF ConnectDestroyed, Callbacks
    <3> QED
      BY <2>3, <2>4, <2>5, <3>1 DEF Contract!IsDestroyed, Contract!GoesDown, Contract!Next
  <2>6. CASE state_ # "kConnected"
    <3>1. state_' = state_ /\ Callbacks' = Callbacks
      BY <1>10, <2>6 DEF ConnectDestroyed, Callbacks
    <3> QED
      BY <2>2, <2>3, <2>4, <2>6, <3>1 DEF Contract!IsDestroyed, Contract!Next
  <2> QED
    BY <2>5, <2>6
<1>11. ASSUME connections_, ~connections_', UNCHANGED <<state_, destroyed>>
       PROVE  Contract!Leaves
  <2>1. Place # "left" /\ Place' = "left" /\ Callbacks' = Callbacks
    BY <1>11 DEF Place, Callbacks
  <2>2. (destroyed = "run")' = (destroyed = "run")
    BY <1>11
  <2> QED
    BY <1>11, <2>1, <2>2 DEF Contract!Leaves
<1>12. CASE RemoveConnectionInLoop
  <2>1. connections_ /\ ~connections_' /\ UNCHANGED <<state_, destroyed>>
    BY <1>12, <1>t DEF RemoveConnectionInLoop, ServerFollows, LifetimeType
  <2> QED
    BY <1>11, <2>1 DEF Contract!Next
<1>13. CASE ServerDestroyed
  <2>1. UNCHANGED <<state_, destroyed, base>> /\ ~connections_'
    BY <1>13 DEF ServerDestroyed
  <2>2. CASE connections_
    BY <1>11, <2>1, <2>2 DEF Contract!Next
  <2>3. CASE ~connections_
    <3>1. Callbacks' = Callbacks /\ Place' = Place
      BY <2>1, <2>3 DEF Callbacks, Place
    <3>2. (destroyed = "run")' = (destroyed = "run")
      BY <2>1
    <3> QED
      BY <2>1, <3>1, <3>2 DEF Contract!vars
  <2> QED
    BY <2>2, <2>3
<1>14. ASSUME NEW u \in Users, SendTest(u) \/ SendQueue(u) \/ Drop(u)
       PROVE  [Contract!Next]_(Contract!vars)
  <2>1. UNCHANGED <<state_, connections_, base, destroyed>>
    BY <1>14 DEF SendTest, SendQueue, Drop, UserStep
  <2> QED
    BY <2>1, ContractStutters
<1> QED
  BY <1>1, <1>2, <1>5, <1>6, <1>7, <1>8, <1>9, <1>10, <1>12, <1>13, <1>14
  DEF Next, LoopStep, BaseStep

\* With the pointers modelled, and the server's loop apart from the connection's, a
\* connection still keeps the contract the server is modelled against.
THEOREM LifetimeImplementsConnection == Spec => ImplementsConnection
<1>1. Init => Contract!Init
  BY DEF Init, Contract!Init, Callbacks, Place
<1> QED
  BY LifetimeAlways, ContractStep, <1>1, PTL DEF Spec, ImplementsConnection, Contract!Spec

===========================================================================
