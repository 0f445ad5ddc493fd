------------------------- MODULE EventLoopProofs -------------------------
(***************************************************************************)
(* Proofs about EventLoop, for any set of threads, closures and channels:   *)
(* its types and phases, that it never sleeps on work, and that it          *)
(* implements the task queue.                                               *)
(***************************************************************************)
EXTENDS EventLoop, TLAPS

--------------------------------------------------------------------------
(* Sequences.                                                               *)

\* What a concatenation holds (the swapped-out vector followed by the queue).
LEMMA ConcatElements ==
  ASSUME NEW S, NEW s \in Seq(S), NEW t \in Seq(S)
  PROVE  Elements(s \o t) = Elements(s) \cup Elements(t)
<1>1. ASSUME NEW i \in DOMAIN s PROVE s[i] = (s \o t)[i] /\ i \in DOMAIN (s \o t)
  OBVIOUS
<1>2. ASSUME NEW i \in DOMAIN t
      PROVE  t[i] = (s \o t)[Len(s) + i] /\ Len(s) + i \in DOMAIN (s \o t)
  OBVIOUS
<1>3. ASSUME NEW i \in DOMAIN (s \o t)
      PROVE  (s \o t)[i] \in Elements(s) \cup Elements(t)
  <2>1. CASE i <= Len(s)
    BY <2>1, <1>3 DEF Elements
  <2>2. CASE ~(i <= Len(s))
    <3>1. i - Len(s) \in DOMAIN t /\ (s \o t)[i] = t[i - Len(s)]
      BY <2>2, <1>3
    <3> QED
      BY <3>1 DEF Elements
  <2> QED
    BY <2>1, <2>2
<1>4. Elements(s \o t) \subseteq Elements(s) \cup Elements(t)
  BY <1>3 DEF Elements
<1>5. Elements(s) \subseteq Elements(s \o t)
  BY <1>1 DEF Elements
<1>6. Elements(t) \subseteq Elements(s \o t)
  BY <1>2 DEF Elements
<1> QED
  BY <1>4, <1>5, <1>6

\* A closure pushed on the queue is pushed at the end of vector and queue.
LEMMA ConcatAppend ==
  ASSUME NEW S, NEW s \in Seq(S), NEW t \in Seq(S), NEW e \in S
  PROVE  s \o Append(t, e) = Append(s \o t, e)
  OBVIOUS

\* The first closure of the vector is the first of vector and queue.
LEMMA ConcatHeadTail ==
  ASSUME NEW S, NEW s \in Seq(S), NEW t \in Seq(S), s # <<>>
  PROVE  /\ s \o t # <<>>
         /\ Head(s \o t) = Head(s)
         /\ Tail(s \o t) = Tail(s) \o t
  OBVIOUS

--------------------------------------------------------------------------
(* Types and phases.                                                        *)

\* Every reachable state has the types and phases of TypeOK: in particular
\* callingPendingFunctors_ is up exactly while doPendingFunctors runs closures.
THEOREM TypeCorrect == Spec => []TypeOK
<1>1. ASSUME Init PROVE TypeOK
  <2> USE <1>1 DEF Init
  <2>1. callingPendingFunctors_ <=> pc \in {"run", "functor"}
    BY Zenon
  <2>2. callingPendingFunctors_ \in BOOLEAN /\ quit_ \in BOOLEAN /\ wakeupFd_ \in BOOLEAN
    OBVIOUS
  <2>3. activeChannels_ \in SUBSET (Channels \cup {WakeupChannel})
    OBVIOUS
  <2>4. op \in [Threads \cup {Loop} -> {"idle", "wakeup"}]
    OBVIOUS
  <2> QED
    BY <2>1, <2>2, <2>3, <2>4 DEF TypeOK, PC
<1>2. ASSUME TypeOK, [Next]_vars PROVE TypeOK'
  <2> USE <1>2, EventLoopAssumption DEF TypeOK, PC
  <2>1. ASSUME NEW t \in Threads \cup {Loop}, NEW f \in Functors, QueueInLoop(t, f)
        PROVE  TypeOK'
    BY <2>1 DEF QueueInLoop
  <2>2. ASSUME NEW f \in Functors, RunInLoopHere(f) PROVE TypeOK'
    BY <2>2 DEF RunInLoopHere
  <2>3. ASSUME NEW t \in Threads \cup {Loop}, Quit(t) PROVE TypeOK'
    BY <2>3 DEF Quit
  <2>4. ASSUME NEW t \in Threads \cup {Loop}, Wakeup(t) PROVE TypeOK'
    BY <2>4 DEF Wakeup
  <2>5. CASE StartLoop
    BY <2>5 DEF StartLoop, At
  <2>6. CASE TestQuit
    BY <2>6 DEF TestQuit, At
  <2>7. CASE Poll
    BY <2>7 DEF Poll, Ready, At
  <2>8. CASE PollNothing
    BY <2>8 DEF PollNothing, At
  <2>9. CASE HandleRead
    BY <2>9 DEF HandleRead, At
  <2>10. ASSUME NEW c \in Channels, HandlerEvent(c) PROVE TypeOK'
    BY <2>10 DEF HandlerEvent, At
  <2>11. CASE HandlerReturns
    BY <2>11 DEF HandlerReturns, At
  <2>12. CASE DoPendingFunctors
    BY <2>12 DEF DoPendingFunctors, At
  <2>13. CASE RunFunctor
    BY <2>13 DEF RunFunctor, At
  <2>14. CASE FunctorReturns
    BY <2>14 DEF FunctorReturns, At
  <2>15. CASE PendingFunctorsDone
    BY <2>15 DEF PendingFunctorsDone, At
  <2>16. CASE UNCHANGED vars
    BY <2>16 DEF vars
  <2> QED
    BY <2>1, <2>2, <2>3, <2>4, <2>5, <2>6, <2>7, <2>8, <2>9, <2>10, <2>11,
       <2>12, <2>13, <2>14, <2>15, <2>16
       DEF Next, Call, RunInLoop, LoopStep
<1> QED
  BY <1>1, <1>2, PTL DEF Spec

--------------------------------------------------------------------------
(* The sleeping loop.                                                       *)

\* Why the loop never sleeps on work.  A wakeup is on its way for every queued
\* closure, unless the loop is about to swap the queue: handleRead, the only step
\* that takes a wakeup back, runs in "dispatch", and from there the loop reaches
\* doPendingFunctors before it polls again.  The loop enters epoll_wait only with
\* quit_ down, and whoever raises it meanwhile is another thread, which writes
\* the eventfd.
QueueIsAnnounced == pendingFunctors_ # <<>> /\ pc \notin {"dispatch", "handler"} => WakeupComing
QuitIsAnnounced == pc = "poll" /\ quit_ => WakeupComing

WakeupInv == QueueIsAnnounced /\ QuitIsAnnounced

\* Whatever the place of the loop's thread, queued work and a quit are announced before it
\* can reach epoll_wait: the inductive form of SleepingLoopIsWoken.
THEOREM WakeupInductive ==
  ASSUME ~QueueBeforeLoop
  PROVE  Spec => []WakeupInv
<1>1. ASSUME Init PROVE WakeupInv
  BY <1>1 DEF Init, WakeupInv, QueueIsAnnounced, QuitIsAnnounced
<1>2. ASSUME TypeOK, WakeupInv, [Next]_vars PROVE WakeupInv'
  <2> USE <1>2, EventLoopAssumption
      DEF WakeupInv, QueueIsAnnounced, QuitIsAnnounced, WakeupComing
  <2>1. ASSUME NEW t \in Threads \cup {Loop}, NEW f \in Functors, QueueInLoop(t, f)
        PROVE  WakeupInv'
    <3>1. CASE MustWake(t)
      BY <2>1, <3>1 DEF QueueInLoop, TypeOK
    <3>2. CASE ~MustWake(t)
      BY <2>1, <3>2 DEF QueueInLoop, MustWake, CanCall, UserCode, TypeOK, PC
    <3> QED
      BY <3>1, <3>2
  <2>2. ASSUME NEW f \in Functors, RunInLoopHere(f) PROVE WakeupInv'
    BY <2>2 DEF RunInLoopHere
  <2>3. ASSUME NEW t \in Threads \cup {Loop}, Quit(t) PROVE WakeupInv'
    BY <2>3 DEF Quit, CanCall, UserCode, TypeOK
  <2>4. ASSUME NEW t \in Threads \cup {Loop}, Wakeup(t) PROVE WakeupInv'
    BY <2>4 DEF Wakeup
  <2>5. CASE StartLoop
    BY <2>5 DEF StartLoop, At
  <2>6. CASE TestQuit
    BY <2>6 DEF TestQuit, At
  <2>7. CASE Poll
    BY <2>7 DEF Poll, At
  <2>8. CASE PollNothing
    BY <2>8 DEF PollNothing, At
  <2>9. CASE HandleRead
    BY <2>9 DEF HandleRead, At
  <2>10. ASSUME NEW c \in Channels, HandlerEvent(c) PROVE WakeupInv'
    BY <2>10 DEF HandlerEvent, At
  <2>11. CASE HandlerReturns
    BY <2>11 DEF HandlerReturns, At
  <2>12. CASE DoPendingFunctors
    BY <2>12 DEF DoPendingFunctors, At
  <2>13. CASE RunFunctor
    BY <2>13 DEF RunFunctor, At
  <2>14. CASE FunctorReturns
    BY <2>14 DEF FunctorReturns, At
  <2>15. CASE PendingFunctorsDone
    BY <2>15 DEF PendingFunctorsDone, At
  <2>16. CASE UNCHANGED vars
    BY <2>16 DEF vars
  <2> QED
    BY <2>1, <2>2, <2>3, <2>4, <2>5, <2>6, <2>7, <2>8, <2>9, <2>10, <2>11,
       <2>12, <2>13, <2>14, <2>15, <2>16
       DEF Next, Call, RunInLoop, LoopStep
<1> QED
  BY <1>1, <1>2, TypeCorrect, PTL DEF Spec

\* Provided that the loop's own thread queues nothing before it calls loop(), the
\* loop is never in epoll_wait with a closure queued or quit_ set and no wakeup
\* sent or about to be sent.
THEOREM NeverSleepsOnWork ==
  ASSUME ~QueueBeforeLoop
  PROVE  Spec => []SleepingLoopIsWoken
<1>1. WakeupInv => SleepingLoopIsWoken
  BY DEF WakeupInv, QueueIsAnnounced, QuitIsAnnounced, SleepingLoopIsWoken
<1> QED
  BY <1>1, WakeupInductive, PTL

--------------------------------------------------------------------------
(* The loop implements the task queue.                                      *)

\* A closure that was not handed over yet is new to the task queue too.
LEMMA FreshInTaskQueue ==
  ASSUME TypeOK, NEW f, Fresh(f)
  PROVE  TQ!Fresh(f)
<1>1. Elements(functors \o pendingFunctors_) = Elements(functors) \cup Elements(pendingFunctors_)
  BY ConcatElements DEF TypeOK
<1> QED
  BY <1>1 DEF Fresh, TQ!Fresh, Elements, TQ!Elements

\* Every step of the loop and of its callers is a step of the task queue or
\* leaves it as it is: closures are neither lost nor started twice, and queued
\* ones start in order.
THEOREM RefinesTaskQueue == Spec => ImplementsTaskQueue
<1>1. Init => TQ!Init
  BY DEF Init, TQ!Init
<1>2. ASSUME TypeOK, [Next]_vars PROVE [TQ!Next]_(TQ!vars)
  <2> USE <1>2
  <2> DEFINE quiet == UNCHANGED <<functors, pendingFunctors_, ran>>
  <2>0. quiet => UNCHANGED TQ!vars
    BY DEF TQ!vars
  <2>1. ASSUME NEW t \in Threads \cup {Loop}, NEW f \in Functors, QueueInLoop(t, f)
        PROVE  TQ!Enqueue(f)
    <3>1. TQ!Fresh(f)
      BY <2>1, FreshInTaskQueue DEF QueueInLoop
    <3>2. functors \o Append(pendingFunctors_, f) = Append(functors \o pendingFunctors_, f)
      BY ConcatAppend DEF TypeOK
    <3> QED
      BY <2>1, <3>1, <3>2 DEF QueueInLoop, TQ!Enqueue
  <2>2. ASSUME NEW f \in Functors, RunInLoopHere(f) PROVE TQ!RunNow(f)
    BY <2>2, FreshInTaskQueue DEF RunInLoopHere, TQ!RunNow
  <2>3. ASSUME DoPendingFunctors PROVE UNCHANGED TQ!vars
    <3>1. functors = <<>>
      BY <2>3 DEF DoPendingFunctors, At, TypeOK
    <3>2. pendingFunctors_ \o <<>> = <<>> \o pendingFunctors_
      BY DEF TypeOK
    <3> QED
      BY <2>3, <3>1, <3>2 DEF DoPendingFunctors, TQ!vars
  <2>4. ASSUME RunFunctor PROVE TQ!RunNext
    <3>1. /\ functors \o pendingFunctors_ # <<>>
          /\ Head(functors \o pendingFunctors_) = Head(functors)
          /\ Tail(functors \o pendingFunctors_) = Tail(functors) \o pendingFunctors_
      BY <2>4, ConcatHeadTail DEF TypeOK, RunFunctor
    <3> QED
      BY <2>4, <3>1 DEF RunFunctor, TQ!RunNext
  <2>5. ASSUME NEW t \in Threads \cup {Loop}, Quit(t) \/ Wakeup(t) PROVE quiet
    BY <2>5 DEF Quit, Wakeup
  <2>6. ASSUME StartLoop \/ TestQuit \/ Poll \/ PollNothing \/ HandleRead PROVE quiet
    BY <2>6 DEF StartLoop, TestQuit, Poll, PollNothing, HandleRead
  <2>7. ASSUME NEW c \in Channels, HandlerEvent(c) PROVE quiet
    BY <2>7 DEF HandlerEvent
  <2>8. ASSUME HandlerReturns \/ FunctorReturns \/ PendingFunctorsDone PROVE quiet
    BY <2>8 DEF HandlerReturns, FunctorReturns, PendingFunctorsDone
  <2>9. ASSUME UNCHANGED vars PROVE quiet
    BY <2>9 DEF vars
  <2> HIDE DEF quiet
  <2> QED
    BY <2>0, <2>1, <2>2, <2>3, <2>4, <2>5, <2>6, <2>7, <2>8, <2>9
       DEF Next, Call, RunInLoop, LoopStep, TQ!Next
<1> QED
  BY <1>1, <1>2, TypeCorrect, PTL DEF Spec, ImplementsTaskQueue, TQ!Spec

==========================================================================
