---------------------- MODULE EventLoopThreadProofs ----------------------
(***************************************************************************)
(* Proofs about EventLoopThread, for any set of threads, closures and       *)
(* channels.                                                                *)
(***************************************************************************)
EXTENDS EventLoopThread, EventLoopProofs

--------------------------------------------------------------------------
(* Where the two threads can be, whoever quits the loop.  A published loop is *)
(* over only because of quit_, and the owner passes startLoop only when the   *)
(* loop was published.                                                        *)

ThreadPhases ==
  /\ loop_ <=> thread = "loop"
  /\ thread \in {"none", "begin", "callback", "loop", "leaving", "ended"}
  /\ thread \in {"leaving", "ended"} => pc = "exited"
  /\ pc = "exited" => quit_
  /\ owner = "new" => thread = "none"
  /\ pthread_ \in {"none", "joinable", "joined", "detached"}
  /\ pthread_ = "joined" => thread = "ended"

OwnerPhases ==
  /\ owner \in {"new", "sem_wait", "test", "cond_wait", "ready", "quit", "join", "members",
                "done"}
  /\ owner \in {"ready", "quit"} => thread \in {"loop", "leaving", "ended"}
  /\ owner \in {"members", "done"} => thread \in {"none", "leaving", "ended"}
  /\ owner = "done" => pthread_ # "joinable"

OwnerInv == ThreadPhases /\ OwnerPhases

\* OwnerInv is an invariant of the specification.
THEOREM OwnerInductive == ThreadSpec => []OwnerInv
<1> USE DEF OwnerInv, ThreadPhases, OwnerPhases
<1>1. ASSUME ThreadInit PROVE OwnerInv
  <2>1. /\ pc = "init" /\ quit_ = FALSE
        /\ owner = "new" /\ thread = "none" /\ loop_ = FALSE /\ pthread_ = "none"
    BY <1>1 DEF ThreadInit, Init
  <2>2. loop_ <=> thread = "loop"
    BY <2>1, Zenon
  <2> QED
    BY <2>1, <2>2
<1>2. ASSUME OwnerInv, [ThreadNext]_threadVars PROVE OwnerInv'
  <2> USE <1>2
  <2>1. CASE Start
    BY <2>1 DEF Start, vars
  <2>2. CASE Started
    BY <2>2 DEF Started, vars
  <2>3. CASE TestLoop
    BY <2>3 DEF TestLoop, vars
  <2>4. CASE SpuriousWakeup
    BY <2>4 DEF SpuriousWakeup, vars
  <2>5. CASE Destroy
    BY <2>5 DEF Destroy, vars
  <2>6. CASE DestroyQuit
    BY <2>6 DEF DestroyQuit, Quit
  <2>7. CASE Join
    BY <2>7 DEF Join, vars
  <2>17. CASE ThreadDestroyed
    BY <2>17 DEF ThreadDestroyed, vars
  <2>8. CASE ThreadFunc
    BY <2>8 DEF ThreadFunc, vars
  <2>9. CASE Publish
    BY <2>9 DEF Publish, vars
  <2>10. CASE Unpublish
    BY <2>10 DEF Unpublish, vars
  <2>11. CASE ThreadEnds
    BY <2>11 DEF ThreadEnds, vars
  <2>12. CASE LoopRuns
    <3> USE <2>12 DEF LoopRuns
    <3>1. CASE StartLoop
      BY <3>1 DEF StartLoop, At
    <3>2. CASE TestQuit
      BY <3>2 DEF TestQuit, At
    <3>3. CASE HandleRead
      BY <3>3 DEF HandleRead, At
    <3>4. ASSUME NEW c \in Channels, HandlerEvent(c) PROVE OwnerInv'
      BY <3>4 DEF HandlerEvent, At
    <3>5. CASE HandlerReturns
      BY <3>5 DEF HandlerReturns, At
    <3>6. CASE DoPendingFunctors
      BY <3>6 DEF DoPendingFunctors, At
    <3>7. CASE RunFunctor
      BY <3>7 DEF RunFunctor, At
    <3>8. CASE FunctorReturns
      BY <3>8 DEF FunctorReturns, At
    <3>9. CASE PendingFunctorsDone
      BY <3>9 DEF PendingFunctorsDone, At
    <3> QED
      BY <3>1, <3>2, <3>3, <3>4, <3>5, <3>6, <3>7, <3>8, <3>9 DEF LoopStep
  <2>13. CASE LoopPolls
    BY <2>13 DEF LoopPolls, Poll, PollNothing, At
  <2>14. ASSUME NEW t \in Threads \cup {Loop}, LoopCall(t) PROVE OwnerInv'
    BY <2>14 DEF LoopCall, QueueInLoop, RunInLoop, RunInLoopHere, Quit
  <2>15. ASSUME NEW t \in Threads \cup {Loop}, CallWakeup(t) PROVE OwnerInv'
    BY <2>15 DEF CallWakeup, Wakeup
  <2>16. CASE UNCHANGED threadVars
    BY <2>16 DEF threadVars, vars
  <2> QED
    BY <2>1, <2>2, <2>3, <2>4, <2>5, <2>6, <2>7, <2>8, <2>9, <2>10, <2>11,
       <2>12, <2>13, <2>14, <2>15, <2>16, <2>17 DEF ThreadNext, OwnerStep, ThreadStep
<1> QED
  BY <1>1, <1>2, PTL DEF ThreadSpec

\* The pointer that startLoop returned, and that the destructor uses, is the one of
\* a loop whose thread has not left it, unless it was told to quit.
THEOREM StartedLoopStaysLive == ThreadSpec => []StartedLoopIsLive
<1>1. OwnerInv => StartedLoopIsLive
  BY DEF OwnerInv, ThreadPhases, OwnerPhases, StartedLoopIsLive
<1> QED
  BY <1>1, OwnerInductive, PTL

\* After the destructor no callback and no closure runs in the thread.
THEOREM DestructorEndsLoop == ThreadSpec => []DestroyedLoopIsOver
<1>1. OwnerInv => DestroyedLoopIsOver
  BY DEF OwnerInv, ThreadPhases, OwnerPhases, DestroyedLoopIsOver
<1> QED
  BY <1>1, OwnerInductive, PTL

--------------------------------------------------------------------------
(* When only the destructor quits the loop, it joins every thread that was    *)
(* started: the loop cannot be over, nor loop_ null again, before that.       *)

JoinInv ==
  /\ quit_ => owner \in {"join", "members", "done"}
  /\ owner \in {"members", "done"} => thread \in {"none", "ended"}

\* If only the destructor tells the loop to quit, it joins: when it returns the thread has
\* left threadFunc (EventLoopThread.cpp:20-23), or there was none.
THEOREM DestructorJoins ==
  ASSUME Quitters = {}
  PROVE  ThreadSpec => []DestroyedThreadIsGone
<1> USE DEF JoinInv, DestroyedThreadIsGone
<1>1. ASSUME ThreadInit PROVE JoinInv
  BY <1>1 DEF ThreadInit, Init
<1>2. ASSUME OwnerInv, JoinInv, [ThreadNext]_threadVars PROVE JoinInv'
  <2> USE <1>2 DEF OwnerInv, ThreadPhases, OwnerPhases
  <2>1. ASSUME OwnerStep \/ Start \/ SpuriousWakeup \/ Destroy PROVE JoinInv'
    BY <2>1 DEF OwnerStep, Started, TestLoop, DestroyQuit, Join, ThreadDestroyed, Start,
                SpuriousWakeup, Destroy, vars
  <2>2. CASE ThreadStep
    BY <2>2 DEF ThreadStep, ThreadFunc, Publish, Unpublish, ThreadEnds, vars
  <2>3. CASE LoopRuns
    <3>1. quit_' => quit_
      BY <2>3 DEF LoopRuns, LoopStep, StartLoop, TestQuit, HandleRead, HandlerEvent,
         HandlerReturns, DoPendingFunctors, RunFunctor, FunctorReturns,
         PendingFunctorsDone
    <3> QED
      BY <2>3, <3>1 DEF LoopRuns
  <2>4. CASE LoopPolls
    BY <2>4 DEF LoopPolls, Poll, PollNothing
  <2>5. ASSUME NEW t \in Threads \cup {Loop}, LoopCall(t) \/ CallWakeup(t)
        PROVE  JoinInv'
    BY <2>5 DEF LoopCall, CallWakeup, QueueInLoop, RunInLoop, RunInLoopHere, Wakeup
  <2>6. CASE UNCHANGED threadVars
    BY <2>6 DEF threadVars, vars
  <2> QED
    BY <2>1, <2>2, <2>3, <2>4, <2>5, <2>6 DEF ThreadNext
<1>3. JoinInv => DestroyedThreadIsGone
  OBVIOUS
<1> QED
  BY <1>1, <1>2, <1>3, OwnerInductive, PTL DEF ThreadSpec

--------------------------------------------------------------------------
(* The loop inside its thread.                                              *)

\* Around the loop, EventLoopThread adds no step that the loop by itself could not
\* take: what holds of EventLoop holds of the loop that startLoop returns.
THEOREM ThreadRunsAnEventLoop == ThreadSpec => Spec
<1>1. ThreadInit => Init
  BY DEF ThreadInit
<1>2. ASSUME [ThreadNext]_threadVars PROVE [Next]_vars
  <2> USE <1>2
  <2>1. Start \/ Started \/ TestLoop \/ SpuriousWakeup \/ Destroy \/ Join \/ ThreadDestroyed
          => UNCHANGED vars
    BY DEF Start, Started, TestLoop, SpuriousWakeup, Destroy, Join, ThreadDestroyed
  <2>2. ThreadStep => UNCHANGED vars
    BY DEF ThreadStep, ThreadFunc, Publish, Unpublish, ThreadEnds
  <2>3. DestroyQuit => Next
    BY EventLoopThreadAssumption DEF DestroyQuit, Next, Call
  <2>4. LoopRuns \/ LoopPolls => Next
    BY DEF LoopRuns, LoopPolls, Next
  <2>5. ASSUME NEW t \in Threads \cup {Loop}, LoopCall(t) \/ CallWakeup(t)
        PROVE  Next
    BY <2>5 DEF LoopCall, CallWakeup, Next, Call
  <2>6. UNCHANGED threadVars => UNCHANGED vars
    BY DEF threadVars
  <2> QED
    BY <2>1, <2>2, <2>3, <2>4, <2>5, <2>6 DEF ThreadNext, OwnerStep
<1> QED
  BY <1>1, <1>2, PTL DEF ThreadSpec, Spec

\* So the loop of an EventLoopThread never sleeps on work, and runs what it is
\* given as the task queue promises.
THEOREM ThreadNeverSleepsOnWork ==
  ASSUME ~QueueBeforeLoop
  PROVE  ThreadSpec => []SleepingLoopIsWoken
BY NeverSleepsOnWork, ThreadRunsAnEventLoop, PTL

\* A loop inside its EventLoopThread still accepts and starts each closure once, in order.
THEOREM ThreadRefinesTaskQueue == ThreadSpec => ImplementsTaskQueue
BY RefinesTaskQueue, ThreadRunsAnEventLoop, PTL

\* The types of the loop and of the two threads together; loop_ is set exactly while the
\* thread is in loop().
THEOREM ThreadTypeCorrect == ThreadSpec => []ThreadTypeOK
<1>1. ASSUME ThreadInit PROVE loop_ \in BOOLEAN
  BY <1>1 DEF ThreadInit
<1>2. ASSUME loop_ \in BOOLEAN, [ThreadNext]_threadVars PROVE (loop_ \in BOOLEAN)'
  BY <1>2 DEF ThreadNext, OwnerStep, ThreadStep, Start, Started, TestLoop, SpuriousWakeup,
              Destroy, DestroyQuit, Join, ThreadDestroyed, ThreadFunc, Publish, Unpublish,
              ThreadEnds, LoopRuns, LoopPolls, LoopCall, CallWakeup, threadVars
<1>3. ThreadSpec => [](loop_ \in BOOLEAN)
  BY <1>1, <1>2, PTL DEF ThreadSpec
<1>4. TypeOK /\ OwnerInv /\ loop_ \in BOOLEAN => ThreadTypeOK
  BY DEF ThreadTypeOK, OwnerInv, ThreadPhases, OwnerPhases
<1> QED
  BY <1>3, <1>4, TypeCorrect, ThreadRunsAnEventLoop, OwnerInductive, PTL

==========================================================================
