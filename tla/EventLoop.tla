---------------------------- MODULE EventLoop ----------------------------
(***************************************************************************)
(* One EventLoop (EventLoop.h, EventLoop.cpp): the thread that polls,       *)
(* dispatches events and runs queued closures, and the other threads that   *)
(* hand it closures, wake it through its eventfd and ask it to quit.        *)
(*                                                                          *)
(* Granularity.  pendingFunctors_ is touched only under mutex_, by the two  *)
(* critical sections of queueInLoop and doPendingFunctors, so each of them  *)
(* is one step.  What a thread does after its critical section (or after it *)
(* set quit_) is a step of its own: op[t] = "wakeup" says that t still has  *)
(* to write the eventfd.                                                    *)
(*                                                                          *)
(* The eventfd is its readiness: a write adds one to its counter, a read    *)
(* takes the whole counter, and epoll reports it while it is not zero.      *)
(* looping_ and pollReturnTime_ are written and never read: left out.       *)
(***************************************************************************)
EXTENDS Naturals, Sequences

CONSTANTS
  Loop,             \* the loop's own thread, threadId_
  Threads,          \* the other threads that hold a pointer to the loop
  Functors,         \* closures, each handed over at most once
  Channels,         \* the channels of the poller, apart from wakeupChannel_
  WakeupChannel,    \* wakeupChannel_
  QueueBeforeLoop   \* may the loop's thread call queueInLoop before loop()?

ASSUME EventLoopAssumption ==
  /\ Loop \notin Threads
  /\ WakeupChannel \notin Channels
  /\ QueueBeforeLoop \in BOOLEAN

VARIABLES
  pc,                       \* where the loop's thread is
  op,                       \* op[t]: the call thread t is in the middle of
  quit_,
  wakeupFd_,                \* is the eventfd readable?
  activeChannels_,          \* reported by the last poll, not dispatched yet
  callingPendingFunctors_,
  pendingFunctors_,
  functors,                 \* doPendingFunctors' local vector, what is left of it
  ran                       \* history: the closures started, in order

vars == <<pc, op, quit_, wakeupFd_, activeChannels_, callingPendingFunctors_,
          pendingFunctors_, functors, ran>>

\* "init": before loop(), in the thread's own code (a ThreadInitCallback, main);
\* "handler" and "functor": in user code called by the loop.
PC == {"init", "while", "poll", "dispatch", "handler", "run", "functor", "exited"}

UserCode == {"init", "handler", "functor"}

Elements(s) == {s[i] : i \in DOMAIN s}

Fresh(f) == f \notin Elements(pendingFunctors_) \cup Elements(functors) \cup Elements(ran)

Init ==
  /\ pc = "init"
  /\ op = [t \in Threads \cup {Loop} |-> "idle"]
  /\ quit_ = FALSE
  /\ wakeupFd_ = FALSE
  /\ activeChannels_ = {}
  /\ callingPendingFunctors_ = FALSE
  /\ pendingFunctors_ = <<>>
  /\ functors = <<>>
  /\ ran = <<>>

--------------------------------------------------------------------------
(* The interface, callable from any thread; from the loop's own thread only *)
(* inside user code.                                                        *)

CanCall(t) == op[t] = "idle" /\ (t = Loop => pc \in UserCode)

\* Mutants of MustWake: the case of a closure queued by a running closure is
\* forgotten; the case of another thread is forgotten.
MustWakeOtherThread(t) == t # Loop
MustWakeRunningFunctor(t) == callingPendingFunctors_

\* Is the write of the eventfd due once the closure is in the queue?
MustWake(t) == t # Loop \/ callingPendingFunctors_

QueueInLoop(t, f) ==
  /\ CanCall(t)
  /\ Fresh(f)
  /\ t = Loop /\ pc = "init" => QueueBeforeLoop
  /\ pendingFunctors_' = Append(pendingFunctors_, f)
  /\ op' = [op EXCEPT ![t] = IF MustWake(t) THEN "wakeup" ELSE "idle"]
  /\ UNCHANGED <<pc, quit_, wakeupFd_, activeChannels_, callingPendingFunctors_,
                 functors, ran>>

RunInLoopHere(f) ==
  /\ CanCall(Loop)
  /\ Fresh(f)
  /\ ran' = Append(ran, f)
  /\ UNCHANGED <<pc, op, quit_, wakeupFd_, activeChannels_,
                 callingPendingFunctors_, pendingFunctors_, functors>>

RunInLoop(t, f) == IF t = Loop THEN RunInLoopHere(f) ELSE QueueInLoop(t, f)

\* Mutant of Quit: the flag is set and the loop is left asleep.
QuitNoWakeup(t) ==
  /\ CanCall(t)
  /\ quit_' = TRUE
  /\ UNCHANGED <<pc, op, wakeupFd_, activeChannels_, callingPendingFunctors_,
                 pendingFunctors_, functors, ran>>

Quit(t) ==
  /\ CanCall(t)
  /\ quit_' = TRUE
  /\ op' = [op EXCEPT ![t] = IF t # Loop THEN "wakeup" ELSE "idle"]
  /\ UNCHANGED <<pc, wakeupFd_, activeChannels_, callingPendingFunctors_,
                 pendingFunctors_, functors, ran>>

Wakeup(t) ==
  /\ op[t] = "wakeup"
  /\ wakeupFd_' = TRUE
  /\ op' = [op EXCEPT ![t] = "idle"]
  /\ UNCHANGED <<pc, quit_, activeChannels_, callingPendingFunctors_,
                 pendingFunctors_, functors, ran>>

--------------------------------------------------------------------------
(* The loop's own thread.                                                   *)

At(p) == pc = p /\ op[Loop] = "idle"

\* loop() is entered: whatever quit_ was, it is FALSE now.
StartLoop ==
  /\ At("init")
  /\ quit_' = FALSE
  /\ pc' = "while"
  /\ UNCHANGED <<op, wakeupFd_, activeChannels_, callingPendingFunctors_,
                 pendingFunctors_, functors, ran>>

TestQuit ==
  /\ At("while")
  /\ pc' = IF quit_ THEN "exited" ELSE "poll"
  /\ UNCHANGED <<op, quit_, wakeupFd_, activeChannels_, callingPendingFunctors_,
                 pendingFunctors_, functors, ran>>

\* epoll_wait returns some of the ready channels (events_ may be too short for
\* all of them); a channel of a socket may become ready at any time.
Ready == Channels \cup IF wakeupFd_ THEN {WakeupChannel} ELSE {}

Poll ==
  /\ At("poll")
  /\ \E active \in SUBSET Ready \ {{}} : activeChannels_' = active
  /\ pc' = "dispatch"
  /\ UNCHANGED <<op, quit_, wakeupFd_, callingPendingFunctors_,
                 pendingFunctors_, functors, ran>>

\* Nothing was ready for kPollTimes, or a signal arrived.
PollNothing ==
  /\ At("poll")
  /\ ~wakeupFd_
  /\ pc' = "dispatch"
  /\ UNCHANGED <<op, quit_, wakeupFd_, activeChannels_, callingPendingFunctors_,
                 pendingFunctors_, functors, ran>>

HandleRead ==
  /\ At("dispatch")
  /\ WakeupChannel \in activeChannels_
  /\ wakeupFd_' = FALSE
  /\ activeChannels_' = activeChannels_ \ {WakeupChannel}
  /\ UNCHANGED <<pc, op, quit_, callingPendingFunctors_, pendingFunctors_,
                 functors, ran>>

HandlerEvent(c) ==
  /\ At("dispatch")
  /\ c \in activeChannels_ \ {WakeupChannel}
  /\ activeChannels_' = activeChannels_ \ {c}
  /\ pc' = "handler"
  /\ UNCHANGED <<op, quit_, wakeupFd_, callingPendingFunctors_,
                 pendingFunctors_, functors, ran>>

HandlerReturns ==
  /\ At("handler")
  /\ pc' = "dispatch"
  /\ UNCHANGED <<op, quit_, wakeupFd_, activeChannels_, callingPendingFunctors_,
                 pendingFunctors_, functors, ran>>

\* Mutant of DoPendingFunctors: the queue is copied where it should be swapped.
DoPendingFunctorsCopy ==
  /\ At("dispatch")
  /\ activeChannels_ = {}
  /\ callingPendingFunctors_' = TRUE
  /\ functors' = pendingFunctors_
  /\ pc' = "run"
  /\ UNCHANGED <<op, quit_, wakeupFd_, activeChannels_, pendingFunctors_, ran>>

DoPendingFunctors ==
  /\ At("dispatch")
  /\ activeChannels_ = {}
  /\ callingPendingFunctors_' = TRUE
  /\ functors' = pendingFunctors_
  /\ pendingFunctors_' = <<>>
  /\ pc' = "run"
  /\ UNCHANGED <<op, quit_, wakeupFd_, activeChannels_, ran>>

RunFunctor ==
  /\ At("run")
  /\ functors # <<>>
  /\ ran' = Append(ran, Head(functors))
  /\ functors' = Tail(functors)
  /\ pc' = "functor"
  /\ UNCHANGED <<op, quit_, wakeupFd_, activeChannels_, callingPendingFunctors_,
                 pendingFunctors_>>

FunctorReturns ==
  /\ At("functor")
  /\ pc' = "run"
  /\ UNCHANGED <<op, quit_, wakeupFd_, activeChannels_, callingPendingFunctors_,
                 pendingFunctors_, functors, ran>>

\* Mutant of PendingFunctorsDone: the flag stays up.
PendingFunctorsDoneFlagLeft ==
  /\ At("run")
  /\ functors = <<>>
  /\ pc' = "while"
  /\ UNCHANGED <<op, quit_, wakeupFd_, activeChannels_, callingPendingFunctors_,
                 pendingFunctors_, functors, ran>>

PendingFunctorsDone ==
  /\ At("run")
  /\ functors = <<>>
  /\ callingPendingFunctors_' = FALSE
  /\ pc' = "while"
  /\ UNCHANGED <<op, quit_, wakeupFd_, activeChannels_, pendingFunctors_,
                 functors, ran>>

--------------------------------------------------------------------------

\* A call made by user code, on whatever thread it runs.
Call(t) ==
  \/ \E f \in Functors : QueueInLoop(t, f) \/ RunInLoop(t, f)
  \/ Quit(t)

\* What the loop's thread does by itself, except to wait in epoll_wait.
LoopStep ==
  \/ StartLoop
  \/ TestQuit
  \/ HandleRead
  \/ \E c \in Channels : HandlerEvent(c)
  \/ HandlerReturns
  \/ DoPendingFunctors
  \/ RunFunctor
  \/ FunctorReturns
  \/ PendingFunctorsDone

Next ==
  \/ \E t \in Threads \cup {Loop} : Call(t) \/ Wakeup(t)
  \/ LoopStep
  \/ Poll
  \/ PollNothing

\* Every running thread is scheduled, callbacks return, and epoll_wait returns
\* when the eventfd is readable.  No event of another channel and no timeout is
\* ever promised: a property that holds under Fairness does not live off the
\* ten-second timeout.
Fairness ==
  /\ WF_vars(LoopStep)
  /\ WF_vars(wakeupFd_ /\ Poll)
  /\ \A t \in Threads \cup {Loop} : WF_vars(Wakeup(t))

Spec == Init /\ [][Next]_vars

FairSpec == Spec /\ Fairness

--------------------------------------------------------------------------

\* Types, and what each phase of an iteration may hold: events to dispatch only
\* while dispatching, the flag up exactly while closures run, a swapped-out
\* vector only while the flag is up.
TypeOK ==
  /\ pc \in PC
  /\ op \in [Threads \cup {Loop} -> {"idle", "wakeup"}]
  /\ quit_ \in BOOLEAN
  /\ wakeupFd_ \in BOOLEAN
  /\ activeChannels_ \in SUBSET (Channels \cup {WakeupChannel})
  /\ callingPendingFunctors_ \in BOOLEAN
  /\ pendingFunctors_ \in Seq(Functors)
  /\ functors \in Seq(Functors)
  /\ ran \in Seq(Functors)
  /\ activeChannels_ # {} => pc \in {"dispatch", "handler"}
  /\ callingPendingFunctors_ <=> pc \in {"run", "functor"}
  /\ functors # <<>> => callingPendingFunctors_

\* The eventfd is readable, or a thread is on its way to write it.
WakeupComing == wakeupFd_ \/ \E t \in Threads \cup {Loop} : op[t] = "wakeup"

\* The loop never sleeps on work: when its thread is in epoll_wait and a closure
\* is queued, or the loop was told to quit, the wakeup has been sent or its
\* sender is about to send it (queueInLoop, quit, handleRead, doPendingFunctors:
\* a push after the swap, or a drain of the eventfd just after a push, must not
\* lose the wakeup).
SleepingLoopIsWoken == pc = "poll" /\ (pendingFunctors_ # <<>> \/ quit_) => WakeupComing

\* The loop implements the task queue: swap, nested calls and the calls of other
\* threads lose no closure, start none twice and start queued ones in order.
TQ == INSTANCE TaskQueue WITH queue <- functors \o pendingFunctors_

ImplementsTaskQueue == TQ!Spec

\* A queued closure is started without any help from the poll timeout or from
\* other events, unless the loop ends first.
QueuedFunctorRuns ==
  \A f \in Functors :
    f \in Elements(pendingFunctors_) ~> (f \in Elements(ran) \/ pc = "exited")

\* Once loop() has been entered, quit() from any thread ends it.
QuitEndsLoop == (quit_ /\ pc # "init") ~> (pc = "exited")

==========================================================================
