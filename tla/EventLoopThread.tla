------------------------- MODULE EventLoopThread -------------------------
(***************************************************************************)
(* One EventLoopThread with the EventLoop it runs (EventLoopThread.cpp,     *)
(* Thread.cpp): the owner constructs it, calls startLoop, hands the pointer *)
(* around and destroys it; the new thread builds the loop on its own stack, *)
(* runs the init callback, publishes the pointer, loops and takes it back.  *)
(*                                                                          *)
(* The critical sections of mutex_ (test of loop_ and wait, publication and *)
(* notify_one, reset of loop_) are one step each.  exiting_, tid_ and name_ *)
(* are written and never read: left out.  started_ and joined_ of the Thread *)
(* are the state of its std::thread here.                                   *)
(***************************************************************************)
EXTENDS EventLoop

CONSTANTS
  Owner,      \* the thread that owns the EventLoopThread
  Quitters    \* threads that may call quit() themselves, besides the destructor

ASSUME EventLoopThreadAssumption ==
  /\ Owner \in Threads
  /\ Quitters \subseteq Threads \cup {Loop}

VARIABLES
  owner,      \* where the owner is in startLoop or in the destructor
  thread,     \* where the new thread is in threadFunc
  loop_,      \* is the pointer set?
  pthread_    \* the std::thread: "none", "joinable", "joined" or "detached"

threadVars == <<vars, owner, thread, loop_, pthread_>>

ThreadInit ==
  /\ Init
  /\ owner = "new"
  /\ thread = "none"
  /\ loop_ = FALSE
  /\ pthread_ = "none"

--------------------------------------------------------------------------
(* The owner: startLoop.                                                    *)

\* Thread::start up to sem_wait.
Start ==
  /\ owner = "new"
  /\ owner' = "sem_wait"
  /\ thread' = "begin"
  /\ pthread_' = "joinable"
  /\ UNCHANGED <<vars, loop_>>

\* The new thread has posted the semaphore.
Started ==
  /\ owner = "sem_wait"
  /\ thread # "begin"
  /\ owner' = "test"
  /\ UNCHANGED <<vars, thread, loop_, pthread_>>

\* Mutant of TestLoop: the pointer is taken without waiting for it.
TestLoopNoWait ==
  /\ owner = "test"
  /\ owner' = "ready"
  /\ UNCHANGED <<vars, thread, loop_, pthread_>>

\* while(loop_ == nullptr) cond_.wait(lock)
TestLoop ==
  /\ owner = "test"
  /\ owner' = IF loop_ THEN "ready" ELSE "cond_wait"
  /\ UNCHANGED <<vars, thread, loop_, pthread_>>

\* cond_.wait may return without a notify.
SpuriousWakeup ==
  /\ owner = "cond_wait"
  /\ owner' = "test"
  /\ UNCHANGED <<vars, thread, loop_, pthread_>>

--------------------------------------------------------------------------
(* The owner: the destructor.  It may come at any time after startLoop, or   *)
(* without it, once no other thread is in a call to the loop.                *)

\* loop_ is read without mutex_.  When it is null the thread is not joined.
Destroy ==
  /\ \/ owner = "new"
     \/ owner = "ready" /\ \A t \in Threads : op[t] = "idle"
  /\ owner' = IF loop_ THEN "quit" ELSE "members"
  /\ UNCHANGED <<vars, thread, loop_, pthread_>>

\* Mutant of DestroyQuit: the thread is joined and never told to quit.
DestroyJoinOnly ==
  /\ owner = "quit"
  /\ owner' = "join"
  /\ UNCHANGED <<vars, thread, loop_, pthread_>>

\* loop_->quit(): the flag now, the wakeup as the next step of EventLoop's quit.
DestroyQuit ==
  /\ owner = "quit"
  /\ Quit(Owner)
  /\ owner' = "join"
  /\ UNCHANGED <<thread, loop_, pthread_>>

\* Mutant of Join: the thread is detached.
JoinDetached ==
  /\ owner = "join"
  /\ op[Owner] = "idle"
  /\ pthread_' = "detached"
  /\ owner' = "members"
  /\ UNCHANGED <<vars, thread, loop_>>

Join ==
  /\ owner = "join"
  /\ op[Owner] = "idle"
  /\ thread = "ended"
  /\ pthread_' = "joined"
  /\ owner' = "members"
  /\ UNCHANGED <<vars, thread, loop_>>

\* ~Thread, the member: a thread that was started and not joined is let go.
ThreadDestroyed ==
  /\ owner = "members"
  /\ pthread_' = IF pthread_ = "joinable" THEN "detached" ELSE pthread_
  /\ owner' = "done"
  /\ UNCHANGED <<vars, thread, loop_>>

--------------------------------------------------------------------------
(* The new thread: threadFunc.                                              *)

\* tid_, sem_post, EventLoop loop; from here callback_(&loop) runs.
ThreadFunc ==
  /\ thread = "begin"
  /\ thread' = "callback"
  /\ UNCHANGED <<vars, owner, loop_, pthread_>>

\* Mutant of Publish: the pointer is set and nobody is notified.
PublishNoNotify ==
  /\ thread = "callback"
  /\ op[Loop] = "idle"
  /\ loop_' = TRUE
  /\ thread' = "loop"
  /\ UNCHANGED <<vars, owner, pthread_>>

\* The callback has returned: loop_ = &loop; cond_.notify_one()
Publish ==
  /\ thread = "callback"
  /\ op[Loop] = "idle"
  /\ loop_' = TRUE
  /\ owner' = IF owner = "cond_wait" THEN "test" ELSE owner
  /\ thread' = "loop"
  /\ UNCHANGED <<vars, pthread_>>

\* Mutant of Unpublish: the pointer to the dying loop stays.
UnpublishDangling ==
  /\ thread = "loop"
  /\ pc = "exited"
  /\ thread' = "leaving"
  /\ UNCHANGED <<vars, owner, loop_, pthread_>>

\* loop() has returned: loop_ = nullptr, with mutex_ held.
Unpublish ==
  /\ thread = "loop"
  /\ pc = "exited"
  /\ loop_' = FALSE
  /\ thread' = "leaving"
  /\ UNCHANGED <<vars, owner, pthread_>>

\* mutex_ is released and the EventLoop on the stack destroyed.
ThreadEnds ==
  /\ thread = "leaving"
  /\ thread' = "ended"
  /\ UNCHANGED <<vars, owner, loop_, pthread_>>

--------------------------------------------------------------------------
(* The loop in its thread, and the callers that got it from startLoop.      *)

\* Callers do not use the pointer of a loop that is gone.
MayCall(t) ==
  IF t = Loop THEN pc = "init" => thread = "callback"
  ELSE owner = "ready" /\ thread = "loop"

LoopCall(t) ==
  /\ MayCall(t)
  /\ \/ \E f \in Functors : QueueInLoop(t, f) \/ RunInLoop(t, f)
     \/ t \in Quitters /\ Quit(t)
  /\ UNCHANGED <<owner, thread, loop_, pthread_>>

CallWakeup(t) == Wakeup(t) /\ UNCHANGED <<owner, thread, loop_, pthread_>>

LoopRuns == thread = "loop" /\ LoopStep /\ UNCHANGED <<owner, thread, loop_, pthread_>>

LoopPolls == (Poll \/ PollNothing) /\ UNCHANGED <<owner, thread, loop_, pthread_>>

OwnerStep == Started \/ TestLoop \/ DestroyQuit \/ Join \/ ThreadDestroyed

ThreadStep == ThreadFunc \/ Publish \/ Unpublish \/ ThreadEnds

ThreadNext ==
  \/ OwnerStep
  \/ Start
  \/ SpuriousWakeup
  \/ Destroy
  \/ ThreadStep
  \/ LoopRuns
  \/ LoopPolls
  \/ \E t \in Threads \cup {Loop} : LoopCall(t) \/ CallWakeup(t)

\* Every started thread is scheduled and callbacks return, as in EventLoop.  The
\* owner need not start nor destroy, and a spurious wakeup is never promised.
ThreadFairness ==
  /\ WF_threadVars(OwnerStep)
  /\ WF_threadVars(ThreadStep)
  /\ WF_threadVars(LoopRuns)
  /\ WF_threadVars(wakeupFd_ /\ LoopPolls)
  /\ \A t \in Threads \cup {Loop} : WF_threadVars(CallWakeup(t))

ThreadSpec == ThreadInit /\ [][ThreadNext]_threadVars

ThreadFairSpec == ThreadSpec /\ ThreadFairness

--------------------------------------------------------------------------

\* Types; and loop_ is set exactly while a loop is there to be used through it.
ThreadTypeOK ==
  /\ TypeOK
  /\ owner \in {"new", "sem_wait", "test", "cond_wait", "ready", "quit", "join", "members",
                "done"}
  /\ thread \in {"none", "begin", "callback", "loop", "leaving", "ended"}
  /\ loop_ \in BOOLEAN
  /\ pthread_ \in {"none", "joinable", "joined", "detached"}
  /\ loop_ <=> thread = "loop"

\* What startLoop returned is a loop whose thread has not left it, for as long as
\* the owner may use it, and still is one when the destructor calls quit() on it;
\* unless somebody else told the loop to quit.
StartedLoopIsLive ==
  owner \in {"ready", "quit"} /\ ~quit_ => thread = "loop" /\ pc # "exited"

\* When the destructor has returned no callback and no closure runs in the thread
\* any more: it never was, it ended, or, when the loop had quit by itself, it has
\* yet to release mutex_ (~EventLoopThread reads loop_ with no lock to decide
\* whether to join).  No std::thread is left joinable, which would end the process when
\* it is destroyed, and one that was joined had ended.
DestroyedLoopIsOver ==
  owner = "done" =>
    /\ thread \in {"none", "leaving", "ended"}
    /\ pthread_ # "joinable"
    /\ pthread_ = "joined" => thread = "ended"

\* The same without the reservation: holds when nobody else quits the loop.
DestroyedThreadIsGone == owner = "done" => thread \in {"none", "ended"}

\* startLoop returns, whichever of the two threads is faster, unless the loop quit
\* by itself before its starter looked: the pointer it waits for is null again,
\* and stays so.
StartLoopReturns == owner = "sem_wait" ~> owner = "ready" \/ thread = "ended"

\* The destructor returns when it came after loop() was entered, wherever the
\* loop's thread then was.
DestructorReturnsOnceLooping == (owner = "quit" /\ pc # "init") ~> owner = "done"

\* "//退出事件循环" (EventLoop.h:26, EventLoop.cpp:75): quit() ends the loop, so the
\* destructor, which joins after quit(), returns.
DestructorReturns == owner = "quit" ~> owner = "done"

==========================================================================
