----------------------- MODULE EventLoopThreadPool -----------------------
(***************************************************************************)
(* EventLoopThreadPool.cpp: the loops among which a server spreads its      *)
(* connections.  It is used on the base loop's thread only.  Loop 0 is the  *)
(* base loop, loop i the one of the i-th EventLoopThread.  started_ is      *)
(* written and never read in the library: left out.  getLoopForHash and     *)
(* getAllLoops are called by nobody: TcpServerProofs says what they return.  *)
(***************************************************************************)
EXTENDS Naturals, Sequences

CONSTANTS
  MaxThreads,    \* bound: threads of the pool
  MaxConns       \* bound: loops asked for, one for each connection

ASSUME PoolAssumption == MaxThreads \in Nat /\ MaxConns \in Nat \ {0}

VARIABLES
  numThreads_,
  loops_,
  next_,
  given,         \* history: what getNextLoop returned, in order
  joining        \* the thread that the destructor told to quit last; 0: none so far

poolVars == <<numThreads_, loops_, next_, given, joining>>

baseLoop_ == 0

PoolInit ==
  /\ numThreads_ = 0
  /\ loops_ = <<>>
  /\ next_ = 0
  /\ given = <<>>
  /\ joining = 0

SetThreadNum(n) ==
  /\ numThreads_' = n
  /\ UNCHANGED <<loops_, next_, given, joining>>

\* start: every startLoop waits for its loop, so all of them are there at the end.
PoolStart ==
  /\ loops_' = loops_ \o [i \in 1..numThreads_ |-> i]
  /\ UNCHANGED <<numThreads_, next_, given, joining>>

\* What getNextLoop returns, and the next_ it leaves.
NextLoop == IF loops_ = <<>> THEN baseLoop_ ELSE loops_[next_ + 1]
NextAfter == IF loops_ # <<>> /\ next_ >= Len(loops_) THEN 0 ELSE next_

GetNextLoop ==
  /\ Len(given) < MaxConns
  /\ given' = Append(given, NextLoop)
  /\ next_' = NextAfter
  /\ UNCHANGED <<numThreads_, loops_, joining>>

\* The destructor of threads_ gets to the i-th EventLoopThread.
PoolJoins(i) ==
  /\ i = joining + 1
  /\ joining' = i
  /\ UNCHANGED <<numThreads_, loops_, next_, given>>

\* getLoopForHash and getAllLoops
LoopForHash(hashCode) ==
  IF loops_ = <<>> THEN baseLoop_ ELSE loops_[(hashCode % Len(loops_)) + 1]
GetAllLoops == IF loops_ = <<>> THEN <<baseLoop_>> ELSE loops_

==========================================================================
