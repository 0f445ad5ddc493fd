---------------------------- MODULE TaskQueue ----------------------------
(***************************************************************************)
(* What an EventLoop promises to whoever hands it closures, with no loop,  *)
(* no poller and no wakeup descriptor: a closure is accepted once, closures *)
(* that were queued start in the order in which they were queued, and a     *)
(* closure never starts twice.  A closure handed over on the loop's own     *)
(* thread through runInLoop may start at once, ahead of the queue.          *)
(***************************************************************************)
EXTENDS Sequences

CONSTANT Functors

VARIABLES
  queue,   \* accepted and not started, oldest first
  ran      \* started, in starting order

vars == <<queue, ran>>

\* The closures that occur in a sequence.
Elements(s) == {s[i] : i \in DOMAIN s}

Fresh(f) == f \notin Elements(queue) \cup Elements(ran)

Init == queue = <<>> /\ ran = <<>>

Enqueue(f) ==
  /\ Fresh(f)
  /\ queue' = Append(queue, f)
  /\ UNCHANGED ran

RunNow(f) ==
  /\ Fresh(f)
  /\ ran' = Append(ran, f)
  /\ UNCHANGED queue

RunNext ==
  /\ queue # <<>>
  /\ ran' = Append(ran, Head(queue))
  /\ queue' = Tail(queue)

Next == RunNext \/ \E f \in Functors : Enqueue(f) \/ RunNow(f)

Spec == Init /\ [][Next]_vars

==========================================================================
