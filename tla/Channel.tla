----------------------------- MODULE Channel -----------------------------
(***************************************************************************)
(* A Channel and what the EPollPoller of its loop knows about it            *)
(* (Channel.h, Channel.cpp, EPollPoller.cpp).  A channel is a record:       *)
(*   events  the events it asks for, EPOLLIN and EPOLLPRI together as "in"  *)
(*   index   kNew, kAdded or kDeleted: what the poller believes             *)
(*   epoll   what the kernel knows: {} when the fd is not in the epoll set, *)
(*           {m} when it is, with interest m                                *)
(*   mapped  the poller's channels_ points to it                            *)
(*   failed  an epoll_ctl of this fd failed                                 *)
(* The fd is the channel's own: its connection closes it after the channel   *)
(* was removed, if ConnectionLifetime is right.                             *)
(***************************************************************************)

kEvents == {"in", "out"}
kIndexes == {"kNew", "kAdded", "kDeleted"}

\* A channel as its constructor leaves it.
NewChannel ==
  [events |-> {}, index |-> "kNew", epoll |-> {}, mapped |-> FALSE, failed |-> FALSE]

ChannelType ==
  [events : SUBSET kEvents, index : kIndexes,
   epoll : SUBSET SUBSET kEvents, mapped : BOOLEAN, failed : BOOLEAN]

\* EPollPoller::update.  The kernel refuses to add what is there (EEXIST) and to
\* modify or delete what is not (ENOENT).
EpollCtl(op, c) ==
  IF (op = "add") <=> (c.epoll = {})
  THEN [c EXCEPT !.epoll = IF op = "del" THEN {} ELSE {c.events}]
  ELSE [c EXCEPT !.failed = TRUE]

IsNoneEvent(c) == c.events = {}

\* EPollPoller::updateChannel
UpdateChannel(c) ==
  IF c.index \in {"kNew", "kDeleted"}
  THEN EpollCtl("add", [c EXCEPT !.index = "kAdded", !.mapped = @ \/ c.index = "kNew"])
  ELSE IF IsNoneEvent(c)
       THEN [EpollCtl("del", c) EXCEPT !.index = "kDeleted"]
       ELSE EpollCtl("mod", c)

\* Mutant of RemoveChannel: the fd stays in the epoll set.
RemoveChannelNoDel(c) == [c EXCEPT !.index = "kNew", !.mapped = FALSE]

\* EPollPoller::removeChannel
RemoveChannel(c) ==
  [(IF c.index = "kAdded" THEN EpollCtl("del", c) ELSE c)
     EXCEPT !.index = "kNew", !.mapped = FALSE]

\* Poller::hasChannel
HasChannel(c) == c.mapped

\* Channel::update and Channel::remove: through the channel's loop to its poller.
Update(c) == UpdateChannel(c)
Remove(c) == RemoveChannel(c)

EnableReading(c) == Update([c EXCEPT !.events = @ \cup {"in"}])
DisableReading(c) == Update([c EXCEPT !.events = @ \ {"in"}])

\* Mutant of EnableWriting: the poller is not told.
EnableWritingNoUpdate(c) == [c EXCEPT !.events = @ \cup {"out"}]

EnableWriting(c) == Update([c EXCEPT !.events = @ \cup {"out"}])

\* Mutant of DisableWriting: the poller is not told.
DisableWritingNoUpdate(c) == [c EXCEPT !.events = @ \ {"out"}]

DisableWriting(c) == Update([c EXCEPT !.events = @ \ {"out"}])
DisableAll(c) == Update([c EXCEPT !.events = {}])

IsWriting(c) == "out" \in c.events

\* What epoll_wait reports of a channel whose socket is in these conditions: the
\* ones it asks for, and "hup" and "err" unasked.
Reported(c, conditions) ==
  {e \in conditions : \E m \in c.epoll : e \in m \cup {"hup", "err"}}

\* The poller's belief is what epoll does: updateChannel picks the right one of ADD,
\* MOD and DEL, so that no epoll_ctl fails (a failed ADD or MOD ends the process),
\* epoll waits for what the channel asks, and no channel in it is missing from the map.
InSync(c) ==
  /\ ~c.failed
  /\ c.index = "kAdded" <=> c.epoll # {}
  /\ c.epoll \subseteq {c.events}
  /\ c.index = "kNew" <=> ~HasChannel(c)

==========================================================================
