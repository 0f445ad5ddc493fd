-------------------------- MODULE ChannelProofs --------------------------
(***************************************************************************)
(* Proofs about Channel: each function that changes a channel keeps it in   *)
(* step with the poller, whatever was called before it.  The records are    *)
(* taken apart field by field, the form in which the provers know them.     *)
(***************************************************************************)
EXTENDS Channel, TLAPS

InStep(c) == c \in ChannelType /\ InSync(c)

\* A channel begins in step, unknown to the poller.
LEMMA NewChannelInStep == InStep(NewChannel) /\ NewChannel.epoll = {}
BY DEF InStep, NewChannel, ChannelType, kIndexes, InSync, HasChannel

\* A channel of the right type is in step when it is in epoll for what it asks, or taken
\* out of epoll, or unknown to the poller.
LEMMA ThreeWaysInStep ==
  ASSUME NEW r \in ChannelType, r.failed = FALSE,
         \/ r.index = "kAdded" /\ r.epoll = {r.events} /\ r.mapped
         \/ r.index = "kDeleted" /\ r.epoll = {} /\ r.mapped
         \/ r.index = "kNew" /\ r.epoll = {} /\ ~r.mapped
  PROVE  InStep(r)
BY DEF InStep, InSync, HasChannel

\* What is known of a channel in step.
LEMMA WhatInStepSays ==
  ASSUME NEW c, InStep(c)
  PROVE  /\ c \in ChannelType /\ c.failed = FALSE /\ c.events \in SUBSET kEvents
         /\ c.index \in kIndexes
         /\ c.index = "kAdded" <=> c.epoll # {}
         /\ c.index = "kNew" <=> ~c.mapped
         /\ c.epoll \subseteq {c.events}
BY DEF InStep, InSync, HasChannel, ChannelType

\* Setting the events changes nothing else.
LEMMA SetEvents ==
  ASSUME NEW c \in ChannelType, NEW es \in SUBSET kEvents,
         NEW d, d = [c EXCEPT !.events = es]
  PROVE  /\ d \in ChannelType
         /\ d.events = es /\ d.index = c.index /\ d.epoll = c.epoll
         /\ d.mapped = c.mapped /\ d.failed = c.failed
BY DEF ChannelType

\* Setting the index changes nothing else.
LEMMA SetIndex ==
  ASSUME NEW c \in ChannelType, NEW i \in kIndexes, NEW d, d = [c EXCEPT !.index = i]
  PROVE  /\ d \in ChannelType
         /\ d.events = c.events /\ d.index = i /\ d.epoll = c.epoll
         /\ d.mapped = c.mapped /\ d.failed = c.failed
BY DEF ChannelType

\* Forgetting a channel changes its index and its place in the map only.
LEMMA SetForgotten ==
  ASSUME NEW c \in ChannelType, NEW d, d = [c EXCEPT !.index = "kNew", !.mapped = FALSE]
  PROVE  /\ d \in ChannelType
         /\ d.events = c.events /\ d.index = "kNew" /\ d.epoll = c.epoll
         /\ ~d.mapped /\ d.failed = c.failed
BY DEF ChannelType, kIndexes

\* epoll_ctl, called with an operation that cannot fail.
LEMMA EpollCtlWorks ==
  ASSUME NEW c \in ChannelType, NEW op \in {"add", "mod", "del"},
         (op = "add") <=> (c.epoll = {}), NEW d, d = EpollCtl(op, c)
  PROVE  /\ d \in ChannelType
         /\ d.epoll = IF op = "del" THEN {} ELSE {c.events}
         /\ d.events = c.events /\ d.index = c.index
         /\ d.mapped = c.mapped /\ d.failed = c.failed
<1> DEFINE m == IF op = "del" THEN {} ELSE {c.events}
<1>1. d = [c EXCEPT !.epoll = m]
  BY DEF EpollCtl
<1>2. m \in SUBSET SUBSET kEvents
  BY DEF ChannelType
<1> HIDE DEF m
<1>3. /\ d \in ChannelType /\ d.epoll = m
      /\ d.events = c.events /\ d.index = c.index
      /\ d.mapped = c.mapped /\ d.failed = c.failed
  BY <1>1, <1>2 DEF ChannelType
<1> QED
  BY <1>3 DEF m

\* updateChannel after the events of a channel in step were changed to es: epoll_ctl is
\* called with the one operation that cannot fail, and epoll then waits for es.
LEMMA UpdateInStep ==
  ASSUME NEW c, InStep(c), NEW es \in SUBSET kEvents
  PROVE  /\ InStep(Update([c EXCEPT !.events = es]))
         /\ Update([c EXCEPT !.events = es]).events = es
         /\ Update([c EXCEPT !.events = es]).epoll
              = IF c.epoll # {} /\ es = {} THEN {} ELSE {es}
<1> DEFINE d == [c EXCEPT !.events = es]
<1>1. /\ c \in ChannelType /\ c.failed = FALSE /\ c.index \in kIndexes
      /\ c.index = "kAdded" <=> c.epoll # {}
      /\ c.index = "kNew" <=> ~c.mapped
  BY WhatInStepSays
<1>0. d = [c EXCEPT !.events = es]
  OBVIOUS
<1> HIDE DEF d
<1>2. /\ d \in ChannelType
      /\ d.events = es /\ d.index = c.index /\ d.epoll = c.epoll
      /\ d.mapped = c.mapped /\ d.failed = c.failed
  BY <1>0, <1>1, SetEvents
<1>3. CASE c.index \in {"kNew", "kDeleted"}
  <2> DEFINE f == [d EXCEPT !.index = "kAdded", !.mapped = @ \/ d.index = "kNew"]
             e == EpollCtl("add", f)
  <2>1. UpdateChannel(d) = e
    BY <1>2, <1>3 DEF UpdateChannel
  <2>0. f = [d EXCEPT !.index = "kAdded", !.mapped = @ \/ d.index = "kNew"]
    OBVIOUS
  <2> HIDE DEF f
  <2>2. /\ f \in ChannelType
        /\ f.events = es /\ f.index = "kAdded" /\ f.epoll = c.epoll
        /\ f.mapped <=> d.mapped \/ d.index = "kNew"
        /\ f.failed = FALSE
    BY <1>1, <1>2, <2>0 DEF ChannelType, kIndexes
  <2>3. f.epoll = {} /\ f.mapped
    BY <1>1, <1>2, <1>3, <2>2
  <2>6. e = EpollCtl("add", f)
    OBVIOUS
  <2> HIDE DEF e
  <2>4. /\ e \in ChannelType /\ e.epoll = {f.events} /\ e.events = f.events
        /\ e.index = f.index /\ e.mapped = f.mapped /\ e.failed = f.failed
    BY <2>2, <2>3, <2>6, EpollCtlWorks, ZenonT(60)
  <2>5. InStep(e) /\ e.events = es /\ e.epoll = {es} /\ c.epoll = {}
    BY <1>1, <1>3, <2>2, <2>3, <2>4, ThreeWaysInStep
  <2> QED
    BY <2>1, <2>5 DEF Update, d
<1>4. CASE c.index = "kAdded"
  <2>1. d.epoll # {} /\ c.mapped
    BY <1>1, <1>2, <1>4
  <2>2. CASE es = {}
    <3> DEFINE f == EpollCtl("del", d)
               e == [f EXCEPT !.index = "kDeleted"]
    <3>1. UpdateChannel(d) = e
      BY <1>2, <1>4, <2>2 DEF UpdateChannel, IsNoneEvent
    <3>2. /\ f \in ChannelType /\ f.epoll = {} /\ f.events = es
          /\ f.mapped = c.mapped /\ f.failed = FALSE
      BY <1>1, <1>2, <2>1, EpollCtlWorks
    <3> HIDE DEF f
    <3>0. e = [f EXCEPT !.index = "kDeleted"] /\ "kDeleted" \in kIndexes
      BY DEF kIndexes
    <3> HIDE DEF e
    <3>3. /\ e \in ChannelType /\ e.index = "kDeleted" /\ e.epoll = {}
          /\ e.events = es /\ e.mapped = c.mapped /\ e.failed = FALSE
      BY <3>0, <3>2, SetIndex
    <3>4. InStep(e)
      BY <2>1, <3>3, ThreeWaysInStep
    <3> QED
      BY <1>1, <1>4, <2>2, <3>1, <3>3, <3>4 DEF Update, d
  <2>3. CASE es # {}
    <3> DEFINE e == EpollCtl("mod", d)
    <3>1. UpdateChannel(d) = e
      BY <1>2, <1>4, <2>3 DEF UpdateChannel, IsNoneEvent
    <3>0. e = EpollCtl("mod", d)
      OBVIOUS
    <3> HIDE DEF e
    <3>2. /\ e \in ChannelType /\ e.epoll = {es} /\ e.events = es
          /\ e.index = "kAdded" /\ e.mapped = c.mapped /\ e.failed = FALSE
      <4>1. ("mod" = "add") <=> (d.epoll = {})
        BY <2>1
      <4>2. /\ e \in ChannelType /\ e.epoll = {d.events} /\ e.events = d.events
            /\ e.index = d.index /\ e.mapped = d.mapped /\ e.failed = d.failed
        BY <1>2, <3>0, <4>1, EpollCtlWorks
      <4> QED
        BY <1>1, <1>2, <1>4, <4>2
    <3>3. InStep(e)
      BY <2>1, <3>2, ThreeWaysInStep
    <3> QED
      BY <2>3, <3>1, <3>2, <3>3 DEF Update, d
  <2> QED
    BY <2>2, <2>3
<1> QED
  BY <1>1, <1>3, <1>4 DEF kIndexes

\* The functions of Channel.h.
LEMMA EnablesInStep ==
  ASSUME NEW c, InStep(c)
  PROVE  /\ InStep(EnableReading(c)) /\ EnableReading(c).events = c.events \cup {"in"}
         /\ InStep(EnableWriting(c)) /\ EnableWriting(c).events = c.events \cup {"out"}
         /\ EnableReading(c).epoll # {} /\ EnableWriting(c).epoll # {}
<1>1. /\ c.events \cup {"in"} \in SUBSET kEvents
      /\ c.events \cup {"out"} \in SUBSET kEvents
  BY DEF InStep, ChannelType, kEvents
<1>2. /\ EnableReading(c) = Update([c EXCEPT !.events = c.events \cup {"in"}])
      /\ EnableWriting(c) = Update([c EXCEPT !.events = c.events \cup {"out"}])
  BY DEF EnableReading, EnableWriting
<1>3. ASSUME NEW es \in SUBSET kEvents, es # {}
      PROVE  /\ InStep(Update([c EXCEPT !.events = es]))
             /\ Update([c EXCEPT !.events = es]).events = es
             /\ Update([c EXCEPT !.events = es]).epoll # {}
  <2>1. Update([c EXCEPT !.events = es]).epoll = {es}
    BY <1>3, UpdateInStep
  <2> QED
    BY <2>1, UpdateInStep
<1> QED
  BY <1>1, <1>2, <1>3

\* The functions that take events back.
LEMMA DisablesInStep ==
  ASSUME NEW c, InStep(c)
  PROVE  /\ InStep(DisableReading(c)) /\ DisableReading(c).events = c.events \ {"in"}
         /\ InStep(DisableWriting(c)) /\ DisableWriting(c).events = c.events \ {"out"}
         /\ InStep(DisableAll(c)) /\ DisableAll(c).events = {}
         /\ "in" \in c.events => DisableWriting(c).epoll # {}
         /\ c.epoll # {} => DisableAll(c).epoll = {}
<1> DEFINE in == c.events \ {"in"}
           out == c.events \ {"out"}
<1>1. in \in SUBSET kEvents /\ out \in SUBSET kEvents
  BY DEF InStep, ChannelType
<1>2. /\ DisableReading(c) = Update([c EXCEPT !.events = in])
      /\ DisableWriting(c) = Update([c EXCEPT !.events = out])
      /\ DisableAll(c) = Update([c EXCEPT !.events = {}])
  BY DEF DisableReading, DisableWriting, DisableAll
<1> HIDE DEF in, out
<1>3. /\ InStep(DisableReading(c)) /\ DisableReading(c).events = in
      /\ InStep(DisableWriting(c)) /\ DisableWriting(c).events = out
      /\ out # {} => DisableWriting(c).epoll # {}
  <2>1. ASSUME NEW es \in SUBSET kEvents
        PROVE  /\ InStep(Update([c EXCEPT !.events = es]))
               /\ Update([c EXCEPT !.events = es]).events = es
               /\ es # {} => Update([c EXCEPT !.events = es]).epoll # {}
    <3>1. es # {} => Update([c EXCEPT !.events = es]).epoll = {es}
      BY UpdateInStep
    <3> QED
      BY <3>1, UpdateInStep
  <2> QED
    BY <1>1, <1>2, <2>1
<1>4. /\ InStep(DisableAll(c)) /\ DisableAll(c).events = {}
      /\ c.epoll # {} => DisableAll(c).epoll = {}
  <2>1. {} \in SUBSET kEvents
    OBVIOUS
  <2> QED
    BY <1>2, <2>1, UpdateInStep, ZenonT(60)
<1> QED
  BY <1>3, <1>4 DEF in, out

\* removeChannel takes a channel in step out of epoll and of channels_, whether or not
\* it was there, and leaves it as good as new.
LEMMA RemoveInStep ==
  ASSUME NEW c, InStep(c)
  PROVE  /\ InStep(Remove(c)) /\ Remove(c).events = c.events
         /\ Remove(c).epoll = {} /\ ~HasChannel(Remove(c))
<1> DEFINE f == IF c.index = "kAdded" THEN EpollCtl("del", c) ELSE c
           e == [f EXCEPT !.index = "kNew", !.mapped = FALSE]
<1>1. Remove(c) = e
  BY DEF Remove, RemoveChannel
<1>2. c \in ChannelType /\ c.failed = FALSE /\ (c.index = "kAdded" <=> c.epoll # {})
  BY WhatInStepSays
<1>3. f \in ChannelType /\ f.events = c.events /\ f.epoll = {} /\ f.failed = FALSE
  <2>1. CASE c.index = "kAdded"
    <3>1. ~("del" = "add") /\ c.epoll # {}
      BY <1>2, <2>1
    <3> DEFINE g == EpollCtl("del", c)
    <3>0. g = EpollCtl("del", c) /\ f = g
      BY <2>1
    <3> HIDE DEF f, g
    <3>2. g \in ChannelType /\ g.events = c.events /\ g.epoll = {} /\ g.failed = c.failed
      BY <1>2, <3>0, <3>1, EpollCtlWorks
    <3> QED
      BY <1>2, <3>0, <3>2
  <2>2. CASE c.index # "kAdded"
    BY <1>2, <2>2
  <2> QED
    BY <2>1, <2>2
<1> HIDE DEF f
<1>0. e = [f EXCEPT !.index = "kNew", !.mapped = FALSE]
  OBVIOUS
<1> HIDE DEF e
<1>4. /\ e \in ChannelType /\ e.events = c.events /\ e.index = "kNew" /\ e.epoll = {}
      /\ ~e.mapped /\ e.failed = FALSE
  BY <1>0, <1>3, SetForgotten
<1>5. InStep(e)
  BY <1>4, ThreeWaysInStep
<1> QED
  BY <1>1, <1>4, <1>5 DEF HasChannel

\* In particular, whatever is called on a channel, in whatever order, no epoll_ctl fails
\* and epoll waits for exactly what the channel asks: every function of Channel.h that
\* reaches the poller takes a channel in step to a channel in step.
THEOREM ChannelStaysInStep ==
  /\ InStep(NewChannel)
  /\ \A c : InStep(c) =>
       /\ InStep(EnableReading(c)) /\ InStep(DisableReading(c))
       /\ InStep(EnableWriting(c)) /\ InStep(DisableWriting(c))
       /\ InStep(DisableAll(c)) /\ InStep(Remove(c))
<1>1. InStep(NewChannel)
  BY NewChannelInStep
<1>2. ASSUME NEW c, InStep(c)
      PROVE  /\ InStep(EnableReading(c)) /\ InStep(DisableReading(c))
             /\ InStep(EnableWriting(c)) /\ InStep(DisableWriting(c))
             /\ InStep(DisableAll(c)) /\ InStep(Remove(c))
  BY <1>2, EnablesInStep, DisablesInStep, RemoveInStep
<1> QED
  BY <1>1, <1>2

==========================================================================
