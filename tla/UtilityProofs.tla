--------------------------- MODULE UtilityProofs ---------------------------
(***************************************************************************)
(* Proofs about the two modules every thread uses: a line of Logger shows   *)
(* nothing left over from an earlier call, and what InetAddress does to a   *)
(* port and to an address.                                                  *)
(***************************************************************************)
EXTENDS Logger, InetAddress, TLAPS

--------------------------------------------------------------------------
(* The Logger.                                                              *)

\* What a line may hold.
Line == [call : Nat, level : LogLevel, tag : LogLevel \cup {"unset"}, stamp : Nat,
         others : SUBSET (Nat \X LogLevel)]

LoggerType ==
  /\ logLevel_ \in LogLevel \cup {"unset"}
  /\ tm \in Nat
  /\ calls \in Nat
  /\ at \in [Threads -> {"idle", "tag", "localtime", "stamp", "write"}]
  /\ line \in [Threads -> Line]

\* The calls whose level or time the line may show.
Near(l) == l.others \cup {Named(l)}

TagIsNear(l, tag) == \E o \in Near(l) : tag = Shown(o[2])
TimeIsNear(l, time) == \E o \in Near(l) : time = o[1]

\* All calls under way know of each other, and what a step reads next, or has read, is of
\* a call that this one knows of.
LoggerInv ==
  /\ LoggerType
  /\ \A t, u \in Busy : Named(line[u]) \in Near(line[t])
  /\ \A t \in Threads :
       /\ at[t] = "tag" => TagIsNear(line[t], logLevel_)
       /\ at[t] \in {"localtime", "stamp", "write"} => TagIsNear(line[t], line[t].tag)
       /\ at[t] = "stamp" => TimeIsNear(line[t], tm)
       /\ at[t] = "write" => TimeIsNear(line[t], line[t].stamp)
  /\ ShownIsOfAnOverlap

\* No call is under way and no line written at the start.
LEMMA LoggerInitInv == Init => LoggerInv
BY DEF Init, LoggerInv, LoggerType, Line, NewLine, LogLevel, Busy, ShownIsOfAnOverlap

\* Every step keeps the types of the variables.
LEMMA LoggerTypeStep == LoggerType /\ [Next]_vars => LoggerType'
<1> SUFFICES ASSUME LoggerType, [Next]_vars PROVE LoggerType'
  OBVIOUS
<1> USE DEF LoggerType
<1>1. ASSUME NEW t \in Threads, NEW level \in LogLevel, Log(t, level) PROVE LoggerType'
  <2>1. \A o \in Threads : Named(line[o]) \in Nat \X LogLevel
    BY DEF Named, Line
  <2>2. Shown(level) \in LogLevel
    BY DEF Shown, LogLevel
  <2>3. NewLine(calls + 1, level, {Named(line[o]) : o \in Busy}) \in Line
    BY <2>1 DEF NewLine, Line, Busy
  <2>4. \A u \in Threads : [line[u] EXCEPT !.others = @ \cup {<<calls + 1, level>>}] \in Line
    BY DEF Line
  <2>5. line' \in [Threads -> Line]
    BY <1>1, <2>3, <2>4 DEF Log
  <2>6. /\ calls' = calls + 1 /\ tm' = tm /\ logLevel_' = Shown(level)
        /\ at' = [at EXCEPT ![t] = "tag"]
    BY <1>1 DEF Log, SetLogLevel
  <2> QED
    BY <2>2, <2>5, <2>6
<1>2. ASSUME NEW t \in Threads, Tag(t) PROVE LoggerType'
  BY <1>2 DEF Tag, Step, Line
<1>3. ASSUME NEW t \in Threads, LocalTime(t) PROVE LoggerType'
  BY <1>3 DEF LocalTime, Step, Line
<1>4. ASSUME NEW t \in Threads, Stamp(t) PROVE LoggerType'
  BY <1>4 DEF Stamp, Step, Line
<1>5. ASSUME NEW t \in Threads, Write(t) PROVE LoggerType'
  BY <1>5 DEF Write, Step
<1>6. CASE UNCHANGED vars
  BY <1>6 DEF vars
<1> QED
  BY <1>1, <1>2, <1>3, <1>4, <1>5, <1>6 DEF Next

\* Every step keeps the invariant: a call that begins is made known to those under way and
\* they to it; what one of them then puts into logLevel_ or tm is of a call they all know.
LEMMA LoggerStepInv == LoggerInv /\ [Next]_vars => LoggerInv'
<1> SUFFICES ASSUME LoggerInv, [Next]_vars PROVE LoggerInv'
  OBVIOUS
<1> DEFINE Of(t) ==
       /\ at[t] = "tag" => TagIsNear(line[t], logLevel_)
       /\ at[t] \in {"localtime", "stamp", "write"} => TagIsNear(line[t], line[t].tag)
       /\ at[t] = "stamp" => TimeIsNear(line[t], tm)
       /\ at[t] = "write" => TimeIsNear(line[t], line[t].stamp)
<1>0. LoggerType /\ LoggerType'
  BY LoggerTypeStep DEF LoggerInv
<1>a. /\ \A t, u \in Busy : Named(line[u]) \in Near(line[t])
      /\ \A t \in Threads : Of(t)
      /\ ShownIsOfAnOverlap
  BY DEF LoggerInv
<1>1. ASSUME NEW t \in Threads, NEW level \in LogLevel, Log(t, level) PROVE LoggerInv'
  <2>1. Busy' = Busy \cup {t} /\ t \notin Busy /\ Busy \subseteq Threads
    BY <1>0, <1>1 DEF Log, Busy, LoggerType
  <2>2. /\ line'[t].call = calls + 1 /\ line'[t].level = level
        /\ line'[t].others = {Named(line[o]) : o \in Busy}
    BY <1>1 DEF Log, NewLine
  <2>3. \A u \in Busy : /\ line'[u].call = line[u].call /\ line'[u].level = line[u].level
                        /\ line'[u].others = line[u].others \cup {<<calls + 1, level>>}
                        /\ line'[u].tag = line[u].tag /\ line'[u].stamp = line[u].stamp
    BY <1>0, <1>1, <2>1 DEF Log, LoggerType, Line
  <2>4. Named(line'[t]) = <<calls + 1, level>> /\ \A u \in Busy : Named(line'[u]) = Named(line[u])
    BY <2>2, <2>3 DEF Named
  <2>5. /\ Near(line'[t]) = {Named(line[o]) : o \in Busy} \cup {<<calls + 1, level>>}
        /\ \A u \in Busy : Near(line'[u]) = Near(line[u]) \cup {<<calls + 1, level>>}
    BY <2>2, <2>3, <2>4 DEF Near
  <2>6. \A v, u \in Busy' : Named(line'[u]) \in Near(line'[v])
    BY <1>a, <2>1, <2>4, <2>5
  <2>7. \A u \in Busy' : TagIsNear(line'[u], logLevel_')
    <3>1. logLevel_' = Shown(<<calls + 1, level>>[2])
      BY <1>1 DEF Log, SetLogLevel
    <3> QED
      BY <2>1, <2>5, <3>1 DEF TagIsNear
  <2>8. \A u \in Busy : /\ at'[u] = at[u]
                        /\ TagIsNear(line[u], line[u].tag) => TagIsNear(line'[u], line'[u].tag)
                        /\ TimeIsNear(line[u], tm) => TimeIsNear(line'[u], tm')
                        /\ TimeIsNear(line[u], line[u].stamp) => TimeIsNear(line'[u], line'[u].stamp)
    BY <1>0, <1>1, <2>1, <2>3, <2>5 DEF Log, TagIsNear, TimeIsNear, LoggerType
  <2>9. at'[t] = "tag"
    BY <1>0, <1>1 DEF Log, LoggerType
  <2>10. \A u \in Threads : at'[u] # "idle" => u \in Busy'
    BY DEF Busy
  <2>11. \A u \in Threads : Of(u)'
    BY <1>a, <2>1, <2>7, <2>8, <2>9, <2>10
  <2>12. ShownIsOfAnOverlap'
    BY <1>1, <1>a DEF Log, ShownIsOfAnOverlap
  <2> QED
    BY <1>0, <2>6, <2>11, <2>12 DEF LoggerInv
<1>2. ASSUME NEW t \in Threads, Tag(t) PROVE LoggerInv'
  <2>1. Busy' = Busy /\ t \in Busy
    BY <1>0, <1>2 DEF Tag, Step, Busy, LoggerType
  <2>2. \A u \in Threads : Named(line'[u]) = Named(line[u]) /\ Near(line'[u]) = Near(line[u])
    BY <1>0, <1>2 DEF Tag, LoggerType, Line, Named, Near
  <2>3. \A v, u \in Busy' : Named(line'[u]) \in Near(line'[v])
    BY <1>a, <2>1, <2>2 DEF Busy
  <2>4. Of(t)'
    <3>1. at[t] = "tag" /\ at'[t] = "localtime" /\ line'[t].tag = logLevel_
      BY <1>0, <1>2 DEF Tag, Step, LoggerType, Line
    <3> QED
      BY <1>a, <2>2, <3>1 DEF TagIsNear
  <2>5. \A u \in Threads \ {t} : Of(u)'
    <3>1. \A u \in Threads \ {t} : at'[u] = at[u] /\ line'[u] = line[u]
      BY <1>0, <1>2 DEF Tag, Step, LoggerType
    <3> QED
      BY <1>2, <1>a, <3>1 DEF Tag, Step
  <2>6. ShownIsOfAnOverlap'
    BY <1>2, <1>a DEF Tag, ShownIsOfAnOverlap
  <2> QED
    BY <1>0, <2>3, <2>4, <2>5, <2>6 DEF LoggerInv
<1>3. ASSUME NEW t \in Threads, LocalTime(t) PROVE LoggerInv'
  <2>1. Busy' = Busy /\ t \in Busy /\ Busy \subseteq Threads
    BY <1>0, <1>3 DEF LocalTime, Step, Busy, LoggerType
  <2>2. /\ line' = line /\ logLevel_' = logLevel_ /\ tm' = Named(line[t])[1]
        /\ at[t] = "localtime" /\ at'[t] = "stamp"
        /\ \A u \in Threads \ {t} : at'[u] = at[u]
    BY <1>0, <1>3 DEF LocalTime, Step, LoggerType, Named
  <2>3. \A v, u \in Busy' : Named(line'[u]) \in Near(line'[v])
    BY <1>a, <2>1, <2>2
  <2>4. \A u \in Busy : TimeIsNear(line'[u], tm')
    BY <1>a, <2>1, <2>2 DEF TimeIsNear
  <2>5. \A u \in Threads : at'[u] # "idle" => u \in Busy
    BY <2>1 DEF Busy
  <2>6. \A u \in Threads : Of(u)'
    BY <1>a, <2>2, <2>4, <2>5
  <2>7. ShownIsOfAnOverlap'
    BY <1>3, <1>a DEF LocalTime, ShownIsOfAnOverlap
  <2> QED
    BY <1>0, <2>3, <2>6, <2>7 DEF LoggerInv
<1>4. ASSUME NEW t \in Threads, Stamp(t) PROVE LoggerInv'
  <2>1. Busy' = Busy /\ t \in Busy
    BY <1>0, <1>4 DEF Stamp, Step, Busy, LoggerType
  <2>2. \A u \in Threads : /\ Named(line'[u]) = Named(line[u]) /\ Near(line'[u]) = Near(line[u])
                           /\ line'[u].tag = line[u].tag
    BY <1>0, <1>4 DEF Stamp, LoggerType, Line, Named, Near
  <2>3. \A v, u \in Busy' : Named(line'[u]) \in Near(line'[v])
    BY <1>a, <2>1, <2>2 DEF Busy
  <2>4. Of(t)'
    <3>1. at[t] = "stamp" /\ at'[t] = "write" /\ line'[t].stamp = tm
      BY <1>0, <1>4 DEF Stamp, Step, LoggerType, Line
    <3> QED
      BY <1>a, <2>2, <3>1 DEF TagIsNear, TimeIsNear
  <2>5. \A u \in Threads \ {t} : Of(u)'
    <3>1. \A u \in Threads \ {t} : at'[u] = at[u] /\ line'[u] = line[u]
      BY <1>0, <1>4 DEF Stamp, Step, LoggerType
    <3> QED
      BY <1>4, <1>a, <3>1 DEF Stamp, Step
  <2>6. ShownIsOfAnOverlap'
    BY <1>4, <1>a DEF Stamp, ShownIsOfAnOverlap
  <2> QED
    BY <1>0, <2>3, <2>4, <2>5, <2>6 DEF LoggerInv
<1>5. ASSUME NEW t \in Threads, Write(t) PROVE LoggerInv'
  <2>1. Busy' \subseteq Busy /\ line' = line
    BY <1>0, <1>5 DEF Write, Step, Busy, LoggerType
  <2>2. \A v, u \in Busy' : Named(line'[u]) \in Near(line'[v])
    BY <1>a, <2>1
  <2>3. \A u \in Threads : Of(u)'
    BY <1>0, <1>5, <1>a DEF Write, Step, LoggerType
  <2>4. TagIsNear(line[t], line[t].tag) /\ TimeIsNear(line[t], line[t].stamp)
    BY <1>5, <1>a DEF Write, Step
  <2>5. lines' = lines \cup {line[t]}
    BY <1>5 DEF Write
  <2>6. ShownIsOfAnOverlap'
    BY <1>a, <2>4, <2>5 DEF ShownIsOfAnOverlap, TagIsNear, TimeIsNear, Near
  <2> QED
    BY <1>0, <2>2, <2>3, <2>6 DEF LoggerInv
<1>6. CASE UNCHANGED vars
  BY <1>6, <1>0, <1>a DEF vars, LoggerInv, Busy, ShownIsOfAnOverlap
<1> QED
  BY <1>1, <1>2, <1>3, <1>4, <1>5, <1>6 DEF Next

\* However many threads log, what a line shows is of its own call or of one that overlapped
\* it.
THEOREM ShownOfAnOverlap == Spec => []ShownIsOfAnOverlap
<1>1. LoggerInv => ShownIsOfAnOverlap
  BY DEF LoggerInv
<1> QED
  BY LoggerInitInv, LoggerStepInv, <1>1, PTL DEF Spec

\* A line that no other call overlapped shows the level of its macro and its own time.
AloneIsRight ==
  \A l \in lines : l.others = {} => l.tag = Shown(l.level) /\ l.stamp = l.call

\* That holds in every reachable state.
THEOREM LoggingAlone == Spec => []AloneIsRight
<1>1. ShownIsOfAnOverlap => AloneIsRight
  BY DEF ShownIsOfAnOverlap, AloneIsRight, Named
<1> QED
  BY ShownOfAnOverlap, <1>1, PTL

--------------------------------------------------------------------------
(* The addresses.                                                           *)

\* Between host and network order no port is changed: htons in the constructor and ntohs
\* in port() and toPort() undo each other, for all 65536 of them.
THEOREM PortRoundTrip ==
  ASSUME NEW p \in Port16
  PROVE  Htons(p) \in [1..2 -> Byte] /\ Ntohs(Htons(p)) = p
<1> DEFINE high == p \div 256
           low == p % 256
<1>1. high \in Byte /\ low \in Byte /\ high * 256 + low = p
  <2>1. /\ p \in Int /\ 0 <= p /\ p <= 65535
        /\ high \in Int /\ low \in 0..255 /\ p = 256 * high + low
    BY SMTT(30) DEF Port16
  <2> HIDE DEF high, low
  <2> QED
    BY <2>1, SMTT(30) DEF Byte
<1>2. Htons(p) = <<high, low>>
  BY DEF Htons
<1> HIDE DEF high, low
<1>3. Htons(p) \in [1..2 -> Byte]
  BY <1>1, <1>2
<1>4. Ntohs(Htons(p)) = high * 256 + low
  BY <1>1, <1>2 DEF Ntohs
<1> QED
  BY <1>1, <1>3, <1>4

\* toIpPort of an address made from a port and a well-formed text gives both back, so
\* that no two addresses a server may listen on are printed alike.
THEOREM IpPortRoundTrip ==
  ASSUME NEW p \in Port16, NEW ip \in Ip
  PROVE  ToIpPort(NewInetAddress(p, ip)) = <<ip, p>>
BY PortRoundTrip DEF ToIpPort, ToIp, ToPort, Port, NewInetAddress, InetAddr

\* A text that is no address is not refused: the server would listen on 255.255.255.255.
THEOREM MalformedIsNone ==
  ASSUME NEW p \in Port16, NEW text, text \notin Ip
  PROVE  ToIpPort(NewInetAddress(p, text)) = <<INADDR_NONE, p>>
BY PortRoundTrip DEF ToIpPort, ToIp, ToPort, Port, NewInetAddress, InetAddr

\* accept with its uninitialized len gives the address of the peer if len happens to be 8
\* or more, and otherwise the right port, or none of it, with an address cut off.
THEOREM AcceptedAddress ==
  ASSUME NEW peer \in SockAddr, NEW len \in Nat
  PROVE  /\ len >= 8 => Accept(peer, len) = peer
         /\ len >= 4 => ToPort(Accept(peer, len)) = ToPort(peer)
         /\ len < 3 => ToPort(Accept(peer, len)) = 0
         /\ len < 5 => ToIp(Accept(peer, len)) = <<0, 0, 0, 0>>
<1>1. /\ peer.port \in [1..2 -> Byte] /\ peer.ip \in [1..4 -> Byte]
      /\ peer = [family |-> peer.family, port |-> peer.port, ip |-> peer.ip]
  BY DEF SockAddr, Ip
<1>2. /\ Accept(peer, len).port = Kept(peer.port, 2, len)
      /\ Accept(peer, len).ip = Kept(peer.ip, 4, len)
  BY DEF Accept
<1>3. ASSUME len >= 8 PROVE Accept(peer, len) = peer
  <2>1. Kept(peer.port, 2, len) = peer.port
    BY <1>1, <1>3 DEF Kept
  <2>2. Kept(peer.ip, 4, len) = peer.ip
    BY <1>1, <1>3 DEF Kept
  <2> QED
    BY <1>1, <1>3, <2>1, <2>2 DEF Accept
<1>4. ASSUME len >= 4 PROVE ToPort(Accept(peer, len)) = ToPort(peer)
  <2>1. Kept(peer.port, 2, len) = peer.port
    BY <1>1, <1>4 DEF Kept
  <2> QED
    BY <1>2, <2>1 DEF ToPort, Port
<1>5. ASSUME len < 3 PROVE ToPort(Accept(peer, len)) = 0
  <2>1. Kept(peer.port, 2, len)[1] = 0 /\ Kept(peer.port, 2, len)[2] = 0
    BY <1>1, <1>5 DEF Kept
  <2> QED
    BY <1>2, <2>1 DEF ToPort, Port, Ntohs
<1>6. ASSUME len < 5 PROVE ToIp(Accept(peer, len)) = <<0, 0, 0, 0>>
  <2>1. Kept(peer.ip, 4, len) = [i \in 1..4 |-> 0]
    BY <1>1, <1>6 DEF Kept
  <2> QED
    BY <1>2, <2>1 DEF ToIp
<1> QED
  BY <1>3, <1>4, <1>5, <1>6

===========================================================================
