--------------------------- MODULE InetAddress ---------------------------
(***************************************************************************)
(* The addresses of the two ends (InetAddress.cpp, Socket.cpp).  A           *)
(* sockaddr_in is a family, a port in network order and four bytes of an     *)
(* address; a byte is 0..255.  Texts are left out: the text of an address    *)
(* is its four bytes, the text of a port the number.                         *)
(***************************************************************************)
EXTENDS Integers

Byte == 0..255
Ip == [1..4 -> Byte]
Port16 == 0..65535

\* What a sockaddr_in may hold.  The family is one number here, of two bytes.
SockAddr == [family : Nat, port : [1..2 -> Byte], ip : Ip]

AF_INET == 2
INADDR_NONE == <<255, 255, 255, 255>>

Htons(p) == <<p \div 256, p % 256>>
Ntohs(b) == b[1] * 256 + b[2]

\* inet_addr: a text that is no address gives INADDR_NONE, which nobody tests for.
InetAddr(text) == IF text \in Ip THEN text ELSE INADDR_NONE

\* InetAddress(port, ip)
NewInetAddress(port, text) ==
  [family |-> AF_INET, port |-> Htons(port), ip |-> InetAddr(text)]

Port(addr) == Ntohs(addr.port)
ToIp(addr) == addr.ip
ToPort(addr) == Port(addr)
ToIpPort(addr) == <<ToIp(addr), ToPort(addr)>>

\* Of the bytes s, which begin at offset `from`, the first len of the structure were
\* written; memset had cleared the others.
Kept(s, from, len) == [i \in DOMAIN s |-> IF from + i <= len THEN s[i] ELSE 0]

\* Socket::accept: the peer address as handleRead gets it.  len, which nobody sets, is
\* how much of it the kernel may write.  At offset 0 the family, at 2 the port.
Accept(peer, len) ==
  [family |-> IF len < 1 THEN 0 ELSE peer.family,
   port   |-> Kept(peer.port, 2, len),
   ip     |-> Kept(peer.ip, 4, len)]

===========================================================================
