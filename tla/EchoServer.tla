---------------------------- MODULE EchoServer ----------------------------
(***************************************************************************)
(* The two programs of the repository, testServer.cpp and                   *)
(* echoServerExample/echoServer.cpp: a server whose callbacks send back what *)
(* came in, the second one shutting the connection down after each message.  *)
(* Here they are the user code of one TcpConnection, on the loop that         *)
(* setThreadNum(3) gave it; a message of the peer is one byte.  main never    *)
(* leaves loop(), so the server is never destroyed.                          *)
(***************************************************************************)
EXTENDS TcpConnection

CONSTANT ShutsDown     \* echoServer.cpp: TRUE; in testServer.cpp it is commented out

\* No other thread has the connection: Senders and Shutters are empty.

VARIABLES
  msg,      \* bytes in the string onMessage sends
  step      \* what onMessage does next: "send", "shutdown" or "return"

echoVars == <<vars, msg, step>>

EchoInit == Init /\ msg = 0 /\ step = "return"

\* handleRead calls onMessage, which takes all that is in the buffer; onConnection only
\* prints, so that the other callbacks return at once.
EchoLoop ==
  /\ InUserCode => step = "return"
  /\ LoopStep
  /\ IF pc = "event" /\ pc' = "handler"
     THEN msg' = inbox /\ step' = "send"
     ELSE UNCHANGED <<msg, step>>

\* conn->send(msg); it tests state_.
EchoSend ==
  /\ step = "send"
  /\ \/ Send([i \in 1..msg |-> <<Loop, sent[Loop] + i>>])
     \/ state_ # "kConnected" /\ UNCHANGED vars
  /\ step' = IF ShutsDown THEN "shutdown" ELSE "return"
  /\ UNCHANGED msg

\* conn->shutdown()
EchoShutdown ==
  /\ step = "shutdown"
  /\ \/ Shutdown
     \/ state_ # "kConnected" /\ UNCHANGED vars
  /\ step' = "return"
  /\ UNCHANGED msg

\* Bound: the peer sends no more than MaxBytes in all.
EchoPeer ==
  /\ \/ sent[Loop] + msg + inbox < MaxBytes /\ PeerSends
     \/ PeerCloses \/ PeerResets \/ PeerAcks
  /\ UNCHANGED <<msg, step>>

EchoStep == EchoLoop \/ EchoSend \/ EchoShutdown

EchoNext ==
  \/ EchoStep
  \/ RemoveConnectionInLoop /\ UNCHANGED <<msg, step>>
  \/ EchoPeer

\* As in TcpConnection; the callbacks run to their end.
EchoFairness ==
  /\ WF_echoVars(EchoStep)
  /\ WF_echoVars(RemoveConnectionInLoop /\ UNCHANGED <<msg, step>>)
  /\ WF_echoVars(PeerAcks /\ UNCHANGED <<msg, step>>)

EchoSpec == EchoInit /\ [][EchoNext]_echoVars /\ EchoFairness

===========================================================================
