---------------------------- MODULE Connection ----------------------------
(***************************************************************************)
(* What a TcpConnection promises to its user and to its server, with no     *)
(* loop, no socket and no queue: it comes up once and goes down at most      *)
(* once; a closing is told to the server, which lets go of the connection    *)
(* for that reason or for its own end; and it is destroyed only then, the    *)
(* user told first if it was still up.  TcpConnection and ConnectionLifetime *)
(* implement it in full; TcpServer, which knows of a connection only this,   *)
(* takes no other step.                                                     *)
(***************************************************************************)
EXTENDS Sequences

VARIABLES
  state,
  callbacks,    \* what the user saw: "up" and "down"
  destroyed,
  place         \* the server "has" it, was "told" of its closing, or it has "left"

vars == <<state, callbacks, destroyed, place>>

Init ==
  /\ state = "kConnecting"
  /\ callbacks = <<>>
  /\ destroyed = FALSE
  /\ place = "has"

ComesUp ==
  /\ state = "kConnecting"
  /\ state' = "kConnected"
  /\ callbacks' = <<"up">>
  /\ UNCHANGED <<destroyed, place>>

GoesDown ==
  /\ state' = "kDisconnected"
  /\ callbacks' = <<"up", "down">>

\* The user closes its side: nothing is told to anybody.
IsShutDown ==
  /\ state = "kConnected"
  /\ ~destroyed
  /\ state' = "kDisconnecting"
  /\ UNCHANGED <<callbacks, destroyed, place>>

\* The peer is gone; a server that still has the connection hears of it, and may let go
\* of it at once.
Closes ==
  /\ state \in {"kConnected", "kDisconnecting"}
  /\ ~destroyed
  /\ GoesDown
  /\ place' \in IF place = "left" THEN {"left"} ELSE {"told", "left"}
  /\ UNCHANGED destroyed

Leaves ==
  /\ place # "left"
  /\ place' = "left"
  /\ UNCHANGED <<state, callbacks, destroyed>>

\* The server that is going away may let go of it in the same step.
IsDestroyed ==
  /\ state # "kConnecting"
  /\ ~destroyed
  /\ destroyed' = TRUE
  /\ place' = "left"
  /\ IF state = "kConnected" THEN GoesDown ELSE UNCHANGED <<state, callbacks>>

Next == ComesUp \/ IsShutDown \/ Closes \/ Leaves \/ IsDestroyed

Spec == Init /\ [][Next]_vars

===========================================================================
