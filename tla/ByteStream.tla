---------------------------- MODULE ByteStream ----------------------------
(***************************************************************************)
(* What a Buffer promises: a first-in first-out stream of bytes.  Bytes go  *)
(* in at one end in pieces of any length and leave at the other end in      *)
(* pieces of any other length; none is lost, changed, repeated or moved.    *)
(* Who asks for more bytes than there are gets them all, and as many bytes  *)
(* of no meaning as were asked for in excess.                              *)
(***************************************************************************)
EXTENDS Naturals, Sequences

CONSTANT Bytes

VARIABLES
  stream,
  piece,    \* the bytes that went in or came out last
  excess    \* how many of these were never in the stream

vars == <<stream, piece, excess>>

Init == stream = <<>> /\ piece = <<>> /\ excess = 0

\* A piece is put at the end.
Put ==
  /\ piece' \in Seq(Bytes)
  /\ stream' = stream \o piece'
  /\ excess' = 0

\* The first n bytes are taken.
Take(n) ==
  /\ piece' = SubSeq(stream, 1, n)
  /\ stream' = SubSeq(stream, n + 1, Len(stream))
  /\ excess' = 0

\* More than all bytes are asked for.
TakeTooMany ==
  /\ excess' \in Nat \ {0}
  /\ Len(piece') = Len(stream) + excess'
  /\ SubSeq(piece', 1, Len(stream)) = stream
  /\ stream' = <<>>

Next ==
  \/ Put
  \/ \E n \in 0..Len(stream) : Take(n)
  \/ TakeTooMany

Spec == Init /\ [][Next]_vars

===========================================================================
