------------------------------ MODULE Buffer ------------------------------
(***************************************************************************)
(* The Buffer of a connection (Buffer.h, Buffer.cpp): a vector of bytes and *)
(* two indexes into it.  Byte i of the vector is buffer_[i + 1].            *)
(*                                                                          *)
(* A write past the end of the vector is undefined: the bytes that do not   *)
(* fit are lost here, and nothing is modelled after it (see Defined).       *)
(* makeSpace is private and never called: it is not in Next, and            *)
(* BufferProofs says what it would do.                                      *)
(***************************************************************************)
EXTENDS Naturals, Sequences

CONSTANTS
  kCheapPrepend,
  kInitialSize,
  ExtraBuf,     \* sizeof extrabuf in readFd
  MaxChunk,     \* the longest piece a caller appends or retrieves
  MaxRead,      \* the most bytes the socket has for one readFd
  Bytes,
  NoByte,       \* what resize fills new room with
  MaxSize       \* bound: no operation that makes the vector longer

ASSUME BufferAssumption ==
  /\ kCheapPrepend \in Nat
  /\ kInitialSize \in Nat \ {0}
  /\ ExtraBuf \in Nat
  /\ MaxChunk \in Nat
  /\ MaxRead \in Nat

VARIABLES
  buffer_, readerIndex_, writeIndex_,
  piece,        \* history: the bytes the last operation put in, took off or handed out
  excess        \* history: how many more than there were it was asked to hand out

vars == <<buffer_, readerIndex_, writeIndex_, piece, excess>>

Blank(n) == [i \in 1..n |-> NoByte]

Init ==
  /\ buffer_ = Blank(kCheapPrepend + kInitialSize)
  /\ readerIndex_ = kCheapPrepend
  /\ writeIndex_ = kCheapPrepend
  /\ piece = <<>>
  /\ excess = 0

ReadableBytes == writeIndex_ - readerIndex_
WritableBytes == Len(buffer_) - writeIndex_
PrependableBytes == readerIndex_

\* The readable bytes, oldest first.
Content == SubSeq(buffer_, readerIndex_ + 1, writeIndex_)

\* Nothing was written past the end so far.
Defined == writeIndex_ <= Len(buffer_)

--------------------------------------------------------------------------

\* data copied into the vector b from index `at` on, as far as it is there.
Copied(b, at, data) ==
  [i \in 1..Len(b) |-> IF i > at /\ i <= at + Len(data) THEN data[i - at] ELSE b[i]]

\* Mutant of Ensured: one byte of room is missed.
EnsuredOffByOne(at, len) ==
  IF Len(buffer_) - at + 1 < len THEN buffer_ \o Blank(Len(buffer_)) ELSE buffer_

\* ensureWritableBytes(len), when the next byte goes to index `at`.
Ensured(at, len) ==
  IF Len(buffer_) - at < len THEN buffer_ \o Blank(Len(buffer_)) ELSE buffer_

\* append(data, len)
BufAppend(data) ==
  /\ Defined
  /\ LET b == Ensured(writeIndex_, Len(data)) IN
       /\ Len(b) <= MaxSize
       /\ buffer_' = Copied(b, writeIndex_, data)
  /\ writeIndex_' = writeIndex_ + Len(data)
  /\ piece' = data /\ excess' = 0
  /\ UNCHANGED readerIndex_

\* Mutant of RetrieveAll: the indexes go back to the start of the vector.
RetrieveAllToStart == readerIndex_' = 0 /\ writeIndex_' = 0

RetrieveAll ==
  /\ readerIndex_' = kCheapPrepend
  /\ writeIndex_' = kCheapPrepend

\* What retrieve(len) does to the indexes: too long a len empties the buffer.
Moved(len) ==
  IF len < ReadableBytes
  THEN readerIndex_' = readerIndex_ + len /\ UNCHANGED writeIndex_
  ELSE RetrieveAll

Retrieve(len) ==
  /\ Defined
  /\ Moved(len)
  /\ piece' = IF len < ReadableBytes THEN SubSeq(Content, 1, len) ELSE Content
  /\ excess' = 0
  /\ UNCHANGED buffer_

\* The len bytes from peek() on, readable or not.  Reading past the end of the vector is
\* undefined: any bytes.
FromPeek(len) ==
  LET there == Len(buffer_) - readerIndex_
  IN  IF len <= there
      THEN {SubSeq(buffer_, readerIndex_ + 1, readerIndex_ + len)}
      ELSE {SubSeq(buffer_, readerIndex_ + 1, Len(buffer_)) \o junk :
              junk \in [1..len - there -> Bytes \cup {NoByte}]}

\* retrieveAsString copies len bytes, whatever there is to read, and calls retrieve(len).
RetrieveAsString(len) ==
  /\ Defined
  /\ piece' \in FromPeek(len)
  /\ excess' = IF len > ReadableBytes THEN len - ReadableBytes ELSE 0
  /\ Moved(len)
  /\ UNCHANGED buffer_

RetrieveAllAsString == RetrieveAsString(ReadableBytes)

\* Mutant of ReadFd: the bytes in extrabuf are appended from its start up to n.
ReadFdAppendsAll(data) ==
  /\ Defined
  /\ Len(data) > WritableBytes
  /\ LET head == SubSeq(data, 1, WritableBytes)
         b == Ensured(Len(buffer_), Len(data))
     IN  /\ Len(b) <= MaxSize
         /\ buffer_' = Copied(Copied(b, writeIndex_, head), Len(buffer_), data)
         /\ writeIndex_' = Len(buffer_) + Len(data)
  /\ piece' = data /\ excess' = 0
  /\ UNCHANGED readerIndex_

\* readFd: the bytes data that readv found.  What the vector has no room for went
\* to extrabuf, which readv is given only when the room is shorter than it, and is
\* appended from there.
ReadFd(data) ==
  /\ Defined
  /\ Len(data) <= WritableBytes + IF WritableBytes < ExtraBuf THEN ExtraBuf ELSE 0
  /\ IF Len(data) <= WritableBytes
     THEN /\ buffer_' = Copied(buffer_, writeIndex_, data)
          /\ writeIndex_' = writeIndex_ + Len(data)
     ELSE LET head == SubSeq(data, 1, WritableBytes)
              rest == SubSeq(data, WritableBytes + 1, Len(data))
              b == Ensured(Len(buffer_), Len(rest))
          IN  /\ Len(b) <= MaxSize
              /\ buffer_' = Copied(Copied(b, writeIndex_, head), Len(buffer_), rest)
              /\ writeIndex_' = Len(buffer_) + Len(rest)
  /\ piece' = data /\ excess' = 0
  /\ UNCHANGED readerIndex_

\* writeFd: the socket took n of the readable bytes.
WriteFd(n) ==
  /\ Defined
  /\ n <= ReadableBytes
  /\ readerIndex_' = readerIndex_ + n
  /\ piece' = SubSeq(Content, 1, n) /\ excess' = 0
  /\ UNCHANGED <<buffer_, writeIndex_>>

\* makeSpace(len): room for len bytes, from the end of the vector or, if that and the
\* room in front of the bytes are enough together, by moving the bytes to the front.
MakeSpace(len) ==
  /\ Defined
  /\ IF WritableBytes + PrependableBytes < len + kCheapPrepend
     THEN /\ buffer_' = buffer_ \o Blank(writeIndex_ + len - Len(buffer_))
          /\ UNCHANGED <<readerIndex_, writeIndex_>>
     ELSE /\ buffer_' = Copied(buffer_, kCheapPrepend, Content)
          /\ readerIndex_' = kCheapPrepend
          /\ writeIndex_' = kCheapPrepend + ReadableBytes
  /\ UNCHANGED <<piece, excess>>

--------------------------------------------------------------------------

Chunks(n) == UNION {[1..k -> Bytes] : k \in 0..n}

Next ==
  \/ \E data \in Chunks(MaxChunk) : BufAppend(data)
  \/ \E data \in Chunks(MaxRead) : ReadFd(data)
  \/ \E len \in 0..MaxChunk : Retrieve(len) \/ RetrieveAsString(len)
  \/ RetrieveAllAsString
  \/ \E n \in 0..ReadableBytes : WriteFd(n)

Spec == Init /\ [][Next]_vars

--------------------------------------------------------------------------

TypeOK ==
  /\ buffer_ \in Seq(Bytes \cup {NoByte})
  /\ Len(buffer_) >= kCheapPrepend + kInitialSize
  /\ readerIndex_ \in Nat
  /\ writeIndex_ \in Nat
  /\ kCheapPrepend <= readerIndex_
  /\ piece \in Seq(Bytes \cup {NoByte})
  /\ excess \in Nat

\* "0 <= readerIndex <= writerIndex <= size" (Buffer.h:21): the indexes stay in order
\* and inside the vector, whatever is appended.
IndexOrder == readerIndex_ <= writeIndex_ /\ writeIndex_ <= Len(buffer_)

\* The readable bytes are a byte stream: growth, the return to the front and the
\* detour through extrabuf put in exactly the bytes that came, in their order, and
\* exactly the bytes that left were the first ones.  Bytes that never came in are handed
\* out only to who asks retrieveAsString for more than there are, behind all that are.
BS == INSTANCE ByteStream WITH stream <- Content

ImplementsByteStream == BS!Spec

===========================================================================
