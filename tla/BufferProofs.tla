--------------------------- MODULE BufferProofs ---------------------------
(***************************************************************************)
(* Proofs about Buffer, for vectors and pieces of any length: when no piece *)
(* is longer than the vector was at the start, doubling is always enough,   *)
(* and the buffer is a byte stream.                                         *)
(***************************************************************************)
EXTENDS Buffer, TLAPS

\* No piece that a caller appends or that the socket has for one readFd is longer
\* than the vector is at the start (8 + 1024 bytes in the code).
PiecesFit ==
  /\ MaxChunk <= kCheapPrepend + kInitialSize
  /\ MaxRead <= kCheapPrepend + kInitialSize

Inv == TypeOK /\ IndexOrder

--------------------------------------------------------------------------
(* The operators the buffer is built from.                                  *)

AnyByte == Bytes \cup {NoByte}

\* What a piece is: a sequence of bytes of bounded length.
LEMMA ChunkType ==
  ASSUME NEW n \in Nat, NEW data \in Chunks(n)
  PROVE  /\ data \in Seq(Bytes) /\ Len(data) \in Nat /\ Len(data) <= n
         /\ \A j \in 1..Len(data) : data[j] \in Bytes
<1>1. PICK k \in 0..n : data \in [1..k -> Bytes]
  BY DEF Chunks
<1>2. k \in Nat
  BY <1>1
<1>3. data \in Seq(Bytes)
  BY <1>1, <1>2
<1>4. Len(data) = k
  BY <1>1, <1>2, <1>3
<1> QED
  BY <1>1, <1>3, <1>4

\* ensureWritableBytes leaves room for a piece no longer than the vector, and
\* keeps what the vector holds.
LEMMA EnsuredRoom ==
  ASSUME Inv, NEW at \in Nat, at <= Len(buffer_),
         NEW len \in Nat, len <= kCheapPrepend + kInitialSize
  PROVE  /\ Ensured(at, len) \in Seq(AnyByte)
         /\ at + len <= Len(Ensured(at, len))
         /\ Len(buffer_) <= Len(Ensured(at, len))
         /\ \A i \in 1..Len(buffer_) : Ensured(at, len)[i] = buffer_[i]
<1> USE BufferAssumption DEF Inv, TypeOK, AnyByte
<1>1. /\ Blank(Len(buffer_)) \in Seq(AnyByte)
      /\ Len(Blank(Len(buffer_))) = Len(buffer_)
  BY DEF Blank
<1>2. CASE Len(buffer_) - at < len
  BY <1>1, <1>2 DEF Ensured
<1>3. CASE ~(Len(buffer_) - at < len)
  BY <1>3 DEF Ensured
<1> QED
  BY <1>2, <1>3

\* What an appended sequence leaves of the one before it.
LEMMA Appended ==
  ASSUME NEW S, NEW s \in Seq(S), NEW t \in Seq(S)
  PROVE  /\ s \o t \in Seq(S)
         /\ Len(s \o t) = Len(s) + Len(t)
         /\ \A i \in 1..Len(s) : (s \o t)[i] = s[i]
OBVIOUS

\* A sequence cut in two.
LEMMA CutInTwo ==
  ASSUME NEW S, NEW s \in Seq(S), NEW k \in Nat, k <= Len(s)
  PROVE  /\ SubSeq(s, 1, k) \in Seq(S) /\ Len(SubSeq(s, 1, k)) = k
         /\ SubSeq(s, k + 1, Len(s)) \in Seq(S)
         /\ Len(SubSeq(s, k + 1, Len(s))) = Len(s) - k
         /\ \A j \in 1..k : SubSeq(s, 1, k)[j] = s[j]
         /\ \A j \in 1..Len(s) - k : SubSeq(s, k + 1, Len(s))[j] = s[k + j]
<1>1. Len(s) \in Nat
  OBVIOUS
<1>2. SubSeq(s, 1, k) \in Seq(S) /\ Len(SubSeq(s, 1, k)) = k
  BY <1>1
<1>3. /\ SubSeq(s, k + 1, Len(s)) \in Seq(S)
      /\ Len(SubSeq(s, k + 1, Len(s))) = Len(s) - k
  BY <1>1
<1>4. \A j \in 1..k : SubSeq(s, 1, k)[j] = s[j]
  BY <1>1
<1>5. \A j \in 1..Len(s) - k : SubSeq(s, k + 1, Len(s))[j] = s[k + j]
  BY <1>1
<1> QED
  BY <1>2, <1>3, <1>4, <1>5

\* Copying a piece changes the bytes it is copied to, and no other.
LEMMA CopiedPiece ==
  ASSUME NEW b \in Seq(AnyByte), NEW at \in Nat, NEW data \in Seq(Bytes)
  PROVE  /\ Copied(b, at, data) \in Seq(AnyByte)
         /\ Len(Copied(b, at, data)) = Len(b)
         /\ \A i \in 1..Len(b) :
              Copied(b, at, data)[i] = IF i > at /\ i <= at + Len(data)
                                       THEN data[i - at] ELSE b[i]
<1>1. ASSUME NEW i \in 1..Len(b)
      PROVE  (IF i > at /\ i <= at + Len(data) THEN data[i - at] ELSE b[i]) \in AnyByte
  <2>1. CASE i > at /\ i <= at + Len(data)
    <3>1. i - at \in 1..Len(data)
      BY <2>1
    <3> QED
      BY <2>1, <3>1 DEF AnyByte
  <2>2. CASE ~(i > at /\ i <= at + Len(data))
    BY <2>2
  <2> QED
    BY <2>1, <2>2
<1>2. Copied(b, at, data) \in [1..Len(b) -> AnyByte]
  BY <1>1 DEF Copied
<1>3. Copied(b, at, data) \in Seq(AnyByte) /\ Len(Copied(b, at, data)) = Len(b)
  BY <1>2
<1> QED
  BY <1>3 DEF Copied

--------------------------------------------------------------------------
(* What one operation does to the indexes and to the readable bytes.         *)

\* The readable bytes were all put there by a caller or by the socket.
ContentKnown == \A i \in readerIndex_ + 1..writeIndex_ : buffer_[i] \in Bytes

BufferInv == Inv /\ ContentKnown

\* The piece came in behind the readable bytes, which stay where they are.
Grows ==
  /\ readerIndex_' = readerIndex_
  /\ piece' \in Seq(Bytes)
  /\ excess' = 0
  /\ writeIndex_' = writeIndex_ + Len(piece')
  /\ \A i \in readerIndex_ + 1..writeIndex_ : buffer_'[i] = buffer_[i]
  /\ \A i \in writeIndex_ + 1..writeIndex_' : buffer_'[i] = piece'[i - writeIndex_]

\* The piece left at the front, or all the readable bytes did.
Shrinks ==
  /\ buffer_' = buffer_
  /\ excess' = 0
  /\ \/ /\ readerIndex_' \in readerIndex_..writeIndex_
        /\ writeIndex_' = writeIndex_
        /\ piece' = SubSeq(Content, 1, readerIndex_' - readerIndex_)
     \/ /\ readerIndex_' = kCheapPrepend /\ writeIndex_' = kCheapPrepend
        /\ piece' = Content

\* All the readable bytes left, and more bytes than these were handed out.
Overruns ==
  /\ buffer_' = buffer_
  /\ readerIndex_' = kCheapPrepend /\ writeIndex_' = kCheapPrepend
  /\ piece' \in Seq(AnyByte)
  /\ excess' \in Nat \ {0}
  /\ Len(piece') = Len(Content) + excess'
  /\ SubSeq(piece', 1, Len(Content)) = Content

\* The types the following proofs need.
LEMMA Typed ==
  ASSUME PiecesFit, BufferInv
  PROVE  /\ buffer_ \in Seq(AnyByte)
         /\ Len(buffer_) \in Nat /\ readerIndex_ \in Nat /\ writeIndex_ \in Nat
         /\ kCheapPrepend \in Nat /\ kInitialSize \in Nat
         /\ MaxChunk \in Nat /\ MaxChunk <= kCheapPrepend + kInitialSize
         /\ MaxRead \in Nat /\ MaxRead <= kCheapPrepend + kInitialSize
         /\ kCheapPrepend + kInitialSize <= Len(buffer_)
         /\ kCheapPrepend <= readerIndex_
         /\ readerIndex_ <= writeIndex_ /\ writeIndex_ <= Len(buffer_)
         /\ Inv
BY BufferAssumption DEF BufferInv, Inv, TypeOK, IndexOrder, PiecesFit, AnyByte

\* What the readable bytes are, byte by byte.
LEMMA ContentBytes ==
  ASSUME NEW b \in Seq(AnyByte), NEW r \in Nat, NEW w \in Nat, r <= w, w <= Len(b),
         \A i \in r + 1..w : b[i] \in Bytes
  PROVE  /\ SubSeq(b, r + 1, w) \in Seq(Bytes)
         /\ Len(SubSeq(b, r + 1, w)) = w - r
         /\ \A j \in 1..w - r : SubSeq(b, r + 1, w)[j] = b[r + j]
<1>1. SubSeq(b, r + 1, w) = [j \in 1..w - r |-> b[r + j]]
  OBVIOUS
<1>2. ASSUME NEW j \in 1..w - r PROVE b[r + j] \in Bytes
  <2>1. r + j \in r + 1..w
    OBVIOUS
  <2> QED
    BY <2>1
<1>3. [j \in 1..w - r |-> b[r + j]] \in [1..w - r -> Bytes]
  BY <1>2
<1>4. w - r \in Nat
  OBVIOUS
<1> QED
  BY <1>1, <1>3, <1>4

\* The content as it is.
LEMMA ContentIs ==
  ASSUME PiecesFit, BufferInv
  PROVE  /\ Content \in Seq(Bytes)
         /\ Len(Content) = writeIndex_ - readerIndex_
         /\ \A j \in 1..writeIndex_ - readerIndex_ : Content[j] = buffer_[readerIndex_ + j]
BY Typed, ContentBytes DEF Content, BufferInv, ContentKnown

\* append puts its piece behind the readable bytes, inside the vector.
LEMMA AppendGrows ==
  ASSUME PiecesFit, BufferInv, NEW data \in Chunks(MaxChunk), BufAppend(data)
  PROVE  Inv' /\ Grows
<1> DEFINE b == Ensured(writeIndex_, Len(data))
           c == Copied(b, writeIndex_, data)
<1>1. /\ data \in Seq(Bytes) /\ Len(data) \in Nat /\ Len(data) <= MaxChunk
      /\ \A j \in 1..Len(data) : data[j] \in Bytes
  BY ChunkType, Typed
<1>2. Len(data) <= kCheapPrepend + kInitialSize
  BY <1>1, Typed
<1>3. /\ b \in Seq(AnyByte)
      /\ writeIndex_ + Len(data) <= Len(b)
      /\ Len(buffer_) <= Len(b)
      /\ \A i \in 1..Len(buffer_) : b[i] = buffer_[i]
  <2> HIDE DEF b
  <2> QED
    BY <1>1, <1>2, Typed, EnsuredRoom DEF b
<1>4. /\ buffer_' = c
      /\ writeIndex_' = writeIndex_ + Len(data)
      /\ readerIndex_' = readerIndex_
      /\ piece' = data /\ excess' = 0
  BY DEF BufAppend
<1> HIDE DEF b
<1>5. /\ c \in Seq(AnyByte)
      /\ Len(c) = Len(b)
      /\ \A i \in 1..Len(b) : c[i] = IF i > writeIndex_ /\ i <= writeIndex_ + Len(data)
                                    THEN data[i - writeIndex_] ELSE b[i]
  BY <1>1, <1>3, Typed, CopiedPiece
<1> HIDE DEF c
<1>6. Inv'
  BY <1>1, <1>3, <1>4, <1>5, Typed, SMTT(30) DEF AnyByte, Inv, TypeOK, IndexOrder
<1>7. ASSUME NEW i \in readerIndex_ + 1..writeIndex_ PROVE buffer_'[i] = buffer_[i]
  <2>1. i \in 1..Len(buffer_) /\ i \in 1..Len(b) /\ ~(i > writeIndex_)
    BY <1>3, Typed
  <2> QED
    BY <2>1, <1>3, <1>4, <1>5
<1>8. ASSUME NEW i \in writeIndex_ + 1..writeIndex_'
      PROVE  buffer_'[i] = data[i - writeIndex_]
  <2>1. /\ i \in 1..Len(b) /\ i > writeIndex_ /\ i <= writeIndex_ + Len(data)
        /\ i - writeIndex_ \in 1..Len(data)
    BY <1>1, <1>3, <1>4, Typed, SMTT(30)
  <2>2. c[i] = data[i - writeIndex_]
    BY <2>1, <1>5
  <2> QED
    BY <2>1, <2>2, <1>1, <1>4
<1> QED
  BY <1>1, <1>4, <1>6, <1>7, <1>8, Typed DEF Grows

\* readFd does the same with what the socket had, extrabuf included.
LEMMA ReadFdGrows ==
  ASSUME PiecesFit, BufferInv,
         NEW data \in Chunks(MaxRead), ReadFd(data)
  PROVE  Inv' /\ Grows
<1> DEFINE room == Len(buffer_) - writeIndex_
<1>0. room \in Nat /\ writeIndex_ + room = Len(buffer_) /\ WritableBytes = room
  BY Typed DEF WritableBytes
<1>1. /\ data \in Seq(Bytes) /\ Len(data) \in Nat /\ Len(data) <= MaxRead
      /\ \A j \in 1..Len(data) : data[j] \in Bytes
  BY <1>0, Typed, ChunkType
<1>2. readerIndex_' = readerIndex_ /\ piece' = data /\ excess' = 0
  BY DEF ReadFd
<1> HIDE DEF room
<1>3. CASE Len(data) <= room
  <2> DEFINE c == Copied(buffer_, writeIndex_, data)
  <2>1. buffer_' = c /\ writeIndex_' = writeIndex_ + Len(data)
    BY <1>0, <1>3 DEF ReadFd
  <2>2. /\ c \in Seq(AnyByte)
        /\ Len(c) = Len(buffer_)
        /\ \A i \in 1..Len(buffer_) :
             c[i] = IF i > writeIndex_ /\ i <= writeIndex_ + Len(data)
                    THEN data[i - writeIndex_] ELSE buffer_[i]
    BY <1>1, Typed, CopiedPiece
  <2> HIDE DEF c
  <2>3. Inv'
    BY <1>0, <1>1, <1>2, <1>3, <2>1, <2>2, Typed, SMTT(30) DEF AnyByte, Inv, TypeOK, IndexOrder
  <2>4. ASSUME NEW i \in readerIndex_ + 1..writeIndex_ PROVE buffer_'[i] = buffer_[i]
    <3>1. i \in 1..Len(buffer_) /\ ~(i > writeIndex_)
      BY Typed
    <3> QED
      BY <3>1, <2>1, <2>2
  <2>5. ASSUME NEW i \in writeIndex_ + 1..writeIndex_'
        PROVE  buffer_'[i] = data[i - writeIndex_]
    <3>1. /\ i \in 1..Len(buffer_) /\ i > writeIndex_ /\ i <= writeIndex_ + Len(data)
          /\ i - writeIndex_ \in 1..Len(data)
      BY <1>0, <1>1, <1>3, <2>1, Typed, SMTT(30)
    <3>2. c[i] = data[i - writeIndex_]
      BY <3>1, <2>2
    <3> QED
      BY <3>1, <3>2, <1>1, <2>1
  <2> QED
    BY <1>1, <1>2, <2>1, <2>3, <2>4, <2>5, Typed DEF Grows
<1>4. CASE ~(Len(data) <= room)
  <2> DEFINE head == SubSeq(data, 1, room)
             rest == SubSeq(data, room + 1, Len(data))
             b == Ensured(Len(buffer_), Len(rest))
             c == Copied(b, writeIndex_, head)
             d == Copied(c, Len(buffer_), rest)
  <2>1. buffer_' = d /\ writeIndex_' = Len(buffer_) + Len(rest)
    BY <1>0, <1>4 DEF ReadFd
  <2>2. /\ head \in Seq(Bytes) /\ Len(head) = room
        /\ rest \in Seq(Bytes) /\ Len(rest) = Len(data) - room
        /\ \A j \in 1..room : head[j] = data[j]
        /\ \A j \in 1..Len(data) - room : rest[j] = data[room + j]
    <3>1. room \in Nat /\ room <= Len(data) /\ data \in Seq(Bytes)
      BY <1>0, <1>1, <1>4
    <3> QED
      BY <3>1, CutInTwo
  <2> HIDE DEF head, rest
  <2>4. /\ Len(rest) \in Nat /\ Len(rest) <= kCheapPrepend + kInitialSize
    BY <1>0, <1>1, <1>4, <2>2, Typed
  <2>5. /\ b \in Seq(AnyByte)
        /\ Len(buffer_) + Len(rest) <= Len(b)
        /\ Len(buffer_) <= Len(b)
        /\ \A i \in 1..Len(buffer_) : b[i] = buffer_[i]
    <3>1. Len(buffer_) <= Len(buffer_)
      BY Typed
    <3> HIDE DEF b
    <3> QED
      BY <2>4, <3>1, Typed, EnsuredRoom DEF b
  <2> HIDE DEF b
  <2>0. /\ readerIndex_ \in Nat /\ writeIndex_ \in Nat
        /\ Len(buffer_) \in Nat /\ Len(b) \in Nat
        /\ writeIndex_ <= Len(buffer_) /\ Len(buffer_) <= Len(b)
    BY <2>5, Typed
  <2>6. /\ c \in Seq(AnyByte)
        /\ Len(c) = Len(b)
        /\ \A i \in 1..Len(b) : c[i] = IF i > writeIndex_ /\ i <= writeIndex_ + Len(head)
                                      THEN head[i - writeIndex_] ELSE b[i]
    BY <2>2, <2>5, Typed, CopiedPiece, ZenonT(60)
  <2> HIDE DEF c
  <2>7. /\ d \in Seq(AnyByte)
        /\ Len(d) = Len(b)
        /\ \A i \in 1..Len(b) :
             d[i] = IF i > Len(buffer_) /\ i <= Len(buffer_) + Len(rest)
                    THEN rest[i - Len(buffer_)] ELSE c[i]
    <3>1. Len(c) = Len(b) /\ c \in Seq(AnyByte) /\ rest \in Seq(Bytes) /\ Len(buffer_) \in Nat
      BY <2>2, <2>6, Typed
    <3>2. /\ d \in Seq(AnyByte)
          /\ Len(d) = Len(c)
          /\ \A i \in 1..Len(c) :
               d[i] = IF i > Len(buffer_) /\ i <= Len(buffer_) + Len(rest)
                      THEN rest[i - Len(buffer_)] ELSE c[i]
      BY <3>1, CopiedPiece
    <3> HIDE DEF d
    <3> QED
      BY <3>1, <3>2
  <2> HIDE DEF d
  <2>8. Inv'
    BY <1>1, <1>2, <2>1, <2>4, <2>5, <2>7, Typed, SMTT(30) DEF AnyByte, Inv, TypeOK, IndexOrder
  <2>9. ASSUME NEW i \in readerIndex_ + 1..writeIndex_ PROVE buffer_'[i] = buffer_[i]
    <3>1. /\ i \in 1..Len(buffer_) /\ i \in 1..Len(b)
          /\ ~(i > writeIndex_) /\ ~(i > Len(buffer_))
      BY <2>0
    <3>2. d[i] = c[i] /\ c[i] = b[i]
      BY <3>1, <2>6, <2>7
    <3> QED
      BY <3>1, <3>2, <2>1, <2>5
  <2>10. ASSUME NEW i \in writeIndex_ + 1..writeIndex_'
         PROVE  buffer_'[i] = data[i - writeIndex_]
    <3>1. CASE i <= Len(buffer_)
      <4>1. /\ i \in 1..Len(b) /\ ~(i > Len(buffer_))
            /\ i > writeIndex_ /\ i <= writeIndex_ + Len(head)
            /\ i - writeIndex_ \in 1..Len(head)
        BY <1>0, <3>1, <2>0, <2>2
      <4>2. d[i] = head[i - writeIndex_]
        BY <4>1, <2>6, <2>7
      <4> QED
        BY <4>1, <4>2, <2>1, <2>2
    <3>2. CASE ~(i <= Len(buffer_))
      <4>1. /\ i \in 1..Len(b) /\ i > Len(buffer_) /\ i <= Len(buffer_) + Len(rest)
            /\ i - Len(buffer_) \in 1..Len(rest)
        BY <3>2, <2>1, <2>4, <2>5, Typed
      <4>2. d[i] = rest[i - Len(buffer_)]
        BY <4>1, <2>7
      <4>3. room + (i - Len(buffer_)) = i - writeIndex_
        BY <1>0, <2>0
      <4> QED
        BY <4>1, <4>2, <4>3, <2>1, <2>2
    <3> QED
      BY <3>1, <3>2
  <2>11. writeIndex_' = writeIndex_ + Len(data)
    <3>1. Len(rest) = Len(data) - room
      BY <2>2
    <3> QED
      BY <1>0, <1>1, <2>0, <2>1, <3>1
  <2> QED
    BY <1>1, <1>2, <2>8, <2>9, <2>10, <2>11 DEF Grows
<1> QED
  BY <1>3, <1>4

\* retrieve takes bytes from the front.
LEMMA RetrieveShrinks ==
  ASSUME PiecesFit, BufferInv, NEW len \in Nat, Retrieve(len)
  PROVE  Inv' /\ Shrinks
<1>1. /\ Content \in Seq(Bytes) /\ Content \in Seq(AnyByte)
      /\ Len(Content) = writeIndex_ - readerIndex_
  BY ContentIs DEF AnyByte
<1> USE BufferAssumption DEF BufferInv, Inv, TypeOK, IndexOrder, ReadableBytes, Moved
<1>2. CASE len < ReadableBytes
  <2>1. SubSeq(Content, 1, len) \in Seq(AnyByte)
    BY <1>1, <1>2
  <2> QED
    BY <1>2, <2>1 DEF Retrieve, Shrinks, AnyByte
<1>3. CASE ~(len < ReadableBytes)
  BY <1>1, <1>3 DEF Retrieve, RetrieveAll, Shrinks, AnyByte
<1> QED
  BY <1>2, <1>3

\* The bytes from peek() on begin with the readable ones, however many are asked for.
LEMMA PeekedBytes ==
  ASSUME PiecesFit, BufferInv, NEW len \in Nat, NEW p \in FromPeek(len)
  PROVE  /\ p \in Seq(AnyByte) /\ Len(p) = len
         /\ \A j \in 1..len : j <= Len(Content) => p[j] = Content[j]
<1> DEFINE there == Len(buffer_) - readerIndex_
           front == SubSeq(buffer_, readerIndex_ + 1, Len(buffer_))
           size == writeIndex_ - readerIndex_
<1>1. /\ readerIndex_ \in Nat /\ writeIndex_ \in Nat /\ Len(buffer_) \in Nat
      /\ readerIndex_ <= writeIndex_ /\ writeIndex_ <= Len(buffer_)
      /\ buffer_ \in Seq(AnyByte)
      /\ there \in Nat /\ readerIndex_ + there = Len(buffer_)
      /\ size \in Nat /\ size <= there
  BY Typed, SMTT(30)
<1>2. Len(Content) = size /\ \A j \in 1..size : Content[j] = buffer_[readerIndex_ + j]
  BY ContentIs
<1>3. SUFFICES /\ p \in Seq(AnyByte) /\ Len(p) = len
               /\ \A j \in 1..len : j <= there => p[j] = buffer_[readerIndex_ + j]
  <2> HIDE DEF there, size
  <2>1. ASSUME NEW j \in 1..len, j <= size PROVE j \in 1..size /\ j <= there
    BY <1>1, <2>1
  <2> QED
    BY <1>2, <1>3, <2>1
<1>4. CASE len <= there
  <2>1. p = SubSeq(buffer_, readerIndex_ + 1, readerIndex_ + len)
    BY <1>4 DEF FromPeek
  <2>2. p = [j \in 1..len |-> buffer_[readerIndex_ + j]]
    BY <1>1, <2>1
  <2>3. \A j \in 1..len : readerIndex_ + j \in 1..Len(buffer_)
    BY <1>1, <1>4
  <2>4. p \in [1..len -> AnyByte]
    BY <1>1, <2>2, <2>3
  <2> QED
    BY <2>2, <2>4
<1>5. CASE ~(len <= there)
  <2>1. PICK junk \in [1..len - there -> AnyByte] : p = front \o junk
    BY <1>5 DEF FromPeek, AnyByte
  <2>2. /\ front \in Seq(AnyByte) /\ Len(front) = there
        /\ \A j \in 1..there : front[j] = buffer_[readerIndex_ + j]
    <3>1. readerIndex_ <= Len(buffer_)
      BY <1>1
    <3> QED
      BY <1>1, <3>1, CutInTwo
  <2>3. junk \in Seq(AnyByte) /\ Len(junk) = len - there
    <3> DEFINE n == len - there
    <3>1. n \in Nat
      BY <1>1, <1>5
    <3>2. junk \in [1..n -> AnyByte]
      BY <2>1
    <3> HIDE DEF n
    <3>3. junk \in Seq(AnyByte) /\ Len(junk) = n
      BY <3>1, <3>2
    <3> QED
      BY <3>3 DEF n
  <2> HIDE DEF front
  <2>4. /\ p \in Seq(AnyByte) /\ Len(p) = Len(front) + Len(junk)
        /\ \A j \in 1..Len(front) : p[j] = front[j]
    BY <2>1, <2>2, <2>3, Appended
  <2>5. Len(p) = len
    BY <1>1, <2>2, <2>3, <2>4
  <2>6. ASSUME NEW j \in 1..len, j <= there
        PROVE  p[j] = buffer_[readerIndex_ + j]
    <3>1. j \in 1..there
      BY <1>1, <2>6
    <3> HIDE DEF there
    <3> QED
      BY <2>2, <2>4, <3>1
  <2> QED
    BY <2>4, <2>5, <2>6
<1> QED
  BY <1>4, <1>5

\* retrieveAsString of no more than there is takes bytes from the front as retrieve does;
\* of more, it empties the buffer and hands out bytes that are not in it behind the others.
LEMMA RetrieveAsStringShrinks ==
  ASSUME PiecesFit, BufferInv, NEW len \in Nat, RetrieveAsString(len)
  PROVE  /\ Inv'
         /\ len <= ReadableBytes => Shrinks
         /\ len > ReadableBytes => Overruns
<1> DEFINE size == writeIndex_ - readerIndex_
<1>1. /\ Content \in Seq(Bytes) /\ Content \in Seq(AnyByte) /\ Len(Content) = size
      /\ readerIndex_ \in Nat /\ writeIndex_ \in Nat /\ kCheapPrepend \in Nat
      /\ size \in Nat /\ ReadableBytes = size
      /\ buffer_ \in Seq(AnyByte) /\ Len(buffer_) \in Nat
      /\ kCheapPrepend <= readerIndex_ /\ readerIndex_ <= writeIndex_
      /\ writeIndex_ <= Len(buffer_)
  BY ContentIs, Typed DEF AnyByte, ReadableBytes
<1>2. /\ buffer_' = buffer_ /\ Moved(len)
      /\ excess' = IF len > size THEN len - size ELSE 0
  BY DEF RetrieveAsString, ReadableBytes
<1>3. /\ piece' \in Seq(AnyByte) /\ Len(piece') = len
      /\ \A j \in 1..len : j <= size => piece'[j] = Content[j]
  BY <1>1, PeekedBytes DEF RetrieveAsString
<1>4. excess' \in Nat
  BY <1>1, <1>2
<1>5. /\ len < size => readerIndex_' = readerIndex_ + len /\ writeIndex_' = writeIndex_
      /\ ~(len < size) => readerIndex_' = kCheapPrepend /\ writeIndex_' = kCheapPrepend
  BY <1>1, <1>2 DEF Moved, RetrieveAll
<1>6. Inv'
  BY <1>1, <1>2, <1>3, <1>4, <1>5, Typed, SMTT(30) DEF Inv, TypeOK, IndexOrder, AnyByte
<1>7. ASSUME len <= size PROVE Shrinks
  <2>1. piece' = SubSeq(Content, 1, len)
    <3> HIDE DEF size
    <3>1. /\ SubSeq(Content, 1, len) \in Seq(Bytes) /\ Len(SubSeq(Content, 1, len)) = len
          /\ \A j \in 1..len : SubSeq(Content, 1, len)[j] = Content[j]
      BY <1>1, <1>7, CutInTwo
    <3>2. \A j \in 1..len : piece'[j] = Content[j]
      BY <1>1, <1>3, <1>7
    <3> QED
      BY <1>3, <3>1, <3>2
  <2>2. CASE len < size
    BY <1>1, <1>2, <1>5, <2>1, <2>2 DEF Shrinks
  <2>3. CASE len = size
    <3>1. SubSeq(Content, 1, len) = Content
      BY <1>1, <2>3
    <3> QED
      BY <1>1, <1>2, <1>5, <2>1, <2>3, <3>1 DEF Shrinks
  <2> QED
    BY <1>1, <1>7, <2>2, <2>3
<1>8. ASSUME len > size PROVE Overruns
  <2>1. SubSeq(piece', 1, size) = Content
    <3> HIDE DEF size
    <3>1. /\ SubSeq(piece', 1, size) \in Seq(AnyByte) /\ Len(SubSeq(piece', 1, size)) = size
          /\ \A j \in 1..size : SubSeq(piece', 1, size)[j] = piece'[j]
      BY <1>1, <1>3, <1>8, CutInTwo
    <3>2. \A j \in 1..size : piece'[j] = Content[j]
      BY <1>1, <1>3, <1>8
    <3> QED
      BY <1>1, <3>1, <3>2
  <2> QED
    BY <1>1, <1>2, <1>3, <1>5, <1>8, <2>1 DEF Overruns
<1> QED
  BY <1>1, <1>6, <1>7, <1>8

\* writeFd takes from the front of the readable bytes.
LEMMA WriteFdShrinks ==
  ASSUME PiecesFit, BufferInv, NEW n \in 0..ReadableBytes, WriteFd(n)
  PROVE  Inv' /\ Shrinks
<1>1. Content \in Seq(Bytes) /\ Len(Content) = writeIndex_ - readerIndex_
  BY ContentIs
<1>2. SubSeq(Content, 1, n) \in Seq(AnyByte)
  BY <1>1 DEF ReadableBytes, AnyByte
<1> QED
  BY <1>2, BufferAssumption
  DEF AnyByte, BufferInv, Inv, TypeOK, IndexOrder, ReadableBytes, WriteFd, Shrinks

--------------------------------------------------------------------------
(* Index order.                                                              *)

\* One step keeps the indexes in order and the readable bytes known, and makes the
\* readable bytes grow at the end or shrink at the front, or takes more than there are.
LEMMA BufferStep ==
  ASSUME PiecesFit, BufferInv, Next
  PROVE  BufferInv' /\ (Grows \/ Shrinks \/ Overruns)
<1>1. Inv' /\ (Grows \/ Shrinks \/ Overruns)
  <2>1. ASSUME NEW len \in 0..MaxChunk PROVE len \in Nat
    BY BufferAssumption
  <2>2. ReadableBytes \in Nat
    BY Typed DEF ReadableBytes
  <2>3. ASSUME NEW len \in Nat, RetrieveAsString(len)
        PROVE  Inv' /\ (Shrinks \/ Overruns)
    <3>1. len <= ReadableBytes \/ len > ReadableBytes
      BY <2>2
    <3> QED
      BY <2>3, <3>1, RetrieveAsStringShrinks
  <2> QED
    BY <2>1, <2>2, <2>3, AppendGrows, ReadFdGrows, RetrieveShrinks, WriteFdShrinks
    DEF Next, RetrieveAllAsString
<1>2. ASSUME Grows PROVE ContentKnown'
  <2>1. ASSUME NEW i \in readerIndex_' + 1..writeIndex_' PROVE buffer_'[i] \in Bytes
    <3>1. CASE i <= writeIndex_
      <4>1. i \in readerIndex_ + 1..writeIndex_
        BY <1>2, <3>1, Typed DEF Grows
      <4> QED
        BY <1>2, <4>1 DEF Grows, BufferInv, ContentKnown
    <3>2. CASE ~(i <= writeIndex_)
      <4>1. /\ i \in writeIndex_ + 1..writeIndex_'
            /\ i - writeIndex_ \in 1..Len(piece')
        BY <1>2, <3>2, Typed DEF Grows
      <4> QED
        BY <1>2, <4>1 DEF Grows
    <3> QED
      BY <3>1, <3>2
  <2> QED
    BY <2>1 DEF ContentKnown
<1>3. ASSUME Shrinks \/ Overruns PROVE ContentKnown'
  <2>1. ASSUME NEW i \in readerIndex_' + 1..writeIndex_' PROVE i \in readerIndex_ + 1..writeIndex_
    BY <1>3, Typed DEF Shrinks, Overruns
  <2> QED
    BY <1>3, <2>1 DEF Shrinks, Overruns, BufferInv, ContentKnown
<1> QED
  BY <1>1, <1>2, <1>3 DEF BufferInv

\* A new buffer is in order.
LEMMA BufferInit ==
  ASSUME Init
  PROVE  BufferInv
<1>1. /\ buffer_ \in Seq(Bytes \cup {NoByte})
      /\ Len(buffer_) = kCheapPrepend + kInitialSize
  BY BufferAssumption DEF Init, Blank
<1> QED
  BY <1>1, BufferAssumption DEF Init, BufferInv, Inv, TypeOK, IndexOrder, ContentKnown

\* While pieces fit, the class comment's order of the indexes holds: doubling the
\* vector once always makes room.
THEOREM IndexesStayInOrder ==
  ASSUME PiecesFit
  PROVE  Spec => []IndexOrder
<1>1. BufferInv /\ UNCHANGED vars => BufferInv'
  BY DEF BufferInv, Inv, TypeOK, IndexOrder, ContentKnown, vars
<1>2. BufferInv => IndexOrder
  BY DEF BufferInv, Inv
<1> QED
  BY <1>1, <1>2, BufferInit, BufferStep, PTL DEF Spec

\* The types too, as long as pieces fit.
THEOREM BufferTypeCorrect ==
  ASSUME PiecesFit
  PROVE  Spec => []TypeOK
<1>1. BufferInv /\ UNCHANGED vars => BufferInv'
  BY DEF BufferInv, Inv, TypeOK, IndexOrder, ContentKnown, vars
<1>2. BufferInv => TypeOK
  BY DEF BufferInv, Inv
<1> QED
  BY <1>1, <1>2, BufferInit, BufferStep, PTL DEF Spec

--------------------------------------------------------------------------
(* The byte stream.                                                          *)

\* The content after a step.
LEMMA ContentIsNext ==
  ASSUME PiecesFit, BufferInv'
  PROVE  /\ Content' \in Seq(Bytes)
         /\ Len(Content') = writeIndex_' - readerIndex_'
         /\ \A j \in 1..writeIndex_' - readerIndex_' : Content'[j] = buffer_'[readerIndex_' + j]
<1>1. /\ buffer_' \in Seq(AnyByte)
      /\ readerIndex_' \in Nat /\ writeIndex_' \in Nat
      /\ readerIndex_' <= writeIndex_' /\ writeIndex_' <= Len(buffer_')
      /\ \A i \in readerIndex_' + 1..writeIndex_' : buffer_'[i] \in Bytes
  BY DEF BufferInv, Inv, TypeOK, IndexOrder, ContentKnown, AnyByte
<1> QED
  BY <1>1, ContentBytes DEF Content

\* While pieces fit, the buffer is a byte stream: growth, the reset of the indexes
\* and the detour through extrabuf lose, change and reorder nothing, and whatever len
\* retrieveAsString is given, the bytes of the stream come first.
THEOREM RefinesByteStream ==
  ASSUME PiecesFit
  PROVE  Spec => ImplementsByteStream
<1>1. ASSUME Init PROVE BS!Init
  <2>1. BufferInv /\ writeIndex_ - readerIndex_ = 0
    BY <1>1, BufferInit, BufferAssumption DEF Init
  <2> QED
    BY <1>1, <2>1, ContentIs DEF Init, BS!Init
<1>2. ASSUME BufferInv, [Next]_vars PROVE [BS!Next]_(BS!vars)
  <2>1. CASE Next
    <3>1. BufferInv' /\ (Grows \/ Shrinks \/ Overruns)
      BY <1>2, <2>1, BufferStep
    <3> DEFINE n == writeIndex_ - readerIndex_
               n1 == writeIndex_' - readerIndex_'
    <3>2. /\ Content \in Seq(Bytes) /\ Len(Content) = n /\ n \in Nat
          /\ \A j \in 1..n : Content[j] = buffer_[readerIndex_ + j]
      BY <1>2, ContentIs, Typed
    <3>3. /\ Content' \in Seq(Bytes) /\ Len(Content') = n1
          /\ \A j \in 1..n1 : Content'[j] = buffer_'[readerIndex_' + j]
      BY <3>1, ContentIsNext
    <3>4. ASSUME Grows PROVE BS!Put
      <4>1. /\ piece' \in Seq(Bytes) /\ Len(piece') \in Nat
            /\ n1 = n + Len(piece')
        BY <1>2, <3>4, Typed DEF Grows
      <4>2. ASSUME NEW j \in 1..n PROVE Content'[j] = Content[j]
        <5>1. readerIndex_ + j \in readerIndex_ + 1..writeIndex_ /\ j \in 1..n1
          BY <1>2, <4>1, Typed
        <5> QED
          BY <5>1, <3>2, <3>3, <3>4 DEF Grows
      <4>3. ASSUME NEW j \in 1..n1, ~(j <= n) PROVE Content'[j] = piece'[j - n]
        <5>1. /\ readerIndex_ + j \in writeIndex_ + 1..writeIndex_'
              /\ (readerIndex_ + j) - writeIndex_ = j - n
          BY <1>2, <3>4, <4>1, <4>3, Typed, SMTT(30) DEF Grows
        <5> QED
          BY <5>1, <4>3, <3>3, <3>4 DEF Grows
      <4> HIDE DEF n, n1
      <4>4. /\ Content \o piece' \in Seq(Bytes)
            /\ Len(Content \o piece') = n1
            /\ \A j \in 1..n1 :
                 (Content \o piece')[j] = IF j <= n THEN Content[j] ELSE piece'[j - n]
        BY <3>2, <4>1
      <4>5. \A j \in 1..n1 : Content'[j] = (Content \o piece')[j]
        <5>1. ASSUME NEW j \in 1..n1 PROVE Content'[j] = (Content \o piece')[j]
          <6>1. CASE j <= n
            BY <6>1, <4>2, <4>4, <3>2
          <6>2. CASE ~(j <= n)
            BY <6>2, <4>3, <4>4
          <6> QED
            BY <6>1, <6>2
        <5> QED
          BY <5>1
      <4>6. Content' = Content \o piece'
        BY <3>3, <4>4, <4>5
      <4> QED
        BY <3>4, <4>1, <4>6 DEF BS!Put, Grows
    <3>5. ASSUME Shrinks PROVE \E k \in 0..n : BS!Take(k)
      <4>1. CASE /\ readerIndex_' \in readerIndex_..writeIndex_ /\ writeIndex_' = writeIndex_
                 /\ piece' = SubSeq(Content, 1, readerIndex_' - readerIndex_)
        <5> DEFINE k == readerIndex_' - readerIndex_
        <5>1. k \in 0..n /\ n1 = n - k
          BY <1>2, <4>1, Typed, SMTT(30)
        <5>6. piece' = SubSeq(Content, 1, k)
          BY <4>1
        <5>2. ASSUME NEW j \in 1..n1 PROVE Content'[j] = Content[k + j]
          <6>1. k + j \in 1..n /\ readerIndex_ + (k + j) = readerIndex_' + j
            <7>1. /\ readerIndex_ \in Nat /\ writeIndex_ \in Nat
                  /\ readerIndex_' \in Nat /\ j \in Nat /\ j >= 1
                  /\ readerIndex_ <= readerIndex_' /\ readerIndex_' <= writeIndex_
                  /\ j <= writeIndex_ - readerIndex_'
              BY <1>2, <4>1, Typed
            <7>2. \A r, w, q \in Nat : r <= q /\ q <= w /\ j <= w - q =>
                    /\ (q - r) + j \in 1..(w - r)
                    /\ r + ((q - r) + j) = q + j
              BY <7>1
            <7> QED
              BY <7>1, <7>2
          <6> QED
            BY <6>1, <3>2, <3>3, <3>5 DEF Shrinks
        <5> HIDE DEF n, n1, k
        <5>3. SubSeq(Content, k + 1, n) = [j \in 1..n1 |-> Content[k + j]]
          BY <3>2, <5>1
        <5>4. Content' = [j \in 1..n1 |-> Content'[j]]
          BY <3>3
        <5>5. Content' = SubSeq(Content, k + 1, n)
          BY <5>2, <5>3, <5>4
        <5> QED
          BY <3>2, <3>5, <5>1, <5>5, <5>6 DEF BS!Take, Shrinks
      <4>2. CASE /\ readerIndex_' = kCheapPrepend /\ writeIndex_' = kCheapPrepend
                 /\ piece' = Content
        <5>1. n1 = 0
          BY <4>2, BufferAssumption
        <5> HIDE DEF n, n1
        <5>2. Content' = <<>>
          BY <3>3, <5>1
        <5>3. SubSeq(Content, n + 1, n) = <<>>
          BY <3>2
        <5>4. n \in 0..n
          BY <3>2
        <5>5. piece' = SubSeq(Content, 1, n)
          BY <3>2, <4>2
        <5> QED
          BY <3>2, <3>5, <5>2, <5>3, <5>4, <5>5 DEF BS!Take, Shrinks
      <4> QED
        BY <3>5, <4>1, <4>2 DEF Shrinks
    <3>6. ASSUME Overruns PROVE BS!TakeTooMany
      <4>1. n1 = 0
        BY <3>6, BufferAssumption DEF Overruns
      <4> HIDE DEF n, n1
      <4>2. Content' = <<>>
        BY <3>3, <4>1
      <4> QED
        BY <3>6, <4>2 DEF Overruns, BS!TakeTooMany
    <3> HIDE DEF n, n1
    <3> QED
      BY <3>1, <3>2, <3>4, <3>5, <3>6 DEF BS!Next
  <2>2. CASE UNCHANGED vars
    BY <2>2 DEF vars, Content, BS!vars
  <2> QED
    BY <1>2, <2>1, <2>2
<1>3. BufferInv /\ UNCHANGED vars => BufferInv'
  BY DEF BufferInv, Inv, TypeOK, IndexOrder, ContentKnown, vars
<1> QED
  BY <1>1, <1>2, <1>3, BufferInit, BufferStep, PTL DEF Spec, ImplementsByteStream, BS!Spec

--------------------------------------------------------------------------
(* What the two defects of the buffer and of its user come to.               *)

\* ensureWritableBytes doubles the vector once: a piece that is appended, or read from the
\* socket, of whatever length, stays inside the vector exactly if it is no longer than the
\* room there was and the vector together.  PiecesFit is what a caller can know of that.
THEOREM OneDoublingSuffices ==
  ASSUME BufferInv, NEW data \in Seq(Bytes), BufAppend(data) \/ ReadFd(data)
  PROVE  IndexOrder' <=> Len(data) <= WritableBytes + Len(buffer_)
<1> DEFINE len == Len(data)
           size == Len(buffer_)
<1>0. /\ len \in Nat /\ size \in Nat /\ readerIndex_ \in Nat /\ writeIndex_ \in Nat
      /\ readerIndex_ <= writeIndex_ /\ writeIndex_ <= size
      /\ buffer_ \in Seq(AnyByte)
  BY DEF BufferInv, Inv, TypeOK, IndexOrder, AnyByte
<1>1. ASSUME NEW at, NEW n
      PROVE  Len(Ensured(at, n)) = IF size - at < n THEN size + size ELSE size
  <2>1. Blank(size) \in Seq(AnyByte) /\ Len(Blank(size)) = size
    BY <1>0 DEF Blank, AnyByte
  <2>2. Len(buffer_ \o Blank(size)) = size + size
    BY <1>0, <2>1
  <2> QED
    BY <2>2 DEF Ensured
<1>2. ASSUME NEW b, NEW at, NEW d, Len(b) \in Nat
      PROVE  Len(Copied(b, at, d)) = Len(b)
  BY <1>2 DEF Copied
<1>3. CASE BufAppend(data)
  <2> DEFINE b == Ensured(writeIndex_, len)
  <2>1. /\ readerIndex_' = readerIndex_ /\ writeIndex_' = writeIndex_ + len
        /\ buffer_' = Copied(b, writeIndex_, data)
    BY <1>3 DEF BufAppend
  <2>2. Len(b) = IF size - writeIndex_ < len THEN size + size ELSE size
    BY <1>1
  <2> HIDE DEF b
  <2>3. Len(buffer_') = Len(b)
    BY <1>0, <1>2, <2>1, <2>2
  <2> QED
    BY <1>0, <2>1, <2>2, <2>3 DEF IndexOrder, WritableBytes
<1>4. CASE ReadFd(data)
  <2> DEFINE room == size - writeIndex_
  <2>0. room \in Nat /\ WritableBytes = room
    BY <1>0 DEF WritableBytes
  <2>1. CASE len <= room
    <3>1. /\ readerIndex_' = readerIndex_ /\ writeIndex_' = writeIndex_ + len
          /\ buffer_' = Copied(buffer_, writeIndex_, data)
      BY <1>4, <2>0, <2>1 DEF ReadFd
    <3>2. Len(buffer_') = size
      BY <1>0, <1>2, <3>1
    <3> QED
      BY <1>0, <2>0, <2>1, <3>1, <3>2 DEF IndexOrder
  <2>2. CASE len > room
    <3> DEFINE head == SubSeq(data, 1, room)
               rest == SubSeq(data, room + 1, len)
               b == Ensured(size, Len(rest))
               c == Copied(b, writeIndex_, head)
    <3>1. /\ readerIndex_' = readerIndex_ /\ writeIndex_' = size + Len(rest)
          /\ buffer_' = Copied(c, size, rest)
      BY <1>0, <1>4, <2>0, <2>2 DEF ReadFd
    <3>2. Len(rest) = len - room
      BY <1>0, <2>0, <2>2, CutInTwo
    <3>3. Len(b) = IF size - size < Len(rest) THEN size + size ELSE size
      BY <1>1
    <3> HIDE DEF head, rest, b
    <3>4. Len(b) = size + size /\ Len(b) \in Nat
      BY <1>0, <2>0, <2>2, <3>2, <3>3
    <3>5. Len(c) = Len(b)
      BY <1>2, <3>4
    <3> HIDE DEF c
    <3>6. Len(buffer_') = size + size
      BY <1>2, <3>1, <3>4, <3>5
    <3> QED
      BY <1>0, <2>0, <2>2, <3>1, <3>2, <3>6 DEF IndexOrder
  <2> QED
    BY <1>0, <2>0, <2>1, <2>2
<1> QED
  BY <1>3, <1>4

\* retrieve(n) takes n bytes from the front, and so does writeFd when the socket took n: one
\* after the other, as in handleWrite, take twice as many (AfterWrite in TcpConnection).
THEOREM BothTakeFromTheFront ==
  ASSUME PiecesFit, BufferInv, NEW n \in Nat, Retrieve(n) \/ WriteFd(n)
  PROVE  Content' = SubSeq(Content, n + 1, Len(Content))
<1> DEFINE size == writeIndex_ - readerIndex_
<1>0. /\ Content \in Seq(Bytes) /\ Len(Content) = size /\ size \in Nat
      /\ \A j \in 1..size : Content[j] = buffer_[readerIndex_ + j]
      /\ readerIndex_ \in Nat /\ writeIndex_ \in Nat
  BY ContentIs, Typed
<1>1. CASE /\ n <= size
           /\ readerIndex_' = readerIndex_ + n /\ UNCHANGED <<buffer_, writeIndex_>>
  <2>1. Content' = SubSeq(buffer_, readerIndex_ + n + 1, writeIndex_)
    BY <1>1 DEF Content
  <2> DEFINE r == readerIndex_ + n
             c == SubSeq(buffer_, r + 1, writeIndex_)
             d == SubSeq(Content, n + 1, size)
  <2>2. /\ r \in Nat /\ r <= writeIndex_ /\ writeIndex_ <= Len(buffer_)
        /\ buffer_ \in Seq(AnyByte)
        /\ \A i \in r + 1..writeIndex_ : buffer_[i] \in Bytes
        /\ writeIndex_ - r = size - n
    <3>1. \A i \in readerIndex_ + 1..writeIndex_ : buffer_[i] \in Bytes
      BY DEF BufferInv, ContentKnown
    <3>2. writeIndex_ <= Len(buffer_) /\ buffer_ \in Seq(AnyByte)
      BY Typed
    <3>3. r \in Nat /\ r <= writeIndex_ /\ writeIndex_ - r = size - n
      BY <1>0, <1>1
    <3>4. \A i \in r + 1..writeIndex_ : i \in readerIndex_ + 1..writeIndex_
      BY <1>0
    <3> QED
      BY <3>1, <3>2, <3>3, <3>4
  <2>3. /\ c \in Seq(Bytes) /\ Len(c) = size - n
        /\ \A j \in 1..size - n : c[j] = buffer_[r + j]
    BY <1>0, <2>2, ContentBytes
  <2>4. /\ d \in Seq(Bytes) /\ Len(d) = size - n
        /\ \A j \in 1..size - n : d[j] = Content[n + j]
    BY <1>0, <1>1, CutInTwo
  <2>5. Content' = c
    BY <2>1
  <2>6. \A j \in 1..size - n : n + j \in 1..size /\ readerIndex_ + (n + j) = r + j
    BY <1>0, <1>1
  <2> HIDE DEF c, d, r, size
  <2>7. \A j \in 1..size - n : c[j] = d[j]
    BY <1>0, <2>3, <2>4, <2>6, ZenonT(60)
  <2>8. c = d
    BY <2>3, <2>4, <2>7
  <2> QED
    BY <1>0, <2>5, <2>8 DEF d
<1>2. CASE n >= size /\ RetrieveAll /\ buffer_' = buffer_
  <2>1. Content' = <<>>
    BY <1>2, BufferAssumption, Typed DEF Content, RetrieveAll
  <2>2. SubSeq(Content, n + 1, size) = <<>>
    BY <1>0, <1>2
  <2> QED
    BY <1>0, <2>1, <2>2
<1>3. CASE WriteFd(n)
  BY <1>1, <1>3 DEF WriteFd, ReadableBytes
<1>4. CASE Retrieve(n)
  BY <1>0, <1>1, <1>2, <1>4 DEF Retrieve, Moved, ReadableBytes
<1> QED
  BY <1>3, <1>4

--------------------------------------------------------------------------
(* makeSpace, which nobody calls.                                            *)

\* makeSpace would do what ensureWritableBytes is there for, whatever the length: room
\* for len bytes, the readable ones kept as they are, the indexes in order.  What one
\* doubling lacks, and IndexesStayInOrder therefore assumes, it does not need.
THEOREM MakeSpaceMakesRoom ==
  ASSUME PiecesFit, BufferInv, NEW len \in Nat, MakeSpace(len)
  PROVE  Inv' /\ Content' = Content /\ len <= WritableBytes'
<1> DEFINE n == writeIndex_ - readerIndex_
<1>0. n \in Nat
  BY Typed
<1>1. /\ Content \in Seq(Bytes) /\ Len(Content) = n
      /\ \A j \in 1..n : Content[j] = buffer_[readerIndex_ + j]
  BY ContentIs
<1>2. CASE WritableBytes + PrependableBytes < len + kCheapPrepend
  <2> DEFINE more == writeIndex_ + len - Len(buffer_)
  <2>1. /\ buffer_' = buffer_ \o Blank(more)
        /\ readerIndex_' = readerIndex_ /\ writeIndex_' = writeIndex_
        /\ piece' = piece /\ excess' = excess
    BY <1>2 DEF MakeSpace
  <2>2. more \in Nat
    BY <1>2, Typed DEF WritableBytes, PrependableBytes
  <2> HIDE DEF more
  <2>3. Blank(more) \in Seq(AnyByte) /\ Len(Blank(more)) = more
    BY <2>2 DEF Blank, AnyByte
  <2>4. /\ buffer_' \in Seq(AnyByte) /\ Len(buffer_') = Len(buffer_) + more
        /\ \A i \in 1..Len(buffer_) : buffer_'[i] = buffer_[i]
    <3> DEFINE new == Blank(more)
    <3>1. buffer_ \in Seq(AnyByte)
      BY Typed
    <3>2. new \in Seq(AnyByte) /\ Len(new) = more
      BY <2>3
    <3>3. buffer_' = buffer_ \o new
      BY <2>1
    <3> HIDE DEF new
    <3> QED
      BY <3>1, <3>2, <3>3, Appended
  <2>5. ASSUME NEW i \in readerIndex_ + 1..writeIndex_
        PROVE  buffer_'[i] = buffer_[i] /\ buffer_'[i] \in Bytes
    <3>1. i \in 1..Len(buffer_)
      BY Typed
    <3> QED
      BY <3>1, <2>4 DEF BufferInv, ContentKnown
  <2>6. Inv'
    BY <2>1, <2>2, <2>4, Typed DEF Inv, TypeOK, IndexOrder, AnyByte
  <2>7. len <= WritableBytes'
    BY <2>1, <2>2, <2>4, Typed, SMTT(30) DEF WritableBytes, more
  <2>8. BufferInv'
    BY <2>1, <2>5, <2>6 DEF BufferInv, ContentKnown
  <2>9. /\ Content' \in Seq(Bytes) /\ Len(Content') = n
        /\ \A j \in 1..n : Content'[j] = buffer_'[readerIndex_ + j]
    BY <2>1, <2>8, ContentIsNext
  <2>10. ASSUME NEW j \in 1..n PROVE Content'[j] = Content[j]
    <3>1. readerIndex_ + j \in readerIndex_ + 1..writeIndex_
      BY Typed
    <3> QED
      BY <3>1, <2>5, <2>9, <1>1
  <2>11. Content' = Content
    BY <1>0, <1>1, <2>9, <2>10
  <2> QED
    BY <2>6, <2>7, <2>11
<1>3. CASE ~(WritableBytes + PrependableBytes < len + kCheapPrepend)
  <2> DEFINE c == Copied(buffer_, kCheapPrepend, Content)
  <2>1. /\ buffer_' = c
        /\ readerIndex_' = kCheapPrepend /\ writeIndex_' = kCheapPrepend + n
        /\ piece' = piece /\ excess' = excess
    BY <1>3 DEF MakeSpace, ReadableBytes
  <2>2. /\ c \in Seq(AnyByte) /\ Len(c) = Len(buffer_)
        /\ \A i \in 1..Len(buffer_) :
             c[i] = IF i > kCheapPrepend /\ i <= kCheapPrepend + Len(Content)
                    THEN Content[i - kCheapPrepend] ELSE buffer_[i]
    BY <1>1, Typed, CopiedPiece
  <2> HIDE DEF c
  <2>3. kCheapPrepend + n <= Len(buffer_)
    BY Typed
  <2>4. ASSUME NEW j \in 1..n PROVE buffer_'[kCheapPrepend + j] = Content[j]
    <3>1. /\ kCheapPrepend + j \in 1..Len(buffer_)
          /\ kCheapPrepend + j > kCheapPrepend
          /\ kCheapPrepend + j <= kCheapPrepend + Len(Content)
          /\ (kCheapPrepend + j) - kCheapPrepend = j
      BY <1>0, <1>1, <2>3, Typed, SMTT(30)
    <3> QED
      BY <3>1, <2>1, <2>2
  <2>5. Inv'
    BY <1>0, <2>1, <2>2, <2>3, Typed, SMTT(30) DEF Inv, TypeOK, IndexOrder, AnyByte
  <2>6. ASSUME NEW i \in kCheapPrepend + 1..kCheapPrepend + n PROVE buffer_'[i] \in Bytes
    <3>1. i - kCheapPrepend \in 1..n /\ kCheapPrepend + (i - kCheapPrepend) = i
      BY <1>0, Typed, SMTT(30)
    <3>2. Content[i - kCheapPrepend] \in Bytes
      BY <3>1, <1>1
    <3> QED
      BY <3>1, <3>2, <2>4
  <2>7. BufferInv'
    BY <2>1, <2>5, <2>6 DEF BufferInv, ContentKnown
  <2>8. /\ Content' \in Seq(Bytes) /\ Len(Content') = n
        /\ \A j \in 1..n : Content'[j] = buffer_'[kCheapPrepend + j]
    <3>1. (kCheapPrepend + n) - kCheapPrepend = n
      BY <1>0, Typed
    <3> QED
      BY <2>1, <2>7, <3>1, ContentIsNext
  <2>9. Content' = Content
    BY <1>0, <1>1, <2>4, <2>8
  <2>10. len <= WritableBytes'
    <3> DEFINE len0 == Len(buffer_)
               len1 == Len(buffer_')
    <3>1. len0 \in Nat /\ readerIndex_ \in Nat /\ writeIndex_ \in Nat /\ kCheapPrepend \in Nat
      BY Typed
    <3>2. len0 - writeIndex_ + readerIndex_ >= len + kCheapPrepend
      BY <1>3, <3>1 DEF WritableBytes, PrependableBytes
    <3>3. len1 = len0
      BY <2>1, <2>2
    <3>4. WritableBytes' = len1 - (kCheapPrepend + (writeIndex_ - readerIndex_))
      BY <2>1 DEF WritableBytes
    <3> HIDE DEF len0, len1
    <3> QED
      BY <3>1, <3>2, <3>3, <3>4
  <2> QED
    BY <2>5, <2>9, <2>10
<1> QED
  BY <1>2, <1>3

===========================================================================
