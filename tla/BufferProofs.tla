---------------------------- MODULE BufferProofs ----------------------------
(***************************************************************************)
(* Proofs about Buffer for every alphabet and all sizes: the indices are   *)
(* ordered and the bytes come out once, unchanged and in order.            *)
(***************************************************************************)
EXTENDS Buffer, SequenceTheorems, TLAPS

USE BufferAssumption

Memory == UNION {[0..(n - 1) -> Byte] : n \in Nat}

\* A well-formed buffer.
Good(b) ==
  /\ b \in [size : Nat, mem : Memory, reader : Nat, writer : Nat]
  /\ b.mem \in [0..(b.size - 1) -> Byte]
  /\ kCheapPrepend <= b.reader
  /\ b.reader <= b.writer
  /\ b.writer <= b.size

\* The readable bytes are a sequence; two buffers with the same bytes from
\* their reader to their writer have the same content.
LEMMA ContentSeq ==
  ASSUME NEW b, Good(b)
  PROVE  /\ Readable(b) \in Nat
         /\ Content(b) \in Seq(Byte)
         /\ Len(Content(b)) = Readable(b)
         /\ \A i \in 1..Readable(b) : Content(b)[i] = b.mem[b.reader + i - 1]
<1>1. Readable(b) \in Nat
  BY DEF Good, Readable
<1>2. \A i \in 1..Readable(b) : b.mem[b.reader + i - 1] \in Byte
  BY DEF Good, Readable
<1>3. Content(b) \in [1..Readable(b) -> Byte]
  BY <1>2 DEF Content
<1>. QED  BY <1>1, <1>3 DEF Content

LEMMA NewGood == Good(NewBuffer) /\ Content(NewBuffer) = <<>>
<1>1. NewBuffer.mem \in [0..(NewBuffer.size - 1) -> Byte]
  BY DEF NewBuffer
<1>2. NewBuffer.mem \in Memory
  <2>1. NewBuffer.size \in Nat
    BY DEF NewBuffer
  <2>. QED  BY <1>1, <2>1 DEF Memory
<1>3. Good(NewBuffer)
  BY <1>1, <1>2 DEF NewBuffer, Good
<1>4. Readable(NewBuffer) = 0
  BY DEF NewBuffer, Readable
<1>. QED  BY <1>3, <1>4, ContentSeq, EmptySeq

\* A larger vector has the same readable bytes.
LEMMA ResizeKeeps ==
  ASSUME NEW b, Good(b), NEW n \in Nat, b.size <= n
  PROVE  Good(Resize(b, n)) /\ Content(Resize(b, n)) = Content(b)
<1> DEFINE m == [i \in 0..(n - 1) |-> IF i < b.size THEN b.mem[i] ELSE Zero]
           r == Resize(b, n)
<1>1. m \in [0..(n - 1) -> Byte]
  BY DEF Good
<1>2. m \in Memory
  BY <1>1 DEF Memory
<1>3. r.size = n /\ r.mem = m /\ r.reader = b.reader /\ r.writer = b.writer
  BY DEF Resize, Good
<1>4. r \in [size : Nat, mem : Memory, reader : Nat, writer : Nat]
  BY <1>2 DEF Resize, Good
<1>5. Good(r)
  BY <1>1, <1>3, <1>4 DEF Good
<1>6. Readable(r) = Readable(b)
  BY <1>3 DEF Readable
<1>7. ASSUME NEW i \in 1..Readable(b)
      PROVE  r.mem[r.reader + i - 1] = b.mem[b.reader + i - 1]
  BY <1>3 DEF Good, Readable
<1>8. Content(r) = Content(b)
  BY <1>5, <1>6, <1>7, ContentSeq, SeqEqual
<1>. QED  BY <1>5, <1>8

\* Moving the readable bytes to the front does not change them.
LEMMA MoveKeeps ==
  ASSUME NEW b, Good(b)
  PROVE  /\ Good(MoveToFront(b)) /\ Content(MoveToFront(b)) = Content(b)
         /\ MoveToFront(b).size = b.size
         /\ MoveToFront(b).writer = kCheapPrepend + Readable(b)
<1> DEFINE m == [i \in 0..(b.size - 1) |->
                   IF i \in kCheapPrepend..(kCheapPrepend + Readable(b) - 1)
                   THEN b.mem[b.reader + (i - kCheapPrepend)]
                   ELSE b.mem[i]]
           r == MoveToFront(b)
<1>1. m \in [0..(b.size - 1) -> Byte]
  <2> SUFFICES ASSUME NEW i \in 0..(b.size - 1)
               PROVE  m[i] \in Byte
    BY DEF Good
  <2>1. /\ b.size \in Nat /\ b.reader \in Nat /\ b.writer \in Nat
        /\ b.writer <= b.size
        /\ \A j \in 0..(b.size - 1) : b.mem[j] \in Byte
    BY DEF Good
  <2>2. CASE i \in kCheapPrepend..(kCheapPrepend + Readable(b) - 1)
    <3>1. b.reader + (i - kCheapPrepend) \in 0..(b.size - 1)
      BY <2>1, <2>2 DEF Readable
    <3>. QED  BY <2>1, <2>2, <3>1
  <2>3. CASE i \notin kCheapPrepend..(kCheapPrepend + Readable(b) - 1)
    BY <2>1, <2>3
  <2>. QED  BY <2>2, <2>3
<1>2. m \in Memory
  BY <1>1 DEF Memory, Good
<1>3. /\ r.size = b.size /\ r.mem = m /\ r.reader = kCheapPrepend
      /\ r.writer = kCheapPrepend + Readable(b)
  BY DEF MoveToFront, Good
<1>4. r \in [size : Nat, mem : Memory, reader : Nat, writer : Nat]
  <2>1. kCheapPrepend + Readable(b) \in Nat
    BY ContentSeq
  <2>. QED  BY <1>2, <2>1 DEF MoveToFront, Good
<1>5. Good(r)
  BY <1>1, <1>3, <1>4 DEF Good, Readable
<1>6. Readable(r) = Readable(b)
  BY <1>3, ContentSeq DEF Readable
<1>7. ASSUME NEW i \in 1..Readable(b)
      PROVE  r.mem[r.reader + i - 1] = b.mem[b.reader + i - 1]
  BY <1>3 DEF Good, Readable
<1>8. Content(r) = Content(b)
  BY <1>5, <1>6, <1>7, ContentSeq, SeqEqual
<1>. QED  BY <1>3, <1>5, <1>8

\* ensureWritableBytes makes room and changes no byte.
LEMMA EnsureMakesRoom ==
  ASSUME NEW b, Good(b), NEW len \in Nat
  PROVE  /\ Good(EnsureWritable(b, len))
         /\ Content(EnsureWritable(b, len)) = Content(b)
         /\ EnsureWritable(b, len).writer + len <= EnsureWritable(b, len).size
<1>1. CASE Writable(b) >= len
  BY <1>1 DEF EnsureWritable, Writable, Good
<1>2. CASE Writable(b) < len /\ Writable(b) + Prependable(b) < len + kCheapPrepend
  <2>1. EnsureWritable(b, len) = Resize(b, b.writer + len)
    BY <1>2 DEF EnsureWritable, MakeSpace
  <2>2. b.writer + len \in Nat /\ b.size <= b.writer + len
    BY <1>2 DEF Writable, Good
  <2>3. Resize(b, b.writer + len).size = b.writer + len
    BY DEF Resize, Good
  <2>4. Resize(b, b.writer + len).writer = b.writer
    BY DEF Resize, Good
  <2>. QED  BY <2>1, <2>2, <2>3, <2>4, ResizeKeeps
<1>3. CASE Writable(b) < len /\ ~(Writable(b) + Prependable(b) < len + kCheapPrepend)
  <2>1. EnsureWritable(b, len) = MoveToFront(b)
    BY <1>3 DEF EnsureWritable, MakeSpace
  <2>2. kCheapPrepend + Readable(b) + len <= b.size
    BY <1>3 DEF Writable, Prependable, Readable, Good
  <2>. QED  BY <2>1, <2>2, MoveKeeps
<1>. QED  BY <1>1, <1>2, <1>3 DEF Writable, Good

\* Bytes stored at beginWrite() are added to the content.
LEMMA StoreAdds ==
  ASSUME NEW b, Good(b), NEW s \in Seq(Byte), b.writer + Len(s) <= b.size
  PROVE  /\ Good(Store(b, s)) /\ Content(Store(b, s)) = Content(b) \o s
         /\ Store(b, s).size = b.size /\ Store(b, s).writer = b.writer + Len(s)
<1> DEFINE m == [i \in DOMAIN b.mem |->
                   IF i \in b.writer..(b.writer + Len(s) - 1)
                   THEN s[i - b.writer + 1] ELSE b.mem[i]]
           r == Store(b, s)
<1>0. Len(s) \in Nat /\ DOMAIN b.mem = 0..(b.size - 1)
  BY LenProperties DEF Good
<1>1. m \in [0..(b.size - 1) -> Byte]
  <2>1. ASSUME NEW i \in 0..(b.size - 1), i \in b.writer..(b.writer + Len(s) - 1)
        PROVE  s[i - b.writer + 1] \in Byte
    <3>1. i - b.writer + 1 \in 1..Len(s)
      BY <1>0, <2>1 DEF Good
    <3>. QED  BY <3>1, ElementOfSeq
  <2>. QED  BY <1>0, <2>1 DEF Good
<1>2. m \in Memory
  BY <1>1 DEF Memory, Good
<1>3. /\ r.size = b.size /\ r.mem = m /\ r.reader = b.reader
      /\ r.writer = b.writer + Len(s)
  BY DEF Store, Good
<1>4. r \in [size : Nat, mem : Memory, reader : Nat, writer : Nat]
  <2>1. b.writer + Len(s) \in Nat
    BY <1>0 DEF Good
  <2>. QED  BY <1>2, <2>1 DEF Store, Good
<1>5. Good(r)
  BY <1>0, <1>1, <1>3, <1>4 DEF Good
<1>6. Readable(r) = Readable(b) + Len(s)
  BY <1>0, <1>3 DEF Readable, Good
<1>7. /\ Content(b) \o s \in Seq(Byte)
      /\ Len(Content(b) \o s) = Readable(b) + Len(s)
      /\ \A i \in 1..Readable(b) + Len(s) :
           (Content(b) \o s)[i] =
             IF i <= Readable(b) THEN Content(b)[i] ELSE s[i - Readable(b)]
  <2>1. Content(b) \in Seq(Byte) /\ Len(Content(b)) = Readable(b)
    BY ContentSeq
  <2>2. /\ Content(b) \o s \in Seq(Byte)
        /\ Len(Content(b) \o s) = Len(Content(b)) + Len(s)
        /\ \A i \in 1..Len(Content(b)) + Len(s) :
             (Content(b) \o s)[i] =
               IF i <= Len(Content(b)) THEN Content(b)[i] ELSE s[i - Len(Content(b))]
    BY <2>1, ConcatProperties
  <2>. QED  BY <2>1, <2>2
<1>8. ASSUME NEW i \in 1..(Readable(b) + Len(s))
      PROVE  Content(r)[i] = (Content(b) \o s)[i]
  <2>1. Content(r)[i] = m[b.reader + i - 1]
    BY <1>3, <1>5, <1>6, ContentSeq
  <2>2. CASE i <= Readable(b)
    <3>1. i \in 1..Readable(b) /\ b.reader + i - 1 \in 0..(b.size - 1)
          /\ b.reader + i - 1 < b.writer
      BY <1>0, <2>2, ContentSeq DEF Good, Readable
    <3>2. m[b.reader + i - 1] = b.mem[b.reader + i - 1]
      BY <1>0, <3>1 DEF Good
    <3>. QED  BY <1>7, <2>1, <2>2, <3>1, <3>2, ContentSeq
  <2>3. CASE ~(i <= Readable(b))
    <3> DEFINE j == b.reader + i - 1
    <3>1. /\ j \in b.writer..(b.writer + Len(s) - 1)
          /\ j \in DOMAIN b.mem
          /\ j - b.writer + 1 = i - Readable(b)
      BY <1>0, <2>3, ContentSeq DEF Good, Readable
    <3>2. Content(r)[i] = m[j]
      BY <2>1
    <3> HIDE DEF j
    <3>3. m[j] = s[j - b.writer + 1]
      BY <3>1
    <3>. QED  BY <1>7, <2>3, <3>1, <3>2, <3>3
  <2>. QED  BY <2>2, <2>3
<1>9. Content(r) = Content(b) \o s
  BY <1>5, <1>6, <1>7, <1>8, ContentSeq, SeqEqual
<1>. QED  BY <1>3, <1>5, <1>9

\* append adds exactly its bytes.
LEMMA AppendAdds ==
  ASSUME NEW b, Good(b), NEW s \in Seq(Byte)
  PROVE  Good(AppendBytes(b, s)) /\ Content(AppendBytes(b, s)) = Content(b) \o s
<1>1. Len(s) \in Nat
  BY LenProperties
<1> DEFINE e == EnsureWritable(b, Len(s))
<1>2. Good(e) /\ Content(e) = Content(b) /\ e.writer + Len(s) <= e.size
  BY <1>1, EnsureMakesRoom
<1>3. AppendBytes(b, s) = Store(e, s)
  BY DEF AppendBytes
<1> HIDE DEF e
<1>. QED  BY <1>2, <1>3, StoreAdds

\* A sequence is what comes before a place in it and what comes after.
LEMMA Split ==
  ASSUME NEW S, NEW s \in Seq(S), NEW n \in 0..Len(s)
  PROVE  /\ SubSeq(s, 1, n) \in Seq(S) /\ Len(SubSeq(s, 1, n)) = n
         /\ SubSeq(s, n + 1, Len(s)) \in Seq(S)
         /\ SubSeq(s, 1, n) \o SubSeq(s, n + 1, Len(s)) = s
<1>1. Len(s) \in Nat
  BY LenProperties
<1>2. \A i \in 1..Len(s) : s[i] \in S
  BY ElementOfSeq
<1>3. /\ SubSeq(s, 1, n) \in Seq(S)
      /\ Len(SubSeq(s, 1, n)) = IF 1 <= n THEN n - 1 + 1 ELSE 0
  BY <1>1, <1>2, SubSeqProperties
<1>4. SubSeq(s, n + 1, Len(s)) \in Seq(S)
  BY <1>1, <1>2, SubSeqProperties
<1>5. SubSeq(s, 1, n) \o SubSeq(s, n + 1, Len(s)) = SubSeq(s, 1, Len(s))
  <2>1. 1 \in 1..Len(s) + 1 /\ n \in (1 - 1)..Len(s) /\ Len(s) \in n..Len(s)
    BY <1>1
  <2>. QED  BY <2>1, ConcatAdjacentSubSeq
<1>6. SubSeq(s, 1, Len(s)) = s
  BY SubSeqFull
<1>7. Len(SubSeq(s, 1, n)) = n
  BY <1>1, <1>3
<1>8. SubSeq(s, 1, n) \o SubSeq(s, n + 1, Len(s)) = s
  BY <1>5, <1>6
<1>. QED  BY <1>3, <1>4, <1>7, <1>8, Zenon

\* readFd adds exactly the bytes readv delivered, whatever part of them came
\* through extrabuf.
LEMMA ReadFdAdds ==
  ASSUME NEW b, Good(b), NEW s \in Seq(Byte)
  PROVE  Good(ReadFd(b, s)) /\ Content(ReadFd(b, s)) = Content(b) \o s
<1>1. Len(s) \in Nat /\ Writable(b) \in Nat
  BY LenProperties DEF Writable, Good
<1>2. CASE Len(s) <= Writable(b)
  <2>1. b.writer + Len(s) <= b.size
    BY <1>1, <1>2 DEF Writable, Good
  <2>. QED  BY <1>2, <2>1, StoreAdds DEF ReadFd
<1>3. CASE ~(Len(s) <= Writable(b))
  <2>1. PICK s1 \in Seq(Byte), s2 \in Seq(Byte) :
          /\ s1 = SubSeq(s, 1, Writable(b)) /\ s2 = SubSeq(s, Writable(b) + 1, Len(s))
          /\ Len(s1) = Writable(b)
          /\ s1 \o s2 = s
    <3>1. Writable(b) \in 0..Len(s)
      BY <1>1, <1>3
    <3>2. /\ SubSeq(s, 1, Writable(b)) \in Seq(Byte)
          /\ SubSeq(s, Writable(b) + 1, Len(s)) \in Seq(Byte)
          /\ Len(SubSeq(s, 1, Writable(b))) = Writable(b)
          /\ SubSeq(s, 1, Writable(b)) \o SubSeq(s, Writable(b) + 1, Len(s)) = s
      BY <3>1, Split
    <3>. QED  BY <3>2, Zenon
  <2>3. ReadFd(b, s) = AppendBytes(Store(b, s1), s2)
    BY <1>3, <2>1 DEF ReadFd
  <2>2. b.writer + Len(s1) <= b.size
    <3>1. Len(s1) = Writable(b)
      BY <2>1
    <3>2. b.writer + Writable(b) <= b.size
      BY DEF Writable, Good
    <3>. QED  BY <3>1, <3>2
  <2>4. Good(Store(b, s1)) /\ Content(Store(b, s1)) = Content(b) \o s1
    BY <2>1, <2>2, StoreAdds
  <2>5. /\ Good(ReadFd(b, s))
        /\ Content(ReadFd(b, s)) = (Content(b) \o s1) \o s2
    BY <2>1, <2>3, <2>4, AppendAdds
  <2>6. Content(b) \in Seq(Byte)
    BY ContentSeq
  <2>7. (Content(b) \o s1) \o s2 = Content(b) \o s
    <3>1. (Content(b) \o s1) \o s2 = Content(b) \o (s1 \o s2)
      BY <2>6, ConcatAssociative
    <3>. QED  BY <2>1, <3>1
  <2>. QED  BY <2>5, <2>7
<1>. QED  BY <1>2, <1>3

\* retrieve takes exactly len bytes off the front.
LEMMA RetrieveTakes ==
  ASSUME NEW b, Good(b), NEW len \in 0..Readable(b)
  PROVE  /\ Good(Retrieve(b, len))
         /\ Content(Retrieve(b, len)) = SubSeq(Content(b), len + 1, Readable(b))
<1>1. /\ Readable(b) \in Nat /\ Content(b) \in Seq(Byte)
      /\ Len(Content(b)) = Readable(b)
      /\ \A i \in 1..Readable(b) : Content(b)[i] = b.mem[b.reader + i - 1]
  BY ContentSeq
<1>2. /\ SubSeq(Content(b), len + 1, Readable(b)) \in Seq(Byte)
      /\ Len(SubSeq(Content(b), len + 1, Readable(b))) = Readable(b) - len
      /\ \A i \in 1..(Readable(b) - len) :
            SubSeq(Content(b), len + 1, Readable(b))[i] = Content(b)[len + i]
  <2>1. \A i \in 1..Readable(b) : Content(b)[i] \in Byte
    BY <1>1, ElementOfSeq
  <2> DEFINE c == Content(b)
             m == len + 1
             n == Readable(b)
  <2>2. \A i \in m..n : c[i] \in Byte
    BY <2>1
  <2>3. m \in Int /\ n \in Int
    BY <1>1
  <2>4. /\ SubSeq(c, m, n) \in Seq(Byte)
        /\ Len(SubSeq(c, m, n)) = IF m <= n THEN n - m + 1 ELSE 0
        /\ \A i \in 1..n - m + 1 : SubSeq(c, m, n)[i] = c[m + i - 1]
    <3> HIDE DEF c, m, n
    <3>. QED  BY <2>2, <2>3, SubSeqProperties
  <2>5. n - m + 1 = n - len
    BY <2>3
  <2>6. \A i \in 1..(n - len) : m + i - 1 = len + i
    OBVIOUS
  <2>7. Len(SubSeq(c, m, n)) = n - len
    BY <2>3, <2>4, <2>5
  <2>. QED  BY <2>4, <2>5, <2>6, <2>7
<1>3. CASE len < Readable(b)
  <2> DEFINE r == [b EXCEPT !.reader = @ + len]
  <2>1. Retrieve(b, len) = r
    BY <1>3 DEF Retrieve
  <2>2. /\ r.reader = b.reader + len /\ r.writer = b.writer
        /\ r.size = b.size /\ r.mem = b.mem
    BY DEF Good
  <2>3. Good(r)
    <3>1. b.reader + len \in Nat
      BY DEF Good
    <3>2. r \in [size : Nat, mem : Memory, reader : Nat, writer : Nat]
      BY <3>1 DEF Good
    <3>3. kCheapPrepend <= b.reader + len /\ b.reader + len <= b.writer
      BY <1>1, <1>3 DEF Good, Readable
    <3> HIDE DEF r
    <3>. QED  BY <2>2, <3>2, <3>3 DEF Good
  <2>4. Readable(r) = Readable(b) - len
    BY <1>1, <2>2 DEF Readable, Good
  <2> HIDE DEF r
  <2>5. ASSUME NEW i \in 1..(Readable(b) - len)
        PROVE  Content(r)[i] = Content(b)[len + i]
    <3>1. Content(r)[i] = b.mem[b.reader + len + i - 1]
      BY <2>2, <2>3, <2>4, ContentSeq
    <3>2. len + i \in 1..Readable(b)
      BY <1>1
    <3>3. b.reader + (len + i) - 1 = b.reader + len + i - 1
      BY <1>1 DEF Good
    <3>. QED  BY <1>1, <3>1, <3>2, <3>3
  <2>6. Content(r) \in Seq(Byte) /\ Len(Content(r)) = Readable(b) - len
    BY <2>3, <2>4, ContentSeq
  <2>7. Content(r) = SubSeq(Content(b), len + 1, Readable(b))
    BY <1>2, <2>5, <2>6, SeqEqual
  <2>. QED  BY <2>1, <2>3, <2>7
<1>4. CASE len = Readable(b)
  <2> DEFINE r == RetrieveAll(b)
  <2>1. Retrieve(b, len) = r
    BY <1>1, <1>4 DEF Retrieve
  <2>2. /\ r.reader = kCheapPrepend /\ r.writer = kCheapPrepend
        /\ r.size = b.size /\ r.mem = b.mem
        /\ r \in [size : Nat, mem : Memory, reader : Nat, writer : Nat]
    BY DEF RetrieveAll, Good
  <2>3. Good(r)
    BY <2>2 DEF Good
  <2>4. Readable(r) = 0
    BY <2>2 DEF Readable
  <2>5. Content(r) = <<>>
    BY <2>3, <2>4, ContentSeq, EmptySeq
  <2>6. SubSeq(Content(b), len + 1, Readable(b)) = <<>>
    BY <1>1, <1>2, <1>4, EmptySeq
  <2>. QED  BY <2>1, <2>3, <2>5, <2>6
<1>. QED  BY <1>1, <1>3, <1>4

------------------------------------------------------------------------------
BufferInv ==
  Good(buf) /\ in \in Seq(Byte) /\ out \in Seq(Byte) /\ BytesKeptInOrder

LEMMA TakeKeeps ==
  ASSUME BufferInv, NEW n \in 0..Readable(buf), buf' = Retrieve(buf, n),
         out' = out \o SubSeq(Content(buf), 1, n), in' = in
  PROVE  BufferInv'
<1>1. Content(buf) \in Seq(Byte) /\ Len(Content(buf)) = Readable(buf)
  BY ContentSeq DEF BufferInv
<1>2. PICK s1 \in Seq(Byte), s2 \in Seq(Byte) :
        /\ s1 = SubSeq(Content(buf), 1, n)
        /\ s2 = SubSeq(Content(buf), n + 1, Readable(buf))
        /\ s1 \o s2 = Content(buf)
  <2>1. n \in 0..Len(Content(buf))
    BY <1>1
  <2>2. /\ SubSeq(Content(buf), 1, n) \in Seq(Byte)
        /\ SubSeq(Content(buf), n + 1, Len(Content(buf))) \in Seq(Byte)
        /\ SubSeq(Content(buf), 1, n) \o SubSeq(Content(buf), n + 1, Len(Content(buf)))
              = Content(buf)
    BY <1>1, <2>1, Split
  <2>. QED  BY <1>1, <2>2, Zenon
<1>3. Good(buf') /\ Content(buf)' = s2
  BY <1>2, RetrieveTakes DEF BufferInv
<1>4. out' = out \o s1
  BY <1>2
<1>5. (out \o s1) \o s2 = out \o Content(buf)
  <2>1. out \in Seq(Byte)
    BY DEF BufferInv
  <2>2. (out \o s1) \o s2 = out \o (s1 \o s2)
    BY <2>1, ConcatAssociative
  <2>. QED  BY <1>2, <2>2
<1>6. out' \in Seq(Byte)
  BY <1>2, <1>4, ConcatProperties DEF BufferInv
<1>. QED  BY <1>3, <1>4, <1>5, <1>6 DEF BufferInv, BytesKeptInOrder

LEMMA BringKeeps ==
  ASSUME BufferInv, NEW s \in Seq(Byte), in' = in \o s, out' = out,
         Good(buf'), Content(buf)' = Content(buf) \o s
  PROVE  BufferInv'
<1>1. Content(buf) \in Seq(Byte)
  BY ContentSeq DEF BufferInv
<1>2. in' \in Seq(Byte)
  BY ConcatProperties DEF BufferInv
<1>3. (out \o Content(buf)) \o s = out \o (Content(buf) \o s)
  BY <1>1, ConcatAssociative DEF BufferInv
<1>. QED  BY <1>2, <1>3 DEF BufferInv, BytesKeptInOrder

LEMMA DataSeq == ASSUME NEW s \in Data PROVE s \in Seq(Byte)
BY DEF Data

LEMMA BufferInvInductive ==
  /\ Init => BufferInv
  /\ BufferInv /\ [Next]_vars => BufferInv'
<1>1. Init => BufferInv
  <2>1. <<>> \in Seq(Byte) /\ <<>> \o <<>> = <<>>
    BY EmptySeq, ConcatEmptySeq
  <2>. QED  BY <2>1, NewGood DEF Init, BufferInv, BytesKeptInOrder
<1>2. ASSUME BufferInv, [Next]_vars
      PROVE  BufferInv'
  <2>1. Good(buf)
    BY <1>2 DEF BufferInv
  <2>2. CASE CallAppend
    <3>1. PICK s \in Data : Bring(s) /\ buf' = AppendBytes(buf, s)
      BY <2>2 DEF CallAppend
    <3>. QED  BY <1>2, <2>1, <3>1, DataSeq, AppendAdds, BringKeeps DEF Bring
  <2>3. CASE CallEnsureWritable
    <3>1. PICK len \in 0..MaxLen : buf' = EnsureWritable(buf, len) /\ UNCHANGED <<in, out>>
      BY <2>3 DEF CallEnsureWritable
    <3>2. Good(buf') /\ Content(buf)' = Content(buf)
      BY <2>1, <3>1, EnsureMakesRoom
    <3>. QED  BY <1>2, <3>1, <3>2 DEF BufferInv, BytesKeptInOrder
  <2>4. CASE CallReadFd
    <3>1. PICK s \in Data : Bring(s) /\ buf' = ReadFd(buf, s)
      BY <2>4 DEF CallReadFd
    <3>. QED  BY <1>2, <2>1, <3>1, DataSeq, ReadFdAdds, BringKeeps DEF Bring
  <2>5. CASE CallRetrieve
    BY <1>2, <2>5, TakeKeeps DEF CallRetrieve
  <2>6. CASE CallWriteFd
    <3>1. PICK n \in 1..Readable(buf) :
            /\ buf' = Retrieve(buf, n)
            /\ out' = out \o SubSeq(Content(buf), 1, n)
            /\ in' = in
      BY <2>6 DEF CallWriteFd, WriteFd
    <3>. QED  BY <1>2, <3>1, TakeKeeps
  <2>7. CASE UNCHANGED vars
    BY <1>2, <2>7 DEF vars, BufferInv, BytesKeptInOrder
  <2>. QED  BY <1>2, <2>2, <2>3, <2>4, <2>5, <2>6, <2>7 DEF Next
<1>. QED  BY <1>1, <1>2

\* Buffer1.h:17: prependable, readable and writable bytes keep their order.
THEOREM IndicesOrdered == Spec => []IndexOrder
<1>1. BufferInv => IndexOrder
  BY DEF BufferInv, Good, IndexOrder
<1>. QED  BY <1>1, BufferInvInductive, PTL DEF Spec

\* What is taken out of a buffer, followed by what is still in it, is what was
\* put in.
THEOREM BytesAlwaysKept == Spec => []BytesKeptInOrder
<1>1. BufferInv => BytesKeptInOrder
  BY DEF BufferInv
<1>. QED  BY <1>1, BufferInvInductive, PTL DEF Spec

\* The indices and the vector keep their types: readerIndex_ and writerIndex_,
\* which are unsigned in the code, are never taken below zero.
THEOREM TypeCorrect == Spec => []TypeOK
<1>1. BufferInv => TypeOK
  BY DEF BufferInv, Good, TypeOK
<1>. QED  BY <1>1, BufferInvInductive, PTL DEF Spec
=============================================================================
