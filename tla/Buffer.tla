------------------------------- MODULE Buffer -------------------------------
(***************************************************************************)
(* The Buffer class: a vector with a reader and a writer index.            *)
(*                                                                         *)
(* A buffer is a record.  mem is the vector, indexed from 0 as in the      *)
(* code; size, reader and writer are buffer_.size(), readerIndex_ and      *)
(* writerIndex_.  The members that change it are operators on the record,  *)
(* composed as the code composes them.                                     *)
(***************************************************************************)
EXTENDS Naturals, Sequences

CONSTANTS
  Byte,
  Zero,            \* the byte resize() fills with
  kCheapPrepend,   \* 8 in the code
  kInitialSize,    \* 1024 in the code
  ExtraSize,       \* sizeof(extrabuf) in readFd, 65536 in the code
  MaxLen,          \* bound: bytes in one call
  MaxBytes         \* bound: bytes in all calls

ASSUME BufferAssumption ==
  /\ Zero \in Byte
  /\ kCheapPrepend \in Nat /\ kInitialSize \in Nat /\ ExtraSize \in Nat
  /\ MaxLen \in Nat /\ MaxBytes \in Nat

Readable(b) == b.writer - b.reader
Writable(b) == b.size - b.writer
Prependable(b) == b.reader

\* The readable bytes, from peek() on.
Content(b) == [i \in 1..Readable(b) |-> b.mem[b.reader + i - 1]]

NewBuffer ==
  [size |-> kCheapPrepend + kInitialSize,
   mem |-> [i \in 0..(kCheapPrepend + kInitialSize - 1) |-> Zero],
   reader |-> kCheapPrepend, writer |-> kCheapPrepend]

\* vector::resize to a larger size.
Resize(b, n) ==
  [b EXCEPT !.size = n,
            !.mem = [i \in 0..(n - 1) |-> IF i < b.size THEN b.mem[i] ELSE Zero]]

\* std::copy of the readable bytes to kCheapPrepend, and the new indices.
MoveToFront(b) ==
  [b EXCEPT !.mem = [i \in 0..(b.size - 1) |->
                       IF i \in kCheapPrepend..(kCheapPrepend + Readable(b) - 1)
                       THEN b.mem[b.reader + (i - kCheapPrepend)]
                       ELSE b.mem[i]],
            !.reader = kCheapPrepend,
            !.writer = kCheapPrepend + Readable(b)]

\* kCheapPrepend is left out of the comparison of line 112.
Mut_MakeSpace(b, len) ==
  IF Writable(b) + Prependable(b) < len
  THEN Resize(b, b.writer + len)
  ELSE MoveToFront(b)

MakeSpace(b, len) ==
  IF Writable(b) + Prependable(b) < len + kCheapPrepend
  THEN Resize(b, b.writer + len)
  ELSE MoveToFront(b)

EnsureWritable(b, len) == IF Writable(b) < len THEN MakeSpace(b, len) ELSE b

\* std::copy of s to beginWrite().
Store(b, s) ==
  [b EXCEPT !.mem = [i \in DOMAIN b.mem |->
                       IF i \in b.writer..(b.writer + Len(s) - 1)
                       THEN s[i - b.writer + 1] ELSE b.mem[i]],
            !.writer = b.writer + Len(s)]

AppendBytes(b, s) == Store(EnsureWritable(b, Len(s)), s)

RetrieveAll(b) == [b EXCEPT !.reader = kCheapPrepend, !.writer = kCheapPrepend]

Retrieve(b, len) ==
  IF len < Readable(b) THEN [b EXCEPT !.reader = @ + len] ELSE RetrieveAll(b)

\* What one readv can deliver: extrabuf is offered only to a small buffer.
ReadLimit(b) ==
  Writable(b) + IF Writable(b) < ExtraSize THEN ExtraSize ELSE 0

\* The bytes of extrabuf are appended before writerIndex_ is moved past those
\* readv put into the vector itself.
Mut_ReadFd(b, s) ==
  IF Len(s) <= Writable(b) THEN Store(b, s)
  ELSE AppendBytes(b, SubSeq(s, Writable(b) + 1, Len(s)))

\* readFd with s the bytes readv delivers: the first go to the vector, the
\* others through extrabuf.
ReadFd(b, s) ==
  IF Len(s) <= Writable(b) THEN Store(b, s)
  ELSE AppendBytes(Store(b, SubSeq(s, 1, Writable(b))),
                   SubSeq(s, Writable(b) + 1, Len(s)))

\* writeFd, when write() accepts n bytes.
WriteFd(b, n) == SubSeq(Content(b), 1, n)

------------------------------------------------------------------------------
VARIABLES
  buf,   \* the buffer
  in,    \* history: bytes appended, or delivered by readv
  out    \* history: bytes taken out

vars == <<buf, in, out>>

\* The vector has buffer_.size() bytes.
TypeOK ==
  /\ DOMAIN buf = {"size", "mem", "reader", "writer"}
  /\ buf.size \in Nat /\ buf.reader \in Nat /\ buf.writer \in Nat
  /\ buf.mem \in [0..(buf.size - 1) -> Byte]
  /\ in \in Seq(Byte) /\ out \in Seq(Byte)

Init == buf = NewBuffer /\ in = <<>> /\ out = <<>>

\* Bytes one call can bring in.
Data == UNION {[1..n -> Byte] : n \in 0..MaxLen}

Bring(s) ==
  /\ Len(in) + Len(s) <= MaxBytes
  /\ in' = in \o s
  /\ UNCHANGED out

CallAppend ==
  \E s \in Data :
    /\ Bring(s)
    /\ buf' = AppendBytes(buf, s)

CallEnsureWritable ==
  \E len \in 0..MaxLen :
    /\ buf.size <= kCheapPrepend + kInitialSize + MaxBytes
    /\ buf' = EnsureWritable(buf, len)
    /\ UNCHANGED <<in, out>>

CallReadFd ==
  \E s \in Data \ {<<>>} :
    /\ Len(s) <= ReadLimit(buf)
    /\ Bring(s)
    /\ buf' = ReadFd(buf, s)

\* retrieveAsString, and peek() with retrieve().
CallRetrieve ==
  \E len \in 0..Readable(buf) :
    /\ buf' = Retrieve(buf, len)
    /\ out' = out \o SubSeq(Content(buf), 1, len)
    /\ UNCHANGED in

\* What TcpConnection::handleWrite does with outputBuffer_.
CallWriteFd ==
  \E n \in 1..Readable(buf) :
    /\ buf' = Retrieve(buf, n)
    /\ out' = out \o WriteFd(buf, n)
    /\ UNCHANGED in

Next ==
  CallAppend \/ CallEnsureWritable \/ CallReadFd \/ CallRetrieve \/ CallWriteFd

Spec == Init /\ [][Next]_vars

------------------------------------------------------------------------------
\* Buffer1.h:17, and that the prependable space is never below kCheapPrepend.
IndexOrder ==
  /\ kCheapPrepend <= buf.reader
  /\ buf.reader <= buf.writer
  /\ buf.writer <= buf.size

\* Whatever makeSpace, append, readFd and retrieve do with the indices and the
\* vector, the bytes come out once, unchanged and in the order they went in.
BytesKeptInOrder == in = out \o Content(buf)
=============================================================================
