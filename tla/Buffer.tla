-------------------------------- MODULE Buffer --------------------------------
(***************************************************************************)
(* A Buffer: one vector with a reader and a writer index, filled by        *)
(* append() and by readFd() from a socket, emptied by retrieve().          *)
(*                                                                         *)
(* Bytes are numbered in the order in which they are handed to the buffer, *)
(* so that the buffer is right when it holds the numbers from taken + 1 to *)
(* given.  0 stands for a byte of the vector nobody wrote.  One thread     *)
(* uses a Buffer: every operation is a step.                               *)
(***************************************************************************)
EXTENDS Integers

CONSTANTS
  CheapPrepend,   \* kCheapPrepend
  InitialSize,    \* initialSize
  ExtraSize,      \* sizeof(extrabuf)
  MaxBytes,       \* bound on the bytes given to the buffer
  MaxReserve      \* bound on the argument of ensureWriteable()

ASSUME BufferAssumption ==
  /\ CheapPrepend \in Nat /\ InitialSize \in Nat
  /\ ExtraSize \in Nat \ {0}
  /\ MaxBytes \in Nat /\ MaxReserve \in Nat

VARIABLES
  buf,          \* buffer_ (its size and its bytes), readerIndex_, writerIndex_
  given,        \* bytes handed to the buffer so far
  taken,        \* bytes retrieved from it so far
  overflowed,   \* a readFd() went through extrabuf
  undefined     \* a copy with a negative length: the run is undefined from here on

vars == <<buf, given, taken, overflowed, undefined>>

\* A vector of n chars.
Zeros(n) == [i \in 0..(n - 1) |-> 0]

Init ==
  /\ buf = [size   |-> CheapPrepend + InitialSize,
            bytes  |-> Zeros(CheapPrepend + InitialSize),
            reader |-> CheapPrepend,
            writer |-> CheapPrepend]
  /\ given = 0 /\ taken = 0
  /\ overflowed = FALSE /\ undefined = FALSE

-----------------------------------------------------------------------------
\* The member functions, as functions of the buffer.

Readable(b)    == b.writer - b.reader
Writeable(b)   == b.size - b.writer
Prependable(b) == b.reader

\* Mutant of Resized: buffer_.reserve().
Reserved(b, len) ==
  [size |-> b.writer + len, bytes |-> b.bytes, reader |-> b.reader, writer |-> b.writer]

\* buffer_.resize(writerIndex_ + len)
Resized(b, len) ==
  [size   |-> b.writer + len,
   bytes  |-> [i \in 0..(b.writer + len - 1) |-> IF i < b.size THEN b.bytes[i] ELSE 0],
   reader |-> b.reader,
   writer |-> b.writer]

\* std::copy of the readable bytes to the front.
Moved(b) ==
  [i \in 0..(b.size - 1) |->
     IF i \in CheapPrepend..(CheapPrepend + Readable(b) - 1)
     THEN b.bytes[i - CheapPrepend + b.reader] ELSE b.bytes[i]]

\* Mutant of Compacted: readableBytes() is asked for after readerIndex_ was reset.
LateCompacted(b) ==
  [size |-> b.size, bytes |-> Moved(b), reader |-> CheapPrepend, writer |-> b.writer]

Compacted(b) ==
  [size   |-> b.size,
   bytes  |-> Moved(b),
   reader |-> CheapPrepend,
   writer |-> CheapPrepend + Readable(b)]

\* Mutant of MakeSpace: the reserve in front is counted as room.
GreedyMakeSpace(b, len) ==
  IF Writeable(b) + Prependable(b) < len THEN Resized(b, len) ELSE Compacted(b)

MakeSpace(b, len) ==
  IF Writeable(b) + Prependable(b) < len + CheapPrepend THEN Resized(b, len) ELSE Compacted(b)

EnsureWriteable(b, len) == IF Writeable(b) < len THEN MakeSpace(b, len) ELSE b

\* "len" bytes, numbered from "first", written behind the readable ones.
Filled(b, first, len) ==
  [size   |-> b.size,
   bytes  |-> [i \in 0..(b.size - 1) |->
                 IF i \in b.writer..(b.writer + len - 1)
                 THEN first + (i - b.writer) ELSE b.bytes[i]],
   reader |-> b.reader,
   writer |-> b.writer + len]

AppendTo(b, first, len) == Filled(EnsureWriteable(b, len), first, len)

\* retrieve, and with len = Readable(b) retrieveAll.
RetrieveFrom(b, len) ==
  [size   |-> b.size,
   bytes  |-> b.bytes,
   reader |-> IF len < Readable(b) THEN b.reader + len ELSE CheapPrepend,
   writer |-> IF len < Readable(b) THEN b.writer ELSE CheapPrepend]

-----------------------------------------------------------------------------
Append(len) ==
  /\ ~undefined /\ given + len <= MaxBytes
  /\ buf' = AppendTo(buf, given + 1, len)
  /\ given' = given + len
  /\ UNCHANGED <<taken, overflowed, undefined>>

Reserve(len) ==
  /\ ~undefined
  /\ buf' = EnsureWriteable(buf, len)
  /\ UNCHANGED <<given, taken, overflowed, undefined>>

\* The caller asks for no more than there is, as retrieveAsString requires.
Retrieve(len) ==
  /\ ~undefined /\ len <= Readable(buf)
  /\ buf' = RetrieveFrom(buf, len)
  /\ taken' = taken + len
  /\ UNCHANGED <<given, overflowed, undefined>>

\* readFd: readv() filled part of the room behind writerIndex_.
ReadFd(n) ==
  /\ ~undefined /\ given + n <= MaxBytes
  /\ n <= Writeable(buf)
  /\ buf' = Filled(buf, given + 1, n)
  /\ given' = given + n
  /\ UNCHANGED <<taken, overflowed, undefined>>

\* readFd: readv() filled that room and part of extrabuf.  What is appended then is the
\* first n - sizeof(extrabuf) bytes of extrabuf; below zero the length wraps around.
ReadFdOverflows(n) ==
  /\ ~undefined /\ given + n <= MaxBytes
  /\ Writeable(buf) < ExtraSize
  /\ n \in (Writeable(buf) + 1)..(Writeable(buf) + ExtraSize)
  /\ overflowed' = TRUE
  /\ IF n < ExtraSize
     THEN undefined' = TRUE /\ UNCHANGED buf
     ELSE /\ buf' = AppendTo(Filled(buf, given + 1, Writeable(buf)),
                             given + Writeable(buf) + 1, n - ExtraSize)
          /\ UNCHANGED undefined
  /\ given' = given + n
  /\ UNCHANGED taken

Next ==
  \/ \E n \in 1..MaxBytes :
       Append(n) \/ Retrieve(n) \/ ReadFd(n) \/ ReadFdOverflows(n)
  \/ \E n \in 1..MaxReserve : Reserve(n)

Spec == Init /\ [][Next]_vars

-----------------------------------------------------------------------------
TypeOK ==
  /\ buf \in [size : Nat, bytes : [0..(buf.size - 1) -> Nat], reader : Nat, writer : Nat]
  /\ given \in Nat /\ taken \in Nat
  /\ overflowed \in BOOLEAN /\ undefined \in BOOLEAN

\* The reserve, the consumed, the readable and the writeable part follow each other within
\* the vector, whatever was appended, retrieved, moved and resized (makeSpace, retrieve):
\* no operation writes beyond the vector or reads a byte outside the readable part.
IndexesInOrder ==
  CheapPrepend <= buf.reader /\ buf.reader <= buf.writer /\ buf.writer <= buf.size

\* The readable bytes are those from number "from" + 1 to number "to".
Contains(b, from, to) ==
  /\ Readable(b) = to - from
  /\ \A i \in b.reader..(b.writer - 1) : b.bytes[i] = from + (i - b.reader) + 1

\* The buffer holds, in order, exactly what was handed to it and not yet taken, as long as
\* no read needed extrabuf: growing and compacting lose, repeat and reorder nothing
\* (append, retrieve, makeSpace, readFd).
ContentsKept == ~overflowed => Contains(buf, taken, given)

\* The comment at Buffer.cc:54-55: what does not fit is kept in extrabuf and appended to
\* the buffer once it has grown; so no byte read is ever lost.
ReadsAreKept == ~undefined /\ Contains(buf, taken, given)
==============================================================================
