----------------------------- MODULE Buffer_proofs -----------------------------
(***************************************************************************)
(* Proofs about Buffer, for every size of the vector, of the reserve and   *)
(* of extrabuf: the indices stay in order, and the contents are what was   *)
(* handed in and not taken yet.  Each member function is one lemma: it     *)
(* keeps a buffer well formed and says what the result contains.           *)
(***************************************************************************)
EXTENDS Buffer, TLAPS

WellFormed(b) ==
  /\ b \in [size : Nat, bytes : [0..(b.size - 1) -> Nat], reader : Nat, writer : Nat]
  /\ CheapPrepend <= b.reader /\ b.reader <= b.writer /\ b.writer <= b.size

IInv ==
  /\ WellFormed(buf)
  /\ given \in Nat /\ taken \in Nat
  /\ overflowed \in BOOLEAN /\ undefined \in BOOLEAN
  /\ ContentsKept

-----------------------------------------------------------------------------
\* A well-formed buffer taken apart, and put together again.
Parts(b, size, bytes, reader, writer) ==
  /\ b = [size |-> size, bytes |-> bytes, reader |-> reader, writer |-> writer]
  /\ CheapPrepend <= reader /\ reader <= writer /\ writer <= size

LEMMA WellFormedHasParts ==
  ASSUME NEW b, WellFormed(b)
  PROVE  \E size \in Nat, reader \in Nat, writer \in Nat :
           \E bytes \in [0..(size - 1) -> Nat] : Parts(b, size, bytes, reader, writer)
<1>1. /\ b.size \in Nat /\ b.reader \in Nat /\ b.writer \in Nat
      /\ b.bytes \in [0..(b.size - 1) -> Nat]
      /\ Parts(b, b.size, b.bytes, b.reader, b.writer)
  BY DEF WellFormed, Parts
<1> QED BY <1>1

LEMMA PartsAreWellFormed ==
  ASSUME NEW size \in Nat, NEW bytes \in [0..(size - 1) -> Nat],
         NEW reader \in Nat, NEW writer \in Nat,
         CheapPrepend <= reader, reader <= writer, writer <= size
  PROVE  WellFormed([size |-> size, bytes |-> bytes, reader |-> reader, writer |-> writer])
BY DEF WellFormed

\* buffer_.resize() makes exactly the room asked for and keeps the contents.
LEMMA ResizedKeeps ==
  ASSUME NEW b, WellFormed(b), NEW len \in Nat, Writeable(b) < len
  PROVE  /\ WellFormed(Resized(b, len)) /\ Writeable(Resized(b, len)) = len
         /\ \A from, to \in Nat :
              Contains(b, from, to) => Contains(Resized(b, len), from, to)
<1>1. PICK size \in Nat, reader \in Nat, writer \in Nat :
        \E bytes \in [0..(size - 1) -> Nat] : Parts(b, size, bytes, reader, writer)
  BY WellFormedHasParts
<1>2. PICK bytes \in [0..(size - 1) -> Nat] : Parts(b, size, bytes, reader, writer)
  BY <1>1
<1>3. /\ b = [size |-> size, bytes |-> bytes, reader |-> reader, writer |-> writer]
      /\ CheapPrepend \in Nat
      /\ CheapPrepend <= reader /\ reader <= writer /\ writer <= size
  BY <1>2, BufferAssumption DEF Parts
<1> DEFINE grown == [i \in 0..(writer + len - 1) |-> IF i < size THEN bytes[i] ELSE 0]
<1>4. size < writer + len /\ writer + len \in Nat
  BY <1>3 DEF Writeable
<1>5. Resized(b, len)
        = [size |-> writer + len, bytes |-> grown, reader |-> reader, writer |-> writer]
  BY <1>3 DEF Resized
<1>6. grown \in [0..(writer + len - 1) -> Nat]
  OBVIOUS
<1>7. \A i \in reader..(writer - 1) : grown[i] = bytes[i]
  BY <1>3, <1>4
<1> HIDE DEF grown
<1>8. WellFormed(Resized(b, len))
  BY <1>3, <1>4, <1>5, <1>6, PartsAreWellFormed
<1>9. Writeable(Resized(b, len)) = len
  BY <1>5 DEF Writeable
<1>10. ASSUME NEW from \in Nat, NEW to \in Nat, Contains(b, from, to)
       PROVE  Contains(Resized(b, len), from, to)
  <2>1. /\ writer - reader = to - from
        /\ \A j \in reader..(writer - 1) : bytes[j] = from + (j - reader) + 1
    BY <1>3, <1>10 DEF Contains, Readable
  <2>2. \A j \in reader..(writer - 1) : grown[j] = from + (j - reader) + 1
    BY <1>7, <2>1
  <2> QED BY <1>5, <2>1, <2>2 DEF Contains, Readable
<1> QED BY <1>8, <1>9, <1>10

\* Compaction keeps the contents and turns what was consumed into room.
LEMMA CompactedKeeps ==
  ASSUME NEW b, WellFormed(b)
  PROVE  /\ WellFormed(Compacted(b))
         /\ Writeable(Compacted(b)) = Writeable(b) + Prependable(b) - CheapPrepend
         /\ \A from, to \in Nat : Contains(b, from, to) => Contains(Compacted(b), from, to)
<1>1. PICK size \in Nat, reader \in Nat, writer \in Nat :
        \E bytes \in [0..(size - 1) -> Nat] : Parts(b, size, bytes, reader, writer)
  BY WellFormedHasParts
<1>2. PICK bytes \in [0..(size - 1) -> Nat] : Parts(b, size, bytes, reader, writer)
  BY <1>1
<1>3. /\ b = [size |-> size, bytes |-> bytes, reader |-> reader, writer |-> writer]
      /\ CheapPrepend \in Nat
      /\ CheapPrepend <= reader /\ reader <= writer /\ writer <= size
  BY <1>2, BufferAssumption DEF Parts
<1> DEFINE front == CheapPrepend + (writer - reader)
           moved == [i \in 0..(size - 1) |-> IF i \in CheapPrepend..(front - 1)
                                            THEN bytes[i - CheapPrepend + reader] ELSE bytes[i]]
<1>4. front \in Nat /\ CheapPrepend <= front /\ front <= writer
  BY <1>3
<1>5. Compacted(b)
        = [size |-> size, bytes |-> moved, reader |-> CheapPrepend, writer |-> front]
  BY <1>3 DEF Compacted, Moved, Readable
<1>6. \A i \in CheapPrepend..(front - 1) :
        /\ i \in 0..(size - 1)
        /\ i - CheapPrepend + reader \in 0..(size - 1)
        /\ i - CheapPrepend + reader \in reader..(writer - 1)
  BY <1>3
<1>7. moved \in [0..(size - 1) -> Nat]
  BY <1>6
<1>8. \A i \in CheapPrepend..(front - 1) : moved[i] = bytes[i - CheapPrepend + reader]
  BY <1>6
<1> HIDE DEF moved
<1>9. WellFormed(Compacted(b))
  <2>1. CheapPrepend <= CheapPrepend /\ front <= size
    BY <1>3, <1>4
  <2> HIDE DEF front
  <2> QED BY <1>3, <1>4, <1>5, <1>7, <2>1, PartsAreWellFormed
<1>10. Writeable(Compacted(b)) = Writeable(b) + Prependable(b) - CheapPrepend
  BY <1>3, <1>5 DEF Writeable, Prependable
<1>11. ASSUME NEW from \in Nat, NEW to \in Nat, Contains(b, from, to)
       PROVE  Contains(Compacted(b), from, to)
  <2>1. /\ writer - reader = to - from
        /\ \A j \in reader..(writer - 1) : bytes[j] = from + (j - reader) + 1
    BY <1>3, <1>11 DEF Contains, Readable
  <2>2. \A i \in CheapPrepend..(front - 1) : moved[i] = from + (i - CheapPrepend) + 1
    <3> TAKE i \in CheapPrepend..(front - 1)
    <3>1. moved[i] = from + ((i - CheapPrepend + reader) - reader) + 1
      BY <1>6, <1>8, <2>1
    <3> QED BY <1>3, <3>1
  <2>3. front - CheapPrepend = to - from
    BY <1>3, <2>1
  <2> QED BY <1>5, <2>2, <2>3 DEF Contains, Readable
<1> QED BY <1>9, <1>10, <1>11

\* ensureWriteable(len) leaves room for len bytes and keeps the contents.
LEMMA EnsureWriteableKeeps ==
  ASSUME NEW b, WellFormed(b), NEW len \in Nat
  PROVE  /\ WellFormed(EnsureWriteable(b, len)) /\ Writeable(EnsureWriteable(b, len)) >= len
         /\ \A from, to \in Nat :
              Contains(b, from, to) => Contains(EnsureWriteable(b, len), from, to)
<1>1. Writeable(b) \in Nat /\ Prependable(b) \in Nat /\ CheapPrepend \in Nat
  BY BufferAssumption DEF WellFormed, Writeable, Prependable
<1>2. CASE Writeable(b) >= len
  BY <1>1, <1>2 DEF EnsureWriteable
<1>3. CASE Writeable(b) < len /\ Writeable(b) + Prependable(b) < len + CheapPrepend
  BY <1>1, <1>3, ResizedKeeps DEF EnsureWriteable, MakeSpace
<1>4. CASE Writeable(b) < len /\ Writeable(b) + Prependable(b) >= len + CheapPrepend
  BY <1>1, <1>4, CompactedKeeps DEF EnsureWriteable, MakeSpace
<1> QED BY <1>1, <1>2, <1>3, <1>4

\* Filling the room adds the next numbers behind the contents.
LEMMA FilledAdds ==
  ASSUME NEW b, WellFormed(b), NEW len \in Nat, len <= Writeable(b), NEW first \in Nat
  PROVE  /\ WellFormed(Filled(b, first, len))
         /\ \A from, to \in Nat :
              Contains(b, from, to) /\ first = to + 1
                => Contains(Filled(b, first, len), from, to + len)
<1>1. PICK size \in Nat, reader \in Nat, writer \in Nat :
        \E bytes \in [0..(size - 1) -> Nat] : Parts(b, size, bytes, reader, writer)
  BY WellFormedHasParts
<1>2. PICK bytes \in [0..(size - 1) -> Nat] : Parts(b, size, bytes, reader, writer)
  BY <1>1
<1>3. /\ b = [size |-> size, bytes |-> bytes, reader |-> reader, writer |-> writer]
      /\ CheapPrepend \in Nat
      /\ CheapPrepend <= reader /\ reader <= writer /\ writer <= size
  BY <1>2, BufferAssumption DEF Parts
<1> DEFINE filled == [i \in 0..(size - 1) |-> IF i \in writer..(writer + len - 1)
                                             THEN first + (i - writer) ELSE bytes[i]]
<1>4. writer + len <= size /\ writer + len \in Nat
  BY <1>3 DEF Writeable
<1>5. Filled(b, first, len)
        = [size |-> size, bytes |-> filled, reader |-> reader, writer |-> writer + len]
  BY <1>3 DEF Filled
<1>6. filled \in [0..(size - 1) -> Nat]
  OBVIOUS
<1>7. /\ \A i \in reader..(writer - 1) : filled[i] = bytes[i]
      /\ \A i \in writer..(writer + len - 1) : filled[i] = first + (i - writer)
  BY <1>3, <1>4
<1> HIDE DEF filled
<1>8. WellFormed(Filled(b, first, len))
  BY <1>3, <1>4, <1>5, <1>6, PartsAreWellFormed
<1>9. ASSUME NEW from \in Nat, NEW to \in Nat, Contains(b, from, to), first = to + 1
      PROVE  Contains(Filled(b, first, len), from, to + len)
  <2>1. /\ writer - reader = to - from
        /\ \A j \in reader..(writer - 1) : bytes[j] = from + (j - reader) + 1
    BY <1>3, <1>9 DEF Contains, Readable
  <2>2. \A i \in reader..(writer + len - 1) : filled[i] = from + (i - reader) + 1
    <3> TAKE i \in reader..(writer + len - 1)
    <3>1. CASE i < writer
      <4>1. i \in reader..(writer - 1)
        BY <3>1
      <4> QED BY <1>7, <2>1, <4>1
    <3>2. CASE i >= writer
      <4>1. i \in writer..(writer + len - 1)
        BY <3>2
      <4>2. filled[i] = to + 1 + (i - writer)
        BY <1>7, <1>9, <4>1
      <4> QED BY <2>1, <4>2
    <3> QED BY <3>1, <3>2
  <2>3. (writer + len) - reader = (to + len) - from
    BY <2>1
  <2> QED BY <1>5, <2>2, <2>3 DEF Contains, Readable
<1> QED BY <1>8, <1>9

\* retrieve() takes bytes from the front of the contents.
LEMMA RetrieveFromTakes ==
  ASSUME NEW b, WellFormed(b), NEW len \in Nat, len <= Readable(b)
  PROVE  /\ WellFormed(RetrieveFrom(b, len))
         /\ \A from, to \in Nat :
              Contains(b, from, to) => Contains(RetrieveFrom(b, len), from + len, to)
<1>1. PICK size \in Nat, reader \in Nat, writer \in Nat :
        \E bytes \in [0..(size - 1) -> Nat] : Parts(b, size, bytes, reader, writer)
  BY WellFormedHasParts
<1>2. PICK bytes \in [0..(size - 1) -> Nat] : Parts(b, size, bytes, reader, writer)
  BY <1>1
<1>3. /\ b = [size |-> size, bytes |-> bytes, reader |-> reader, writer |-> writer]
      /\ CheapPrepend \in Nat
      /\ CheapPrepend <= reader /\ reader <= writer /\ writer <= size
  BY <1>2, BufferAssumption DEF Parts
<1>4. Readable(b) = writer - reader /\ len <= writer - reader
  BY <1>3 DEF Readable
<1>5. CASE len < writer - reader
  <2>1. RetrieveFrom(b, len)
          = [size |-> size, bytes |-> bytes, reader |-> reader + len, writer |-> writer]
    BY <1>3, <1>4, <1>5 DEF RetrieveFrom
  <2>2. WellFormed(RetrieveFrom(b, len))
    <3>1. reader + len \in Nat /\ CheapPrepend <= reader + len /\ reader + len <= writer
      BY <1>3, <1>5
    <3> QED BY <1>3, <2>1, <3>1, PartsAreWellFormed
  <2>3. ASSUME NEW from \in Nat, NEW to \in Nat, Contains(b, from, to)
        PROVE  Contains(RetrieveFrom(b, len), from + len, to)
    <3>1. /\ writer - reader = to - from
          /\ \A j \in reader..(writer - 1) : bytes[j] = from + (j - reader) + 1
      BY <1>3, <2>3 DEF Contains, Readable
    <3>2. writer - (reader + len) = to - (from + len)
      BY <3>1
    <3>3. \A j \in (reader + len)..(writer - 1) :
            bytes[j] = (from + len) + (j - (reader + len)) + 1
      <4> TAKE j \in (reader + len)..(writer - 1)
      <4>1. j \in reader..(writer - 1)
        OBVIOUS
      <4>2. bytes[j] = from + (j - reader) + 1
        BY <3>1, <4>1
      <4> QED BY <4>1, <4>2
    <3> QED BY <2>1, <3>2, <3>3 DEF Contains, Readable
  <2> QED BY <2>2, <2>3
<1>6. CASE len = writer - reader
  <2>1. RetrieveFrom(b, len)
          = [size |-> size, bytes |-> bytes, reader |-> CheapPrepend, writer |-> CheapPrepend]
    BY <1>3, <1>4, <1>6 DEF RetrieveFrom
  <2>2. WellFormed(RetrieveFrom(b, len))
    <3>1. CheapPrepend <= size
      BY <1>3
    <3> QED BY <1>3, <2>1, <3>1, PartsAreWellFormed
  <2>3. ASSUME NEW from \in Nat, NEW to \in Nat, Contains(b, from, to)
        PROVE  Contains(RetrieveFrom(b, len), from + len, to)
    BY <1>3, <1>6, <2>1, <2>3 DEF Contains, Readable
  <2> QED BY <2>2, <2>3
<1> QED BY <1>3, <1>4, <1>5, <1>6

\* append() adds the next numbers behind the contents, whatever room there was.
LEMMA AppendToAdds ==
  ASSUME NEW b, WellFormed(b), NEW len \in Nat, NEW first \in Nat
  PROVE  /\ WellFormed(AppendTo(b, first, len))
         /\ \A from, to \in Nat :
              Contains(b, from, to) /\ first = to + 1
                => Contains(AppendTo(b, first, len), from, to + len)
<1> DEFINE e == EnsureWriteable(b, len)
<1>1. /\ WellFormed(e) /\ len <= Writeable(e)
      /\ \A from, to \in Nat : Contains(b, from, to) => Contains(e, from, to)
  <2>1. Writeable(e) >= len
    BY EnsureWriteableKeeps
  <2>2. WellFormed(e)
    BY EnsureWriteableKeeps
  <2>3. Writeable(e) \in Int
    BY <2>2 DEF WellFormed, Writeable
  <2> QED BY <2>1, <2>2, <2>3, EnsureWriteableKeeps
<1> HIDE DEF e
<1>2. /\ WellFormed(Filled(e, first, len))
      /\ \A from, to \in Nat :
           Contains(e, from, to) /\ first = to + 1
             => Contains(Filled(e, first, len), from, to + len)
  BY <1>1, FilledAdds
<1> QED BY <1>1, <1>2 DEF AppendTo, e

-----------------------------------------------------------------------------
\* The new buffer is empty and well formed.
LEMMA InitIInv == Init => IInv
<1> SUFFICES ASSUME Init PROVE IInv
  OBVIOUS
<1> DEFINE size == CheapPrepend + InitialSize
<1>1. /\ CheapPrepend \in Nat /\ size \in Nat /\ CheapPrepend <= size
      /\ CheapPrepend <= CheapPrepend
      /\ Zeros(size) \in [0..(size - 1) -> Nat]
  BY BufferAssumption DEF Zeros
<1>2. buf = [size |-> size, bytes |-> Zeros(size),
            reader |-> CheapPrepend, writer |-> CheapPrepend]
  BY DEF Init
<1> HIDE DEF size
<1>3. WellFormed(buf)
  BY <1>1, <1>2, PartsAreWellFormed
<1>4. Contains(buf, 0, 0)
  BY <1>1, <1>2 DEF Contains, Readable
<1> QED BY <1>3, <1>4 DEF Init, IInv, ContentsKept

\* Every operation preserves the inductive invariant.
LEMMA NextIInv == IInv /\ [Next]_vars => IInv'
<1> SUFFICES ASSUME IInv, [Next]_vars PROVE IInv'
  OBVIOUS
<1> USE DEF IInv
<1>1. ASSUME NEW n \in 1..MaxBytes, Append(n) PROVE IInv'
  <2>1. n \in Nat /\ given + 1 \in Nat /\ given' = given + n /\ given' \in Nat
    BY <1>1, BufferAssumption DEF Append
  <2>2. WellFormed(buf') /\ (Contains(buf, taken, given) => Contains(buf', taken, given'))
    BY <1>1, <2>1, AppendToAdds DEF Append
  <2> QED BY <1>1, <2>1, <2>2 DEF Append, ContentsKept
<1>2. ASSUME NEW n \in 1..MaxReserve, Reserve(n) PROVE IInv'
  <2>1. n \in Nat
    BY BufferAssumption
  <2>2. WellFormed(buf') /\ (Contains(buf, taken, given) => Contains(buf', taken, given))
    BY <1>2, <2>1, EnsureWriteableKeeps DEF Reserve
  <2> QED BY <1>2, <2>2 DEF Reserve, ContentsKept
<1>3. ASSUME NEW n \in 1..MaxBytes, Retrieve(n) PROVE IInv'
  <2>1. n \in Nat /\ n <= Readable(buf) /\ taken' = taken + n /\ taken' \in Nat
    BY <1>3, BufferAssumption DEF Retrieve
  <2>2. WellFormed(buf') /\ (Contains(buf, taken, given) => Contains(buf', taken', given))
    BY <1>3, <2>1, RetrieveFromTakes DEF Retrieve
  <2> QED BY <1>3, <2>1, <2>2 DEF Retrieve, ContentsKept
<1>4. ASSUME NEW n \in 1..MaxBytes, ReadFd(n) PROVE IInv'
  <2>1. /\ n \in Nat /\ n <= Writeable(buf) /\ given + 1 \in Nat
        /\ given' = given + n /\ given' \in Nat
    BY <1>4, BufferAssumption DEF ReadFd
  <2>2. WellFormed(buf') /\ (Contains(buf, taken, given) => Contains(buf', taken, given'))
    BY <1>4, <2>1, FilledAdds DEF ReadFd
  <2> QED BY <1>4, <2>1, <2>2 DEF ReadFd, ContentsKept
<1>5. ASSUME NEW n \in 1..MaxBytes, ReadFdOverflows(n) PROVE IInv'
  <2>1. n \in Nat /\ given' \in Nat /\ overflowed' = TRUE /\ taken' = taken
    BY <1>5, BufferAssumption DEF ReadFdOverflows
  <2>2. WellFormed(buf') /\ undefined' \in BOOLEAN
    <3>1. CASE n < ExtraSize
      BY <1>5, <3>1 DEF ReadFdOverflows, WellFormed
    <3>2. CASE ~(n < ExtraSize)
      <4> DEFINE f == Filled(buf, given + 1, Writeable(buf))
      <4>1. /\ Writeable(buf) \in Nat /\ Writeable(buf) <= Writeable(buf)
            /\ n - ExtraSize \in Nat
            /\ given + 1 \in Nat /\ given + Writeable(buf) + 1 \in Nat
        BY <2>1, <3>2, BufferAssumption DEF WellFormed, Writeable
      <4>2. WellFormed(f)
        BY <4>1, FilledAdds
      <4> HIDE DEF f
      <4>3. WellFormed(AppendTo(f, given + Writeable(buf) + 1, n - ExtraSize))
        BY <4>1, <4>2, AppendToAdds
      <4> QED BY <1>5, <3>2, <4>3 DEF ReadFdOverflows, f
    <3> QED BY <3>1, <3>2
  <2> QED BY <2>1, <2>2 DEF ContentsKept
<1>6. CASE UNCHANGED vars
  BY <1>6 DEF vars, WellFormed, ContentsKept, Contains, Readable
<1> QED BY <1>1, <1>2, <1>3, <1>4, <1>5, <1>6 DEF Next

\* The inductive invariant holds always.
THEOREM Invariance == Spec => []IInv
  BY InitIInv, NextIInv, PTL DEF Spec

\* The buffer keeps to its type: as many bytes as size() says.
THEOREM Typing == Spec => []TypeOK
<1>1. IInv => TypeOK
  BY DEF IInv, WellFormed, TypeOK
<1> QED BY <1>1, Invariance, PTL

\* readerIndex_ and writerIndex_ never leave the vector nor pass each other (makeSpace,
\* retrieve, append).
THEOREM IndexesStayInOrder == Spec => []IndexesInOrder
<1>1. IInv => IndexesInOrder
  BY DEF IInv, WellFormed, IndexesInOrder
<1> QED BY <1>1, Invariance, PTL

\* As long as no read goes through extrabuf, the buffer is a faithful queue of bytes.
THEOREM ContentsAreKept == Spec => []ContentsKept
<1>1. IInv => ContentsKept
  BY DEF IInv
<1> QED BY <1>1, Invariance, PTL
==============================================================================
