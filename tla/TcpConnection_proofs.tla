------------------------- MODULE TcpConnection_proofs -------------------------
(***************************************************************************)
(* What TLAPS proves of TcpConnection, for any messages, files, sizes,     *)
(* users, room in the kernel's buffer and high-water mark.                 *)
(***************************************************************************)
EXTENDS TcpConnection, QueueLemmas

-----------------------------------------------------------------------------
\* Bytes and functors, as the model builds them.
AllBytes == (Messages \cup Files \cup {"garbage"}) \X Nat

Functors ==
  [op : {"connectEstablished", "connectDestroyed", "writeComplete", "highWaterMark"}]
    \cup [op : {"sendInLoop"}, data : Messages, by : Users]
    \cup [op : {"sendFileInLoop"}, file : Files, offset : Nat, count : Nat]
    \cup [op : {"shutdownInLoop"}, by : Users]

\* Of a queue: nothing or only its first functor is connectEstablished, and somewhere is
\* connectDestroyed.
NoEst(q) == \A i \in 1..Len(q) : q[i].op # "connectEstablished"
EstFirst(q) ==
  /\ q # << >> /\ Head(q).op = "connectEstablished"
  /\ NoEst(Tail(q))
HasDes(q) == \E i \in 1..Len(q) : q[i].op = "connectDestroyed"

\* The types.
Shapes ==
  /\ state \in States /\ events \in SUBSET {"read", "write"}
  /\ index \in {"kNew", "kAdded", "kDeleted"}
  /\ outputBuffer \in Seq(AllBytes) /\ wire \in Seq(AllBytes) /\ accepted \in Seq(AllBytes)
  /\ pending \in Seq(Functors) /\ batch \in Seq(Functors)
  /\ held \in BOOLEAN /\ loopPc \in {"poll", "handle", "run"}
  /\ revents \in SUBSET {"HUP", "ERR", "IN", "OUT"}
  /\ space \in 0..SndBuf /\ peer \in {"open", "fin", "reset"}
  /\ shutWr \in BOOLEAN /\ inbound \in BOOLEAN /\ sockErr \in BOOLEAN
  /\ inMap \in BOOLEAN /\ serverGone \in BOOLEAN /\ destroyed \in BOOLEAN
  /\ closing \in Nat /\ ups \in Nat /\ downs \in Nat
  /\ pc \in [Users -> {"idle", "shutdown", "disconnecting"} \cup Messages \cup Files]
  /\ refs \in SUBSET Users /\ freed \in SUBSET Messages /\ unsent \in SUBSET (Messages \cup Files)

\* connectEstablished is the first functor to run, and runs once; before it the channel
\* is idle and nobody has a pointer to the connection.
UpFirst ==
  /\ ups = 0 =>
       /\ (batch = << >> /\ EstFirst(pending)) \/ (EstFirst(batch) /\ NoEst(pending))
       /\ events = {} /\ index = "kNew" /\ outputBuffer = << >> /\ revents = {}
       /\ downs = 0 /\ ~destroyed
  /\ ups > 0 => NoEst(batch) /\ NoEst(pending)
  /\ loopPc # "run" => batch = << >>
  /\ loopPc # "handle" => revents = {}

IInv == Shapes /\ OutputInOrder /\ UpFirst /\ WritingIffBuffered /\ HalfCloseAfterBuffer

\* Something will run connectDestroyed(), and holds the connection until then.
EndAhead == inMap \/ closing > 0 \/ HasDes(pending) \/ HasDes(batch)

\* Nobody is inside shutdown() off the loop.
NobodyOff == \A u \in Users : pc[u] \notin {"shutdown", "disconnecting"}

\* When shutdown() is called on the loop only: a connection that is being shut down has
\* been half-closed or is still writing, one that is down stays so, and after
\* connectDestroyed nothing can bring the channel back into the poller.
OnLoop ==
  /\ ups = 0 => state = "kConnecting"
  /\ ups > 0 => state # "kConnecting"
  /\ NobodyOff
  /\ downs > 0 => state = "kDisconnected"
  /\ state = "kDisconnecting" => shutWr \/ "write" \in events
  /\ destroyed =>
       /\ index = "kNew" /\ revents = {} /\ state # "kConnected"
       /\ state = "kDisconnecting" => "write" \in events \/ (shutWr /\ outputBuffer = << >>)
  /\ ~destroyed => EndAhead

-----------------------------------------------------------------------------
\* Sequences of bytes.
LEMMA BytesOf ==
  ASSUME NEW x \in Messages \cup Files \cup {"garbage"}, NEW from \in Nat \ {0}, NEW to \in Nat,
         from <= to + 1
  PROVE  Bytes(x, from, to) \in Seq(AllBytes) /\ Len(Bytes(x, from, to)) = to - from + 1
<1> DEFINE n == to - from + 1
           s == Bytes(x, from, to)
<1>1. n \in Nat
  OBVIOUS
<1>2. s \in [1..n -> AllBytes]
  <2>1. \A i \in 1..n : from + i - 1 \in Nat
    OBVIOUS
  <2> QED
    BY <2>1 DEF Bytes, AllBytes
<1>3. s \in Seq(AllBytes)
  BY <1>1, <1>2, SeqDef
<1>4. Len(s) = n
  BY <1>1, <1>2, <1>3, LenProperties
<1> QED
  BY <1>3, <1>4

\* What send() is given, whether or not its string still exists.
LEMMA MessagesAreBytes ==
  \A m \in Messages : Bytes(m, 1, Size[m]) \in Seq(AllBytes)
<1>1. ASSUME NEW m \in Messages, NEW to \in Nat
      PROVE  Bytes(m, 1, to) \in Seq(AllBytes)
  <2>1. 1 \in Nat \ {0} /\ 1 <= to + 1
    OBVIOUS
  <2> QED
    BY <2>1, BytesOf
<1> QED
  BY <1>1, TcpConnectionAssumption

LEMMA ContentsAreBytes ==
  \A m \in Messages : Contents(m) \in Seq(AllBytes)
<1>1. ASSUME NEW to \in Nat
      PROVE  Bytes("garbage", 1, to) \in Seq(AllBytes)
  <2>1. 1 \in Nat \ {0} /\ 1 <= to + 1
    OBVIOUS
  <2> QED
    BY <2>1, BytesOf
<1>2. \A m \in Messages : Size[m] \in Nat
  BY TcpConnectionAssumption
<1> QED
  BY <1>1, <1>2, MessagesAreBytes DEF Contents

\* A sequence cut in two.
LEMMA Cut ==
  ASSUME NEW S, NEW s \in Seq(S), NEW n \in 0..Len(s)
  PROVE  /\ SubSeq(s, 1, n) \in Seq(S) /\ From(s, n + 1) \in Seq(S)
         /\ SubSeq(s, 1, n) \o From(s, n + 1) = s
         /\ n = 0 => SubSeq(s, 1, n) = << >>
         /\ n = Len(s) <=> From(s, n + 1) = << >>
<1>1. Len(s) \in Nat /\ \A i \in 1..Len(s) : s[i] \in S
  BY LenProperties
<1>2. SubSeq(s, 1, n) \in Seq(S)
  BY <1>1, SubSeqProperties
<1>3. /\ From(s, n + 1) \in Seq(S)
      /\ Len(From(s, n + 1)) = Len(s) - n
  BY <1>1, SubSeqProperties DEF From
<1>4. SubSeq(s, 1, n) \o From(s, n + 1) = s
  <2>1. 1 \in 1..Len(s) + 1 /\ n \in 1 - 1..Len(s) /\ Len(s) \in n..Len(s)
    BY <1>1
  <2>2. SubSeq(s, 1, n) \o SubSeq(s, n + 1, Len(s)) = SubSeq(s, 1, Len(s))
    BY <2>1, ConcatAdjacentSubSeq
  <2> QED
    BY <2>2, SubSeqFull DEF From
<1>5. n = 0 => SubSeq(s, 1, n) = << >>
  BY SubSeqEmpty
<1>6. n = Len(s) <=> From(s, n + 1) = << >>
  <2>1. \A t \in Seq(S) : (Len(t) = 0) <=> (t = << >>)
    BY EmptySeq
  <2> QED
    BY <1>1, <1>3, <2>1
<1> QED
  BY <1>2, <1>3, <1>4, <1>5, <1>6

\* Concatenation of bytes is associative.
LEMMA BytesAssociate ==
  \A r, s, t \in Seq(AllBytes) : (r \o s) \o t = r \o (s \o t)
BY ConcatAssociative

-----------------------------------------------------------------------------
\* What a functor carries.
LEMMA FunctorFields ==
  ASSUME NEW f \in Functors
  PROVE  /\ f.op \in Ops
         /\ f.op = "sendInLoop" => f.data \in Messages
         /\ f.op = "sendFileInLoop" => f.file \in Files /\ f.offset \in Nat /\ f.count \in Nat
BY DEF Functors, Ops, Raw

\* The functors that are posted.
LEMMA FunctorsAre ==
  /\ [op |-> "connectEstablished"] \in Functors
  /\ [op |-> "connectDestroyed"] \in Functors
  /\ [op |-> "writeComplete"] \in Functors /\ [op |-> "highWaterMark"] \in Functors
  /\ \A m \in Messages, u \in Users : [op |-> "sendInLoop", data |-> m, by |-> u] \in Functors
  /\ \A f \in Files, o \in Nat, c \in Nat :
       [op |-> "sendFileInLoop", file |-> f, offset |-> o, count |-> c] \in Functors
  /\ \A u \in Users : [op |-> "shutdownInLoop", by |-> u] \in Functors
BY DEF Functors

\* A queue that grows at its end.
LEMMA QueueGrows ==
  ASSUME NEW s \in Seq(Functors), NEW t \in Seq(Functors), NoEst(t)
  PROVE  /\ s \o t \in Seq(Functors)
         /\ NoEst(s) => NoEst(s \o t)
         /\ EstFirst(s) => EstFirst(s \o t)
         /\ HasDes(s) \/ HasDes(t) => HasDes(s \o t)
<1>1. /\ s \o t \in Seq(Functors) /\ Len(s) \in Nat /\ Len(t) \in Nat
      /\ Len(s \o t) = Len(s) + Len(t)
      /\ \A i \in 1..Len(s) + Len(t) : (s \o t)[i] = IF i <= Len(s) THEN s[i] ELSE t[i - Len(s)]
  BY ConcatProperties, LenProperties
<1>2. ASSUME NEW q \in Seq(Functors), NoEst(q)
      PROVE  NoEst(q \o t)
  <2>1. /\ Len(q) \in Nat /\ Len(t) \in Nat /\ Len(q \o t) = Len(q) + Len(t)
        /\ \A i \in 1..Len(q) + Len(t) : (q \o t)[i] = IF i <= Len(q) THEN q[i] ELSE t[i - Len(q)]
    BY ConcatProperties, LenProperties
  <2>2. SUFFICES ASSUME NEW i \in 1..Len(q \o t)
                 PROVE  (q \o t)[i].op # "connectEstablished"
    BY DEF NoEst
  <2>3. CASE i <= Len(q)
    BY <1>2, <2>1, <2>3 DEF NoEst
  <2>4. CASE ~(i <= Len(q))
    <3>1. i - Len(q) \in 1..Len(t) /\ (q \o t)[i] = t[i - Len(q)]
      BY <2>1, <2>4
    <3> QED
      BY <3>1 DEF NoEst
  <2> QED
    BY <2>3, <2>4
<1>3. ASSUME EstFirst(s)
      PROVE  EstFirst(s \o t)
  <2>1. s # << >> /\ Tail(s) \in Seq(Functors) /\ NoEst(Tail(s))
    BY <1>3, HeadTailProperties DEF EstFirst
  <2>2. s \o t # << >> /\ Head(s \o t) = Head(s) /\ Tail(s \o t) = Tail(s) \o t
    BY <2>1, HeadOfSplitQueue
  <2> QED
    BY <1>2, <1>3, <2>1, <2>2 DEF EstFirst
<1>4. ASSUME HasDes(s)
      PROVE  HasDes(s \o t)
  BY <1>1, <1>4 DEF HasDes
<1>5. ASSUME HasDes(t)
      PROVE  HasDes(s \o t)
  <2>1. PICK i \in 1..Len(t) : t[i].op = "connectDestroyed"
    BY <1>5 DEF HasDes
  <2>2. Len(s) + i \in 1..Len(s \o t) /\ (s \o t)[Len(s) + i] = t[i]
    BY <1>1
  <2> QED
    BY <2>1, <2>2 DEF HasDes
<1> QED
  BY <1>1, <1>2, <1>3, <1>4, <1>5

\* A queue whose oldest functor is taken.
LEMMA QueueShrinks ==
  ASSUME NEW q \in Seq(Functors), q # << >>
  PROVE  /\ Head(q) \in Functors /\ Tail(q) \in Seq(Functors)
         /\ EstFirst(q) => Head(q).op = "connectEstablished" /\ NoEst(Tail(q))
         /\ NoEst(q) => Head(q).op # "connectEstablished" /\ NoEst(Tail(q))
         /\ HasDes(q) => Head(q).op = "connectDestroyed" \/ HasDes(Tail(q))
<1>1. /\ Head(q) \in Functors /\ Tail(q) \in Seq(Functors) /\ Len(Tail(q)) = Len(q) - 1
      /\ Len(q) \in Nat \ {0} /\ Head(q) = q[1]
      /\ \A i \in 1..Len(Tail(q)) : Tail(q)[i] = q[i + 1]
  BY HeadTailProperties, EmptySeq
<1>2. NoEst(q) => Head(q).op # "connectEstablished" /\ NoEst(Tail(q))
  BY <1>1 DEF NoEst
<1>3. ASSUME HasDes(q), Head(q).op # "connectDestroyed"
      PROVE  HasDes(Tail(q))
  <2>1. PICK i \in 1..Len(q) : q[i].op = "connectDestroyed"
    BY <1>3 DEF HasDes
  <2>2. i - 1 \in 1..Len(Tail(q)) /\ Tail(q)[i - 1] = q[i]
    BY <1>1, <1>3, <2>1
  <2> QED
    BY <2>1, <2>2 DEF HasDes
<1> QED
  BY <1>1, <1>2, <1>3 DEF EstFirst

\* A step posts functors other than connectEstablished, if any.
Posts == \E t \in Seq(Functors) : NoEst(t) /\ pending' = pending \o t

LEMMA Posted1 ==
  ASSUME Shapes, NEW f \in Functors, f.op # "connectEstablished",
         pending' = Append(pending, f)
  PROVE  Posts /\ (f.op = "connectDestroyed" => HasDes(pending'))
<1>1. pending' = pending \o <<f>> /\ <<f>> \in Seq(Functors)
  BY AppendIsConcat DEF Shapes
<1>2. NoEst(<<f>>)
  BY DEF NoEst
<1>3. f.op = "connectDestroyed" => HasDes(<<f>>)
  BY DEF HasDes
<1> QED
  BY <1>1, <1>2, <1>3, QueueGrows DEF Posts, Shapes

LEMMA PostedNone ==
  ASSUME Shapes, pending' = pending
  PROVE  Posts
<1>1. << >> \in Seq(Functors) /\ NoEst(<< >>) /\ pending \o << >> = pending
  BY EmptySeq, ConcatEmptySeq DEF NoEst, Shapes
<1> QED
  BY <1>1 DEF Posts

LEMMA AfterPosts ==
  ASSUME Shapes, Posts
  PROVE  /\ pending' \in Seq(Functors)
         /\ NoEst(pending) => NoEst(pending')
         /\ EstFirst(pending) => EstFirst(pending')
         /\ HasDes(pending) => HasDes(pending')
BY QueueGrows DEF Posts, Shapes
-----------------------------------------------------------------------------
\* The output path.

\* The kernel takes what it has room for, and only when nothing waits in front.
LEMMA TakenBounds ==
  ASSUME Shapes, NEW count \in Nat
  PROVE  /\ Taken(count) \in 0..count /\ Taken(count) <= space
         /\ Taken(count) > 0 => Direct /\ ~Broken
BY TcpConnectionAssumption DEF Shapes, Taken, Lesser

\* sendInLoop(): nothing changes order; either the rest is buffered and EPOLLOUT asked
\* for, or the buffer and the channel are left alone.
LEMMA SendInLoopKeeps ==
  ASSUME Shapes, OutputInOrder, NEW data \in Seq(AllBytes), SendInLoop(data)
  PROVE  /\ wire' \in Seq(AllBytes) /\ outputBuffer' \in Seq(AllBytes)
         /\ accepted' \in Seq(AllBytes) /\ space' \in 0..SndBuf
         /\ events' \in SUBSET {"read", "write"} /\ index' \in {"kNew", "kAdded", "kDeleted"}
         /\ Posts
         /\ OutputInOrder'
         /\ \/ UNCHANGED <<events, index, outputBuffer>>
            \/ /\ state # "kDisconnected" /\ ~(Direct /\ Broken) /\ outputBuffer' # << >>
               /\ events' = events \cup {"write"}
               /\ "write" \in events => index' = index
<1>1. CASE state = "kDisconnected" \/ (Direct /\ Broken)
  <2>1. UNCHANGED <<channel, outputBuffer, pending, space, wire, accepted>>
    BY <1>1 DEF SendInLoop
  <2>2. Posts
    BY <2>1, PostedNone
  <2> QED
    BY <2>1, <2>2 DEF channel, Shapes, OutputInOrder
<1>2. CASE ~(state = "kDisconnected" \/ (Direct /\ Broken))
  <2> DEFINE n == Taken(Len(data))
             sent == SubSeq(data, 1, n)
             rest == From(data, n + 1)
             done == IF rest = << >> THEN << [op |-> "writeComplete"] >> ELSE << >>
             high == IF rest # << >> /\ Crosses(Len(outputBuffer), Len(outputBuffer) + Len(rest))
                     THEN << [op |-> "highWaterMark"] >> ELSE << >>
  <2>1. /\ wire' = wire \o sent /\ space' = space - n
        /\ outputBuffer' = outputBuffer \o rest /\ accepted' = accepted \o data
        /\ pending' = pending \o done \o high
        /\ WatchOutput(rest)
    BY <1>2 DEF SendInLoop
  <2>2. Len(data) \in Nat
    BY LenProperties
  <2>3. n \in 0..Len(data) /\ n <= space /\ (n > 0 => Direct)
    BY <2>2, TakenBounds
  <2>4. /\ sent \in Seq(AllBytes) /\ rest \in Seq(AllBytes)
        /\ sent \o rest = data /\ (n = 0 => sent = << >>)
    <3> HIDE DEF n
    <3> QED
      BY <2>3, Cut
  <2>5. sent = << >> \/ outputBuffer = << >>
    BY <2>3, <2>4 DEF Direct
  <2>6. Posts
    <3>1. done \in Seq(Functors) /\ high \in Seq(Functors) /\ NoEst(done) /\ NoEst(high)
      BY FunctorsAre, EmptySeq DEF NoEst
    <3> HIDE DEF done, high
    <3>2. done \o high \in Seq(Functors) /\ NoEst(done \o high)
      BY <3>1, QueueGrows
    <3>3. pending \in Seq(Functors)
      BY DEF Shapes
    <3>4. (pending \o done) \o high = pending \o (done \o high)
      BY <3>1, <3>3, ConcatAssociative
    <3> QED
      BY <2>1, <3>2, <3>4 DEF Posts
  <2> HIDE DEF n, sent, rest, done, high
  <2>7. /\ wire' \in Seq(AllBytes) /\ outputBuffer' \in Seq(AllBytes)
        /\ accepted' \in Seq(AllBytes) /\ space' \in 0..SndBuf
    <3>1. wire' \in Seq(AllBytes) /\ outputBuffer' \in Seq(AllBytes) /\ accepted' \in Seq(AllBytes)
      BY <2>1, <2>4, ConcatProperties DEF Shapes
    <3>2. space' \in 0..SndBuf
      BY <2>1, <2>2, <2>3, TcpConnectionAssumption DEF Shapes
    <3> QED
      BY <3>1, <3>2
  <2>8. OutputInOrder'
    <3>1. /\ wire \in Seq(AllBytes) /\ outputBuffer \in Seq(AllBytes)
          /\ sent \in Seq(AllBytes) /\ rest \in Seq(AllBytes)
      BY <2>4 DEF Shapes
    <3>2. CASE sent = << >>
      <4>1. wire \o sent = wire /\ data = rest
        BY <2>4, <3>1, <3>2, ConcatEmptySeq
      <4>2. (wire \o outputBuffer) \o rest = wire \o (outputBuffer \o rest)
        BY <3>1, BytesAssociate
      <4> QED
        BY <2>1, <4>1, <4>2 DEF OutputInOrder
    <3>3. CASE outputBuffer = << >>
      <4>1. outputBuffer \o rest = rest /\ wire \o outputBuffer = wire
        BY <2>4, <3>1, <3>3, ConcatEmptySeq
      <4>2. (wire \o sent) \o rest = wire \o (sent \o rest)
        BY <3>1, BytesAssociate
      <4> QED
        BY <2>1, <2>4, <4>1, <4>2 DEF OutputInOrder
    <3> QED
      BY <2>5, <3>2, <3>3
  <2>9. CASE rest = << >>
    <3>1. outputBuffer' = outputBuffer
      BY <2>1, <2>9, ConcatEmptySeq DEF Shapes
    <3> QED
      BY <2>1, <2>6, <2>7, <2>8, <2>9, <3>1 DEF WatchOutput, channel, Shapes
  <2>10. CASE rest # << >>
    <3>1. outputBuffer' # << >>
      BY <2>1, <2>4, <2>10, ConcatEqualIffEmpty DEF Shapes
    <3>2. /\ events' = events \cup {"write"} /\ ("write" \in events => index' = index)
          /\ events' \in SUBSET {"read", "write"} /\ index' \in {"kNew", "kAdded", "kDeleted"}
      BY <2>1, <2>10 DEF WatchOutput, Update, channel, Shapes
    <3> QED
      BY <1>2, <2>6, <2>7, <2>8, <3>1, <3>2
  <2> QED
    BY <2>9, <2>10
<1> QED
  BY <1>1, <1>2

\* sendFileInLoop() bypasses the buffer, which is empty then.
LEMMA SendFileInLoopKeeps ==
  ASSUME Shapes, OutputInOrder, NEW f \in Files, NEW offset \in Nat, NEW count \in Nat,
         SendFileInLoop(f, offset, count), UNCHANGED outputBuffer
  PROVE  /\ wire' \in Seq(AllBytes) /\ accepted' \in Seq(AllBytes) /\ space' \in 0..SndBuf
         /\ Posts
         /\ OutputInOrder'
<1>1. CASE state = "kDisconnected" \/ (Direct /\ Broken)
  <2>1. UNCHANGED <<pending, space, wire, accepted>>
    BY <1>1 DEF SendFileInLoop
  <2> QED
    BY <2>1, PostedNone DEF Shapes, OutputInOrder
<1>2. CASE ~(state = "kDisconnected" \/ (Direct /\ Broken))
  <2> DEFINE avail == IF offset < FileSize[f] THEN FileSize[f] - offset ELSE 0
             n == Lesser(Taken(count), avail)
             sent == Bytes(f, offset + 1, offset + n)
             next == IF n = count THEN [op |-> "writeComplete"] ELSE NextRound(f, offset, n, count)
  <2>1. /\ wire' = wire \o sent /\ accepted' = accepted \o sent /\ space' = space - n
        /\ pending' = Append(pending, next)
    BY <1>2 DEF SendFileInLoop
  <2>2. avail \in Nat
    BY TcpConnectionAssumption
  <2>3. n \in Nat /\ n <= space /\ (n > 0 => Direct)
    <3>1. /\ Taken(count) \in 0..count /\ Taken(count) <= space /\ space \in Nat
          /\ Taken(count) > 0 => Direct
      BY TakenBounds, TcpConnectionAssumption DEF Shapes
    <3> HIDE DEF avail
    <3> QED
      BY <2>2, <3>1 DEF Lesser
  <2> HIDE DEF n
  <2>4. sent \in Seq(AllBytes) /\ Len(sent) = n
    <3>1. offset + 1 \in Nat \ {0} /\ offset + n \in Nat /\ offset + 1 <= offset + n + 1
      BY <2>3
    <3>2. sent \in Seq(AllBytes) /\ Len(sent) = offset + n - (offset + 1) + 1
      <4>1. ASSUME NEW from \in Nat \ {0}, NEW to \in Nat, from <= to + 1
            PROVE  Bytes(f, from, to) \in Seq(AllBytes) /\ Len(Bytes(f, from, to)) = to - from + 1
        BY <4>1, BytesOf
      <4> DEFINE from == offset + 1
                 to == offset + n
      <4>2. from \in Nat \ {0} /\ to \in Nat /\ from <= to + 1
        BY <3>1
      <4> HIDE DEF from, to
      <4>3. Bytes(f, from, to) \in Seq(AllBytes) /\ Len(Bytes(f, from, to)) = to - from + 1
        BY <4>1, <4>2
      <4> QED
        BY <2>3, <4>3 DEF from, to, sent
    <3> QED
      BY <2>3, <3>2
  <2>5. next \in Functors /\ next.op # "connectEstablished"
    BY <2>3, FunctorsAre DEF NextRound
  <2> HIDE DEF sent, next
  <2>6. Posts
    BY <2>1, <2>5, Posted1
  <2>7. wire' \in Seq(AllBytes) /\ accepted' \in Seq(AllBytes)
    BY <2>1, <2>4, ConcatProperties DEF Shapes
  <2>8. space' \in 0..SndBuf
    BY <2>1, <2>3, TcpConnectionAssumption DEF Shapes
  <2>9. OutputInOrder'
    <3>1. wire \in Seq(AllBytes) /\ accepted \in Seq(AllBytes)
      BY DEF Shapes
    <3>2. CASE n = 0
      <4>1. sent = << >>
        BY <2>4, <3>2, EmptySeq
      <4>2. wire \o sent = wire /\ accepted \o sent = accepted
        BY <3>1, <4>1, ConcatEmptySeq
      <4> QED
        BY <2>1, <4>2 DEF OutputInOrder
    <3>3. CASE n > 0
      <4>1. outputBuffer = << >> /\ wire \o outputBuffer = wire
        BY <2>3, <3>1, <3>3, ConcatEmptySeq DEF Direct
      <4>2. (wire \o sent) \o outputBuffer = wire \o sent
        BY <2>4, <3>1, <4>1, ConcatProperties, ConcatEmptySeq
      <4> QED
        BY <2>1, <4>1, <4>2 DEF OutputInOrder
    <3> QED
      BY <2>3, <3>2, <3>3
  <2> QED
    BY <2>6, <2>7, <2>8, <2>9
<1> QED
  BY <1>1, <1>2

\* handleWrite(): what the kernel takes leaves the front of the buffer.
LEMMA DrainOutputKeeps ==
  ASSUME Shapes, OutputInOrder, space > 0, outputBuffer # << >>,
         DrainOutput(Lesser(space, Len(outputBuffer))), UNCHANGED accepted
  PROVE  /\ wire' \in Seq(AllBytes) /\ outputBuffer' \in Seq(AllBytes) /\ space' \in 0..SndBuf
         /\ shutWr' \in BOOLEAN
         /\ events' \in SUBSET {"read", "write"} /\ index' \in {"kNew", "kAdded", "kDeleted"}
         /\ Posts
         /\ OutputInOrder'
         /\ \/ /\ outputBuffer' = << >> /\ events' = events \ {"write"}
               /\ shutWr' = (shutWr \/ state = "kDisconnecting")
            \/ outputBuffer' # << >> /\ UNCHANGED <<events, index, shutWr>>
<1> DEFINE n == Lesser(space, Len(outputBuffer))
<1>1. n \in 0..Len(outputBuffer) /\ n <= space /\ Len(outputBuffer) \in Nat
  BY LenProperties, TcpConnectionAssumption DEF Lesser, Shapes
<1> DEFINE sent == SubSeq(outputBuffer, 1, n)
           rest == From(outputBuffer, n + 1)
<1>2. /\ wire' = wire \o sent /\ space' = space - n /\ outputBuffer' = rest
      /\ IF n = Len(outputBuffer)
         THEN /\ Update(events \ {"write"})
              /\ pending' = Append(pending, [op |-> "writeComplete"])
              /\ Drained
         ELSE UNCHANGED <<channel, pending, shutWr>>
  BY DEF DrainOutput
<1> HIDE DEF n
<1>3. /\ sent \in Seq(AllBytes) /\ rest \in Seq(AllBytes)
      /\ sent \o rest = outputBuffer /\ (n = Len(outputBuffer) <=> rest = << >>)
  BY <1>1, Cut DEF Shapes
<1> HIDE DEF sent, rest
<1>4. wire' \in Seq(AllBytes) /\ outputBuffer' \in Seq(AllBytes)
  BY <1>2, <1>3, ConcatProperties DEF Shapes
<1>5. space' \in 0..SndBuf
  BY <1>1, <1>2, TcpConnectionAssumption DEF Shapes
<1>6. OutputInOrder'
  <2>1. wire \in Seq(AllBytes)
    BY DEF Shapes
  <2>2. (wire \o sent) \o rest = wire \o (sent \o rest)
    BY <1>3, <2>1, BytesAssociate
  <2> QED
    BY <1>2, <1>3, <2>2 DEF OutputInOrder
<1>7. CASE n = Len(outputBuffer)
  <2>1. Posts
    BY <1>2, <1>7, FunctorsAre, Posted1
  <2> QED
    BY <1>2, <1>3, <1>4, <1>5, <1>6, <1>7, <2>1 DEF Update, Drained, Shapes
<1>8. CASE n # Len(outputBuffer)
  <2>1. Posts
    BY <1>2, <1>8, PostedNone
  <2> QED
    BY <1>2, <1>3, <1>4, <1>5, <1>6, <1>8, <2>1 DEF channel, Shapes
<1> QED
  BY <1>7, <1>8
-----------------------------------------------------------------------------
\* What a step does to the invariant.

\* A step that leaves the output, the channel and the batch alone and posts no
\* connectEstablished.
LEMMA QuietKeeps ==
  ASSUME IInv, Shapes', Posts, loopPc' = loopPc, revents' \subseteq revents,
         UNCHANGED <<ups, downs, destroyed, events, index, outputBuffer, wire, accepted,
                     batch, shutWr>>
  PROVE  IInv'
<1>1. UpFirst'
  BY AfterPosts DEF IInv, UpFirst
<1> QED
  BY <1>1 DEF IInv, OutputInOrder, WritingIffBuffered, HalfCloseAfterBuffer

\* What a user off the loop does.
LEMMA UserKeeps ==
  ASSUME IInv, NEW u \in Users, UserNext(u)
  PROVE  IInv'
<1> USE DEF IInv
<1>1. ASSUME NEW x \in Messages \cup Files, SendCheck(u, x)
      PROVE  IInv'
  <2>1. Posts
    BY <1>1, PostedNone DEF SendCheck
  <2>2. Shapes'
    BY <1>1 DEF SendCheck, Shapes, conn, channel, loop, world, kernel, network, server, history, life
  <2> QED
    BY <1>1, <2>1, <2>2, QuietKeeps
       DEF SendCheck, conn, channel, loop, world, kernel, history, life
<1>2. CASE ShutdownCheck(u)
  <2>1. Posts
    BY <1>2, PostedNone DEF ShutdownCheck
  <2>2. Shapes'
    BY <1>2 DEF ShutdownCheck, Shapes, conn, channel, loop, world, kernel, network, server, history, life
  <2> QED
    BY <1>2, <2>1, <2>2, QuietKeeps
       DEF ShutdownCheck, conn, channel, loop, world, kernel, history, life
<1>3. CASE SendPost(u)
  <2>1. Posts
    BY <1>3, FunctorsAre, Posted1 DEF SendPost
  <2>2. Shapes'
    BY <1>3, <2>1, AfterPosts
       DEF SendPost, Shapes, conn, channel, loop, world, kernel, network, server, history, life
  <2> QED
    BY <1>3, <2>1, <2>2, QuietKeeps
       DEF SendPost, conn, channel, loop, world, kernel, history, life
<1>4. CASE SendFilePost(u)
  <2>1. Posts
    <3>1. Count[pc[u]] \in Nat
      BY <1>4, TcpConnectionAssumption DEF SendFilePost
    <3> QED
      BY <1>4, <3>1, FunctorsAre, Posted1 DEF SendFilePost
  <2>2. Shapes'
    BY <1>4, <2>1, AfterPosts
       DEF SendFilePost, Shapes, conn, channel, loop, world, kernel, network, server, history, life
  <2> QED
    BY <1>4, <2>1, <2>2, QuietKeeps
       DEF SendFilePost, conn, channel, loop, world, kernel, history, life
<1>5. CASE ShutdownSet(u)
  <2>1. Posts
    BY <1>5, PostedNone DEF ShutdownSet
  <2>2. Shapes'
    BY <1>5
       DEF ShutdownSet, Shapes, States, channel, loop, world, kernel, network, server, history, life
  <2> QED
    BY <1>5, <2>1, <2>2, QuietKeeps
       DEF ShutdownSet, channel, loop, world, kernel, history, life
<1>6. CASE ShutdownPost(u)
  <2>1. Posts
    BY <1>6, FunctorsAre, Posted1 DEF ShutdownPost
  <2>2. Shapes'
    BY <1>6, <2>1, AfterPosts
       DEF ShutdownPost, Shapes, conn, channel, loop, world, kernel, network, server, history, life
  <2> QED
    BY <1>6, <2>1, <2>2, QuietKeeps
       DEF ShutdownPost, conn, channel, loop, world, kernel, history, life
<1>7. CASE Release(u)
  <2>1. Posts
    BY <1>7, PostedNone DEF Release
  <2>2. Shapes'
    BY <1>7 DEF Release, Shapes, conn, channel, loop, world, kernel, network, server, history, life
  <2> QED
    BY <1>7, <2>1, <2>2, QuietKeeps
       DEF Release, conn, channel, loop, world, kernel, history, life
<1> QED
  BY <1>1, <1>2, <1>3, <1>4, <1>5, <1>6, <1>7 DEF UserNext, UserFinishes

\* What the owner, the peer and the kernel do.
LEMMA EnvironmentKeeps ==
  ASSUME IInv, Environment
  PROVE  IInv'
<1> USE DEF IInv
<1>1. ASSUME NEW m \in Messages, FreeString(m)
      PROVE  IInv'
  <2>1. Posts
    BY <1>1, PostedNone DEF FreeString
  <2>2. Shapes'
    BY <1>1 DEF FreeString, Shapes, conn, channel, loop, world, kernel, network, server, history, life
  <2> QED
    BY <1>1, <2>1, <2>2, QuietKeeps
       DEF FreeString, conn, channel, loop, world, kernel, history, life
<1>2. CASE ServerRemoves
  <2>1. Posts
    BY <1>2, FunctorsAre, Posted1 DEF ServerRemoves, QueueDestroyed
  <2>2. Shapes'
    <3>1. closing' \in Nat
      BY <1>2 DEF ServerRemoves, Shapes
    <3> QED
      BY <1>2, <2>1, <3>1, AfterPosts
         DEF ServerRemoves, Shapes, conn, channel, loop, kernel, network, users, history, life
  <2> QED
    BY <1>2, <2>1, <2>2, QuietKeeps
       DEF ServerRemoves, conn, channel, loop, kernel, history, life
<1>3. CASE ServerDestroyed
  <2>1. Posts
    BY <1>3, FunctorsAre, Posted1, PostedNone DEF ServerDestroyed, QueueDestroyed
  <2>2. Shapes'
    BY <1>3, <2>1, AfterPosts
       DEF ServerDestroyed, Shapes, conn, channel, loop, kernel, network, users, history, life
  <2> QED
    BY <1>3, <2>1, <2>2, QuietKeeps
       DEF ServerDestroyed, conn, channel, loop, kernel, history, life
<1>4. CASE Ack
  <2>1. Posts
    BY <1>4, PostedNone DEF Ack
  <2>2. Shapes'
    <3>1. space' \in 0..SndBuf
      BY <1>4, TcpConnectionAssumption DEF Ack, Shapes
    <3> QED
      BY <1>4, <3>1 DEF Ack, Shapes, conn, channel, loop, network, server, users, history, life
  <2> QED
    BY <1>4, <2>1, <2>2, QuietKeeps DEF Ack, conn, channel, loop, history, life
<1>5. CASE PeerSends
  <2>1. Posts
    BY <1>5, PostedNone DEF PeerSends
  <2>2. Shapes'
    BY <1>5 DEF PeerSends, Shapes, conn, channel, loop, kernel, server, users, history, life
  <2> QED
    BY <1>5, <2>1, <2>2, QuietKeeps DEF PeerSends, conn, channel, loop, kernel, history, life
<1>6. CASE PeerCloses
  <2>1. Posts
    BY <1>6, PostedNone DEF PeerCloses
  <2>2. Shapes'
    BY <1>6 DEF PeerCloses, Shapes, conn, channel, loop, kernel, server, users, history, life
  <2> QED
    BY <1>6, <2>1, <2>2, QuietKeeps DEF PeerCloses, conn, channel, loop, kernel, history, life
<1>7. CASE PeerResets
  <2>1. Posts
    BY <1>7, PostedNone DEF PeerResets
  <2>2. Shapes'
    BY <1>7 DEF PeerResets, Shapes, conn, channel, loop, kernel, server, users, history, life
  <2> QED
    BY <1>7, <2>1, <2>2, QuietKeeps DEF PeerResets, conn, channel, loop, kernel, history, life
<1> QED
  BY <1>1, <1>2, <1>3, <1>4, <1>5, <1>6, <1>7 DEF Environment
\* poll() and the handlers.
LEMMA PollKeeps ==
  ASSUME IInv, Poll
  PROVE  IInv'
<1> USE DEF IInv
<1>1. Reported \in SUBSET {"HUP", "ERR", "IN", "OUT"} /\ (index = "kNew" => Reported = {})
  BY DEF Reported, Ready
<1>2. Shapes'
  BY <1>1 DEF Poll, Shapes, conn, channel, world, kernel, network, server, users, history, life
<1>3. UpFirst'
  BY <1>1 DEF Poll, UpFirst, conn, channel, history, life
<1> QED
  BY <1>2, <1>3 DEF Poll, OutputInOrder, WritingIffBuffered, HalfCloseAfterBuffer, conn, channel,
                   world, kernel, history, life

\* handleClose(), from either handler: the connection is down, and that is all that counts.
LEMMA CloseKeeps ==
  ASSUME IInv, HandleClose, ups > 0, loopPc = "handle", loopPc' = loopPc,
         revents' \subseteq revents,
         UNCHANGED <<outputBuffer, pending, batch, held, kernel, peer, inbound, sockErr, inMap,
                     serverGone, users, accepted, ups, destroyed>>
  PROVE  IInv'
<1> USE DEF IInv
<1>1. Shapes' /\ downs' > 0
  BY DEF HandleClose, Update, Shapes, States, kernel, users
<1>2. UpFirst'
  BY <1>1 DEF UpFirst
<1> QED
  BY <1>1, <1>2 DEF OutputInOrder, WritingIffBuffered, HalfCloseAfterBuffer, kernel

\* A handler runs for a connection that is up, and leaves the loop's queues alone.
LEMMA DispatchMeans ==
  ASSUME IInv, NEW bit, NEW earlier, Dispatch(bit, earlier)
  PROVE  /\ ups > 0 /\ loopPc = "handle" /\ loopPc' = loopPc /\ revents' \subseteq revents
         /\ UNCHANGED <<batch, held, users>>
<1>1. revents # {}
  BY DEF Dispatch
<1>2. ups \in Nat /\ (ups = 0 => revents = {}) /\ (loopPc # "handle" => revents = {})
  BY DEF IInv, UpFirst, Shapes
<1>3. ups > 0 /\ loopPc = "handle"
  BY <1>1, <1>2
<1> QED
  BY <1>3 DEF Dispatch

LEMMA HandlersKeep ==
  ASSUME IInv, EventHup \/ EventError \/ EventRead
  PROVE  IInv'
<1>1. CASE EventHup
  <2>1. /\ ups > 0 /\ loopPc = "handle" /\ loopPc' = loopPc /\ revents' \subseteq revents
        /\ UNCHANGED <<batch, held, users>>
    BY <1>1, DispatchMeans DEF EventHup
  <2>2. UNCHANGED <<outputBuffer, pending, kernel, network, inMap, serverGone, accepted, ups,
                    destroyed>>
    BY <1>1 DEF EventHup
  <2>3. CASE HandleClose
    BY <2>1, <2>2, <2>3, CloseKeeps DEF network
  <2>4. CASE UNCHANGED <<state, channel, closing, downs>>
    <3>1. Posts
      BY <2>2, PostedNone DEF IInv
    <3>2. Shapes'
      BY <2>1, <2>2, <2>4 DEF IInv, Shapes, channel, kernel, network, users
    <3> QED
      BY <2>1, <2>2, <2>4, <3>1, <3>2, QuietKeeps DEF channel, kernel
  <2> QED
    BY <1>1, <2>3, <2>4 DEF EventHup
<1>2. CASE EventError
  <2>1. /\ ups > 0 /\ loopPc = "handle" /\ loopPc' = loopPc /\ revents' \subseteq revents
        /\ UNCHANGED <<batch, held, users>>
    BY <1>2, DispatchMeans DEF EventError
  <2>2. Posts
    BY <1>2, PostedNone DEF EventError, IInv
  <2>3. Shapes'
    BY <1>2, <2>1 DEF EventError, IInv, Shapes, conn, channel, kernel, server, users, history, life
  <2> QED
    BY <1>2, <2>1, <2>2, <2>3, QuietKeeps DEF EventError, conn, channel, kernel, history, life
<1>3. CASE EventRead
  <2>1. /\ ups > 0 /\ loopPc = "handle" /\ loopPc' = loopPc /\ revents' \subseteq revents
        /\ UNCHANGED <<batch, held, users>>
    BY <1>3, DispatchMeans DEF EventRead
  <2>2. UNCHANGED <<outputBuffer, pending, kernel, peer, inMap, serverGone, accepted, ups,
                    destroyed>>
    BY <1>3 DEF EventRead
  <2>3. CASE HandleClose /\ UNCHANGED <<inbound, sockErr>>
    BY <2>1, <2>2, <2>3, CloseKeeps
  <2>4. CASE /\ UNCHANGED <<state, channel, closing, downs>>
             /\ inbound' \in {inbound, FALSE} /\ sockErr' \in {sockErr, FALSE}
    <3>1. Posts
      BY <2>2, PostedNone DEF IInv
    <3>2. inbound' \in BOOLEAN /\ sockErr' \in BOOLEAN
      BY <2>4 DEF IInv, Shapes
    <3>3. Shapes'
      BY <2>1, <2>2, <2>4, <3>2 DEF IInv, Shapes, channel, kernel, users
    <3> QED
      BY <2>1, <2>2, <2>4, <3>1, <3>3, QuietKeeps DEF channel, kernel
  <2> QED
    BY <1>3, <2>3, <2>4 DEF EventRead
<1> QED
  BY <1>1, <1>2, <1>3

LEMMA EventWriteKeeps ==
  ASSUME IInv, EventWrite
  PROVE  IInv'
<1>1. /\ ups > 0 /\ loopPc = "handle" /\ loopPc' = loopPc /\ revents' \subseteq revents
      /\ UNCHANGED <<batch, held, users>>
  BY DispatchMeans DEF EventWrite
<1>2. UNCHANGED <<state, network, server, history>>
  BY DEF EventWrite
<1>3. CASE UNCHANGED <<channel, outputBuffer, pending, kernel>>
  <2>1. Posts
    BY <1>3, PostedNone DEF IInv
  <2>2. Shapes'
    BY <1>1, <1>2, <1>3 DEF IInv, Shapes, channel, kernel, network, server, users, history, life
  <2> QED
    BY <1>1, <1>2, <1>3, <2>1, <2>2, QuietKeeps DEF channel, kernel, history, life
<1>4. CASE /\ "write" \in events /\ space > 0 /\ outputBuffer # << >>
           /\ DrainOutput(Lesser(space, Len(outputBuffer)))
  <2> DEFINE Emptied == /\ outputBuffer' = << >> /\ events' = events \ {"write"}
                        /\ shutWr' = (shutWr \/ state = "kDisconnecting")
             Left == outputBuffer' # << >> /\ UNCHANGED <<events, index, shutWr>>
  <2>1. /\ wire' \in Seq(AllBytes) /\ outputBuffer' \in Seq(AllBytes) /\ space' \in 0..SndBuf
        /\ shutWr' \in BOOLEAN
        /\ events' \in SUBSET {"read", "write"} /\ index' \in {"kNew", "kAdded", "kDeleted"}
        /\ Posts /\ OutputInOrder'
        /\ Emptied \/ Left
    BY <1>2, <1>4, DrainOutputKeeps DEF IInv, history
  <2>2. Shapes'
    BY <1>1, <1>2, <2>1, AfterPosts DEF IInv, Shapes, network, server, users, history, life
  <2>3. UpFirst'
    BY <1>1, <1>2, <2>1, AfterPosts DEF IInv, UpFirst, history, life
  <2>4. WritingIffBuffered'
    BY <1>1, <1>2, <1>4, <2>1 DEF IInv, WritingIffBuffered, history, life
  <2>5. HalfCloseAfterBuffer'
    BY <1>1, <1>2, <1>4, <2>1 DEF IInv, HalfCloseAfterBuffer, history, life
  <2> QED
    BY <2>1, <2>2, <2>3, <2>4, <2>5 DEF IInv
<1> QED
  BY <1>3, <1>4 DEF EventWrite

\* The swap and the end of the batch.
LEMMA BatchKeeps ==
  ASSUME IInv, SwapFunctors \/ EndBatch
  PROVE  IInv'
<1> USE DEF IInv
<1>1. CASE SwapFunctors
  <2>1. batch = << >> /\ << >> \in Seq(Functors) /\ NoEst(<< >>) /\ ~EstFirst(<< >>)
    BY <1>1, EmptySeq DEF SwapFunctors, UpFirst, NoEst, EstFirst
  <2>2. Shapes'
    BY <1>1, <2>1
       DEF SwapFunctors, Shapes, Holds, conn, channel, world, kernel, network, server, users,
           history, life
  <2>3. UpFirst'
    BY <1>1, <2>1 DEF SwapFunctors, UpFirst, conn, channel, history, life
  <2> QED
    BY <1>1, <2>2, <2>3 DEF SwapFunctors, OutputInOrder, WritingIffBuffered, HalfCloseAfterBuffer,
                           conn, channel, world, kernel, history, life
<1>2. CASE EndBatch
  <2>1. Shapes'
    BY <1>2
       DEF EndBatch, Shapes, conn, channel, world, kernel, network, server, users, history, life
  <2>2. UpFirst'
    BY <1>2 DEF EndBatch, UpFirst, conn, channel, history, life
  <2> QED
    BY <1>2, <2>1, <2>2 DEF EndBatch, OutputInOrder, WritingIffBuffered, HalfCloseAfterBuffer,
                           conn, channel, world, kernel, history, life
<1> QED
  BY <1>1, <1>2
\* The next functor of the batch: connectEstablished exactly when nothing ran before it.
LEMMA RunNextMeans ==
  ASSUME IInv, NEW op, RunNext(op)
  PROVE  /\ Head(batch) \in Functors /\ Head(batch).op = op
         /\ batch' \in Seq(Functors) /\ NoEst(batch') /\ NoEst(pending)
         /\ op = "connectEstablished" <=> ups = 0
         /\ loopPc = "run" /\ UNCHANGED <<held, loopPc, revents, network, server>>
<1>1. /\ batch \in Seq(Functors) /\ batch # << >> /\ Head(batch).op = op /\ batch' = Tail(batch)
      /\ loopPc = "run" /\ UNCHANGED <<held, loopPc, revents, network, server>>
  BY DEF RunNext, IInv, Shapes
<1>2. CASE ups = 0
  <2>1. EstFirst(batch) /\ NoEst(pending)
    BY <1>1, <1>2 DEF IInv, UpFirst
  <2> QED
    BY <1>1, <1>2, <2>1, QueueShrinks
<1>3. CASE ups # 0
  <2>1. NoEst(batch) /\ NoEst(pending)
    <3>1. ups > 0
      BY <1>3 DEF IInv, Shapes
    <3> QED
      BY <3>1 DEF IInv, UpFirst
  <2> QED
    BY <1>1, <1>3, <2>1, QueueShrinks
<1> QED
  BY <1>2, <1>3

\* The order of the functors after any of them but connectEstablished.
LEMMA StillUp ==
  ASSUME IInv, ups > 0, NoEst(batch'), Posts, UNCHANGED <<ups, loopPc, revents>>,
         loopPc # "run" => batch' = batch
  PROVE  UpFirst'
<1>1. ups' > 0 /\ ups' \in Nat
  BY DEF IInv, Shapes
<1>2. NoEst(pending')
  BY <1>1, AfterPosts DEF IInv, UpFirst
<1> QED
  BY <1>1, <1>2 DEF IInv, UpFirst

LEMMA RunEstablishedKeeps ==
  ASSUME IInv, RunConnectEstablished
  PROVE  IInv'
<1>1. /\ ups = 0 /\ batch' \in Seq(Functors) /\ NoEst(batch') /\ NoEst(pending)
      /\ loopPc = "run" /\ UNCHANGED <<held, loopPc, revents, network, server>>
  BY RunNextMeans DEF RunConnectEstablished
<1>2. events = {} /\ outputBuffer = << >> /\ revents = {}
  BY <1>1 DEF IInv, UpFirst
<1>3. Shapes' /\ ups' = 1
  BY <1>1
     DEF RunConnectEstablished, Update, IInv, Shapes, States, kernel, network, server
<1>4. UpFirst'
  BY <1>1, <1>2, <1>3 DEF RunConnectEstablished, UpFirst
<1>5. events' = {"read"} /\ outputBuffer' = << >>
  BY <1>2 DEF RunConnectEstablished, Update
<1> QED
  BY <1>3, <1>4, <1>5 DEF RunConnectEstablished, IInv, OutputInOrder, WritingIffBuffered,
                         HalfCloseAfterBuffer, kernel

LEMMA RunDestroyedKeeps ==
  ASSUME IInv, RunConnectDestroyed
  PROVE  IInv'
<1>1. /\ ups # 0 /\ batch' \in Seq(Functors) /\ NoEst(batch') /\ NoEst(pending)
      /\ loopPc = "run" /\ UNCHANGED <<held, loopPc, revents, network, server>>
  BY RunNextMeans DEF RunConnectDestroyed
<1>2. Posts
  BY PostedNone DEF RunConnectDestroyed, IInv
<1>3. Shapes'
  <2>1. /\ state' \in States /\ events' \in SUBSET {"read", "write"} /\ downs' \in Nat
        /\ index' = "kNew" /\ destroyed' = TRUE
    <3>1. /\ state \in States /\ events \in SUBSET {"read", "write"} /\ downs \in Nat
          /\ destroyed' = TRUE /\ TellDown /\ Remove
      BY DEF RunConnectDestroyed, IInv, Shapes
    <3>2. \/ state' = "kDisconnected" /\ events' = {} /\ downs' = downs + 1
          \/ UNCHANGED <<state, events, downs>>
      BY <3>1 DEF TellDown
    <3>3. index' = "kNew" /\ destroyed' = TRUE
      BY <3>1 DEF Remove
    <3>4. state' \in States
      BY <3>1, <3>2 DEF States
    <3>5. events' \in SUBSET {"read", "write"}
      BY <3>1, <3>2
    <3>6. downs' \in Nat
      BY <3>1, <3>2
    <3> QED
      BY <3>3, <3>4, <3>5, <3>6
  <2> QED
    BY <1>1, <2>1 DEF RunConnectDestroyed, IInv, Shapes, kernel, network, server, users
<1>4. UpFirst'
  <2>1. ups > 0
    BY <1>1 DEF IInv, Shapes
  <2> QED
    BY <1>1, <1>2, <2>1, StillUp DEF RunConnectDestroyed
<1> QED
  BY <1>3, <1>4 DEF RunConnectDestroyed, IInv, OutputInOrder, WritingIffBuffered,
                   HalfCloseAfterBuffer, kernel

\* sendInLoop(), whoever calls it: run from the queue or called on the loop.
LEMMA SendKeeps ==
  ASSUME IInv, ups > 0, NEW data \in Seq(AllBytes), SendInLoop(data),
         batch' \in Seq(Functors), NoEst(batch'), loopPc # "run" => batch' = batch,
         unsent' \subseteq unsent,
         UNCHANGED <<state, held, loopPc, revents, shutWr, network, server, pc, refs, freed, life>>
  PROVE  IInv'
<1> DEFINE Same == UNCHANGED <<events, index, outputBuffer>>
           More == /\ ~(Direct /\ Broken) /\ outputBuffer' # << >>
                   /\ events' = events \cup {"write"}
<1>1. /\ wire' \in Seq(AllBytes) /\ outputBuffer' \in Seq(AllBytes)
      /\ accepted' \in Seq(AllBytes) /\ space' \in 0..SndBuf
      /\ events' \in SUBSET {"read", "write"} /\ index' \in {"kNew", "kAdded", "kDeleted"}
      /\ Posts /\ OutputInOrder'
      /\ Same \/ More
  BY SendInLoopKeeps DEF IInv
<1>2. Shapes'
  BY <1>1, AfterPosts DEF IInv, Shapes, network, server, life
<1>3. UpFirst'
  BY <1>1, StillUp DEF life
<1>4. WritingIffBuffered'
  BY <1>1 DEF IInv, WritingIffBuffered, life
<1>5. HalfCloseAfterBuffer'
  <2> SUFFICES ASSUME shutWr, downs = 0, ~destroyed
               PROVE  Same
    BY DEF HalfCloseAfterBuffer, IInv, life
  <2>1. outputBuffer = << >> /\ "write" \notin events
    BY DEF IInv, HalfCloseAfterBuffer, WritingIffBuffered
  <2> QED
    BY <1>1, <2>1 DEF Direct, Broken
<1> QED
  BY <1>1, <1>2, <1>3, <1>4, <1>5 DEF IInv

\* sendFileInLoop(), likewise.
LEMMA SendFileKeeps ==
  ASSUME IInv, ups > 0, NEW f \in Files, NEW offset \in Nat, NEW count \in Nat,
         SendFileInLoop(f, offset, count),
         batch' \in Seq(Functors), NoEst(batch'), loopPc # "run" => batch' = batch,
         unsent' \subseteq unsent,
         UNCHANGED <<conn, held, loopPc, revents, shutWr, network, server, pc, refs, freed, life>>
  PROVE  IInv'
<1>1. /\ wire' \in Seq(AllBytes) /\ accepted' \in Seq(AllBytes) /\ space' \in 0..SndBuf
      /\ Posts /\ OutputInOrder'
  BY SendFileInLoopKeeps DEF IInv, conn
<1>2. Shapes'
  BY <1>1, AfterPosts DEF IInv, Shapes, conn, channel, network, server, life
<1>3. UpFirst'
  BY <1>1, StillUp DEF life
<1> QED
  BY <1>1, <1>2, <1>3 DEF IInv, WritingIffBuffered, HalfCloseAfterBuffer, conn, channel, life

\* shutdownInLoop(), likewise: what is buffered is written first.
LEMMA ShutdownKeeps ==
  ASSUME IInv, ups > 0, ShutdownInLoop, state' \in States,
         batch' \in Seq(Functors), NoEst(batch'), loopPc # "run" => batch' = batch,
         UNCHANGED <<channel, outputBuffer, pending, held, loopPc, revents, space, wire, network,
                     server, users, history>>
  PROVE  IInv'
<1>1. Posts
  BY PostedNone DEF IInv
<1>2. shutWr' \in BOOLEAN
  BY DEF ShutdownInLoop, IInv, Shapes
<1>3. Shapes'
  BY <1>2 DEF IInv, Shapes, channel, network, server, users, history, life
<1>4. UpFirst'
  BY <1>1, StillUp DEF history, life
<1>5. HalfCloseAfterBuffer'
  BY DEF ShutdownInLoop, IInv, HalfCloseAfterBuffer, WritingIffBuffered, channel, history, life
<1> QED
  BY <1>3, <1>4, <1>5 DEF IInv, OutputInOrder, WritingIffBuffered, channel, history, life
\* The functors.
LEMMA FunctorsKeep ==
  ASSUME IInv,
         RunSendInLoop \/ RunSendFileInLoop \/ RunShutdownInLoop \/ RunUserCallback
  PROVE  IInv'
<1> DEFINE Up == /\ ups > 0 /\ batch' \in Seq(Functors) /\ NoEst(batch') /\ loopPc = "run"
                 /\ UNCHANGED <<held, loopPc, revents, network, server>>
<1>1. ASSUME NEW op, RunNext(op), op # "connectEstablished"
      PROVE  Up /\ Head(batch) \in Functors /\ Head(batch).op = op
  <2>1. /\ Head(batch) \in Functors /\ Head(batch).op = op
        /\ batch' \in Seq(Functors) /\ NoEst(batch')
        /\ ups # 0
        /\ loopPc = "run" /\ UNCHANGED <<held, loopPc, revents, network, server>>
    BY <1>1, RunNextMeans
  <2> QED
    BY <2>1 DEF IInv, Shapes
<1>2. CASE RunSendInLoop
  <2>1. Up /\ Head(batch) \in Functors /\ Head(batch).op = "sendInLoop"
    BY <1>1, <1>2 DEF RunSendInLoop
  <2> DEFINE data == Contents(Head(batch).data)
  <2>2. data \in Seq(AllBytes)
    BY <2>1, ContentsAreBytes, FunctorFields
  <2>3. SendInLoop(data) /\ UNCHANGED <<state, shutWr, users, life>>
    BY <1>2 DEF RunSendInLoop
  <2> HIDE DEF data
  <2> QED
    BY <2>1, <2>2, <2>3, SendKeeps DEF users
<1>3. CASE RunSendFileInLoop
  <2>1. Up /\ Head(batch) \in Functors /\ Head(batch).op = "sendFileInLoop"
    BY <1>1, <1>3 DEF RunSendFileInLoop
  <2>2. Head(batch).file \in Files /\ Head(batch).offset \in Nat /\ Head(batch).count \in Nat
    BY <2>1, FunctorFields
  <2>3. /\ SendFileInLoop(Head(batch).file, Head(batch).offset, Head(batch).count)
        /\ UNCHANGED <<conn, shutWr, users, life>>
    BY <1>3 DEF RunSendFileInLoop
  <2> QED
    BY <2>1, <2>2, <2>3, SendFileKeeps DEF users
<1>4. CASE RunShutdownInLoop
  <2>1. Up
    BY <1>1, <1>4 DEF RunShutdownInLoop
  <2>2. ShutdownInLoop /\ UNCHANGED <<conn, pending, space, wire, users, history>>
    BY <1>4 DEF RunShutdownInLoop
  <2>3. state' \in States
    BY <2>2 DEF IInv, Shapes, conn
  <2> QED
    BY <2>1, <2>2, <2>3, ShutdownKeeps DEF conn
<1>5. CASE RunUserCallback
  <2>1. Up
    BY <1>1, <1>5 DEF RunUserCallback
  <2>2. UNCHANGED <<conn, pending, kernel, users, history>>
    BY <1>5 DEF RunUserCallback
  <2>3. Posts
    BY <2>2, PostedNone DEF IInv
  <2>4. Shapes'
    BY <2>1, <2>2
       DEF IInv, Shapes, conn, channel, kernel, network, server, users, history, life
  <2>5. UpFirst'
    BY <2>1, <2>2, <2>3, StillUp DEF history, life
  <2> QED
    BY <2>2, <2>4, <2>5 DEF IInv, OutputInOrder, WritingIffBuffered, HalfCloseAfterBuffer,
                            conn, channel, kernel, history, life
<1> QED
  BY <1>2, <1>3, <1>4, <1>5

\* User code on the loop thread.
LEMMA LoopUserKeeps ==
  ASSUME IInv, LoopUser
  PROVE  IInv'
<1>1. ups > 0 => NoEst(batch)
  BY DEF IInv, UpFirst
<1>2. ASSUME NEW m \in Messages, LoopSend(m)
      PROVE  IInv'
  <2> DEFINE data == Bytes(m, 1, Size[m])
  <2>1. data \in Seq(AllBytes)
    BY MessagesAreBytes
  <2>2. /\ ups > 0 /\ SendInLoop(data) /\ unsent' \subseteq unsent
        /\ UNCHANGED <<state, loop, shutWr, network, server, pc, refs, freed, life>>
    BY <1>2 DEF LoopSend, InUserCode
  <2>3. batch' \in Seq(Functors) /\ batch' = batch
    BY <2>2 DEF loop, IInv, Shapes
  <2> HIDE DEF data
  <2> QED
    BY <1>1, <2>1, <2>2, <2>3, SendKeeps DEF loop
<1>3. ASSUME NEW f \in Files, LoopSendFile(f)
      PROVE  IInv'
  <2>1. 0 \in Nat /\ Count[f] \in Nat
    BY TcpConnectionAssumption
  <2>2. /\ ups > 0 /\ SendFileInLoop(f, 0, Count[f]) /\ unsent' \subseteq unsent
        /\ UNCHANGED <<conn, loop, shutWr, network, server, pc, refs, freed, life>>
    BY <1>3 DEF LoopSendFile, InUserCode
  <2>3. batch' \in Seq(Functors) /\ batch' = batch
    BY <2>2 DEF loop, IInv, Shapes
  <2> QED
    BY <1>1, <2>1, <2>2, <2>3, SendFileKeeps DEF loop
<1>4. CASE LoopShutdown
  <2>1. /\ ups > 0 /\ ShutdownInLoop /\ state' \in States
        /\ UNCHANGED <<channel, outputBuffer, pending, loop, space, wire, network, server, users,
                       history>>
    BY <1>4 DEF LoopShutdown, InUserCode, States
  <2>2. batch' \in Seq(Functors) /\ batch' = batch
    BY <2>1 DEF loop, IInv, Shapes
  <2> QED
    BY <1>1, <2>1, <2>2, ShutdownKeeps DEF loop
<1> QED
  BY <1>2, <1>3, <1>4 DEF LoopUser

-----------------------------------------------------------------------------
LEMMA InitInvariant == Init => IInv
<1> SUFFICES ASSUME Init
             PROVE  IInv
  OBVIOUS
<1> DEFINE est == [op |-> "connectEstablished"]
           q == <<est>>
<1>1. pending = q /\ q \in Seq(Functors) /\ q # << >> /\ Head(q).op = "connectEstablished"
  BY FunctorsAre DEF Init
<1>2. NoEst(Tail(q)) /\ NoEst(<< >>) /\ << >> \in Seq(Functors) /\ << >> \in Seq(AllBytes)
  BY EmptySeq DEF NoEst
<1> HIDE DEF q
<1>3. Shapes
  <2>1. pc \in [Users -> {"idle", "shutdown", "disconnecting"} \cup Messages \cup Files]
    BY DEF Init
  <2>2. space \in 0..SndBuf
    BY TcpConnectionAssumption DEF Init
  <2>3. pending \in Seq(Functors) /\ batch \in Seq(Functors)
    BY <1>1, <1>2 DEF Init
  <2> QED
    BY <1>2, <2>1, <2>2, <2>3 DEF Init, Shapes, States
<1>4. UpFirst
  BY <1>1, <1>2 DEF Init, UpFirst, EstFirst
<1>5. OutputInOrder
  BY <1>2, ConcatEmptySeq DEF Init, OutputInOrder
<1> QED
  BY <1>3, <1>4, <1>5 DEF Init, IInv, WritingIffBuffered, HalfCloseAfterBuffer

LEMMA NextInvariant == IInv /\ [Next]_vars => IInv'
<1>1. ASSUME IInv, Next
      PROVE  IInv'
  <2>1. LoopStep => IInv'
    BY <1>1, PollKeeps, HandlersKeep, EventWriteKeeps, BatchKeeps, RunEstablishedKeeps,
       RunDestroyedKeeps, FunctorsKeep DEF LoopStep
  <2> QED
    BY <1>1, <2>1, LoopUserKeeps, UserKeeps, EnvironmentKeeps DEF Next
<1>2. ASSUME IInv, UNCHANGED vars
      PROVE  IInv'
  BY <1>2 DEF IInv, Shapes, OutputInOrder, UpFirst, WritingIffBuffered, HalfCloseAfterBuffer,
             vars, conn, channel, loop, world, kernel, network, server, users, history, life
<1> QED
  BY <1>1, <1>2

LEMMA Invariance == Spec => []IInv
BY InitInvariant, NextInvariant, PTL DEF Spec

\* Every variable has its type: a functor that is queued is one the loop can run, the
\* kernel's buffer is never overfilled, the channel watches only what a connection watches.
THEOREM Typing == Spec => []TypeOK
<1>1. IInv => TypeOK
  <2> SUFFICES ASSUME IInv
               PROVE  TypeOK
    OBVIOUS
  <2>1. \A s \in {pending, batch} : \A i \in 1..Len(s) : s[i].op \in Ops
    <3> SUFFICES ASSUME NEW s \in {pending, batch}, NEW i \in 1..Len(s)
                 PROVE  s[i].op \in Ops
      OBVIOUS
    <3>1. s[i] \in Functors
      BY LenProperties DEF IInv, Shapes
    <3> QED
      BY <3>1, FunctorFields
  <2>2. \A u \in Users : pc[u] \in {"idle", "shutdown", "disconnecting"} \cup Messages \cup Files
    BY DEF IInv, Shapes
  <2> QED
    BY <2>1, <2>2 DEF IInv, Shapes, TypeOK
<1> QED
  BY <1>1, Invariance, PTL

\* The kernel gets the bytes sendInLoop() and sendFileInLoop() took charge of in their
\* order, and what it has not got yet is in the buffer: across short writes, the direct
\* write and handleWrite(), whoever sends.
THEOREM BytesKeepOrder == Spec => []OutputInOrder
<1>1. IInv => OutputInOrder
  BY DEF IInv
<1> QED
  BY <1>1, Invariance, PTL

\* While the connection is up, EPOLLOUT is watched if and only if something waits to be
\* written: output does not get stuck and the loop does not spin.
THEOREM OutputIsWatched == Spec => []WritingIffBuffered
<1>1. IInv => WritingIffBuffered
  BY DEF IInv
<1> QED
  BY <1>1, Invariance, PTL

\* shutdown() never cuts off what was sent before it: while the connection is up, a
\* half-closed socket has nothing buffered behind it.
THEOREM HalfCloseComesLast == Spec => []HalfCloseAfterBuffer
<1>1. IInv => HalfCloseAfterBuffer
  BY DEF IInv
<1> QED
  BY <1>1, Invariance, PTL
-----------------------------------------------------------------------------
\* When shutdown() is called on the loop only.

\* What waits to destroy the connection goes on waiting.
LEMMA EndStaysAhead ==
  ASSUME Shapes, Posts, HasDes(batch) => HasDes(batch'),
         inMap \/ closing > 0 => inMap' \/ closing' > 0 \/ HasDes(pending'),
         EndAhead
  PROVE  EndAhead'
BY AfterPosts DEF EndAhead

\* A step that leaves the connection's state and its channel alone.
LEMMA OnLoopQuiet ==
  ASSUME OnLoop, UNCHANGED <<ups, downs, state, destroyed, events, index, outputBuffer>>,
         shutWr => shutWr', destroyed => revents' = {}, NobodyOff', EndAhead => EndAhead'
  PROVE  OnLoop'
BY DEF OnLoop

\* What a user off the loop does: it is never inside shutdown().
LEMMA UserOnLoop ==
  ASSUME IInv, OnLoop, Closers = {}, NEW u \in Users, UserNext(u)
  PROVE  OnLoop'
<1> DEFINE Same == UNCHANGED <<ups, downs, state, destroyed, events, index, outputBuffer, shutWr,
                               revents, batch, inMap, closing>>
<1>1. CASE \E x \in Messages \cup Files : SendCheck(u, x)
  <2>1. PICK x \in Messages \cup Files : SendCheck(u, x)
    BY <1>1
  <2>2. Posts /\ Same
    BY <2>1, PostedNone
       DEF SendCheck, IInv, conn, channel, loop, world, kernel, server, history, life
  <2>3. NobodyOff'
    <3>1. x \notin {"shutdown", "disconnecting"}
      BY TcpConnectionAssumption
    <3>2. pc \in [Users -> {"idle", "shutdown", "disconnecting"} \cup Messages \cup Files]
          /\ pc' = [pc EXCEPT ![u] = x] /\ NobodyOff
      BY <2>1 DEF SendCheck, IInv, Shapes, OnLoop
    <3> QED
      BY <3>1, <3>2 DEF NobodyOff
  <2> QED
    BY <2>2, <2>3, EndStaysAhead, OnLoopQuiet DEF IInv, OnLoop
<1>2. CASE SendPost(u) \/ SendFilePost(u)
  <2>1. Posts
    <3>1. ASSUME pc[u] \in Files
          PROVE  Count[pc[u]] \in Nat
      BY <3>1, TcpConnectionAssumption
    <3>2. CASE SendPost(u)
      BY <3>2, FunctorsAre, Posted1 DEF SendPost, IInv
    <3>3. CASE SendFilePost(u)
      BY <3>1, <3>3, FunctorsAre, Posted1 DEF SendFilePost, IInv
    <3> QED
      BY <1>2, <3>2, <3>3
  <2>2. Same /\ pc' = [pc EXCEPT ![u] = "idle"]
    BY <1>2
       DEF SendPost, SendFilePost, conn, channel, loop, world, kernel, server, history, life
  <2>3. NobodyOff'
    BY <2>2 DEF NobodyOff, OnLoop, IInv, Shapes
  <2> QED
    BY <2>1, <2>2, <2>3, EndStaysAhead, OnLoopQuiet DEF IInv, OnLoop
<1>3. CASE Release(u)
  <2>1. Posts /\ Same /\ pc' = pc
    BY <1>3, PostedNone
       DEF Release, IInv, conn, channel, loop, world, kernel, server, history, life
  <2>2. NobodyOff'
    BY <2>1 DEF NobodyOff, OnLoop
  <2> QED
    BY <2>1, <2>2, EndStaysAhead, OnLoopQuiet DEF IInv, OnLoop
<1>4. ~ShutdownCheck(u) /\ ~ShutdownSet(u) /\ ~ShutdownPost(u)
  BY DEF ShutdownCheck, ShutdownSet, ShutdownPost, OnLoop, NobodyOff
<1> QED
  BY <1>1, <1>2, <1>3, <1>4 DEF UserNext, UserFinishes

\* What the owner, the peer and the kernel do.
LEMMA EnvironmentOnLoop ==
  ASSUME IInv, OnLoop, Environment
  PROVE  OnLoop'
<1> DEFINE Same == UNCHANGED <<ups, downs, state, destroyed, events, index, outputBuffer, shutWr,
                               revents, batch, pc>>
<1>1. ASSUME Posts, Same, inMap \/ closing > 0 => inMap' \/ closing' > 0 \/ HasDes(pending')
      PROVE  OnLoop'
  <2>1. NobodyOff'
    BY <1>1 DEF NobodyOff, OnLoop
  <2> QED
    BY <1>1, <2>1, EndStaysAhead, OnLoopQuiet DEF IInv, OnLoop
<1>2. ASSUME NEW m \in Messages, FreeString(m)
      PROVE  OnLoop'
  <2>1. Posts /\ Same /\ UNCHANGED <<inMap, closing>>
    BY <1>2, PostedNone
       DEF FreeString, IInv, conn, channel, loop, world, kernel, server, history, life
  <2> QED
    BY <1>1, <2>1
<1>3. CASE ServerRemoves
  <2>1. Posts /\ HasDes(pending')
    BY <1>3, FunctorsAre, Posted1 DEF ServerRemoves, QueueDestroyed, IInv
  <2>2. Same
    BY <1>3 DEF ServerRemoves, conn, channel, loop, kernel, users, history, life
  <2> QED
    BY <1>1, <2>1, <2>2
<1>4. CASE ServerDestroyed
  <2>1. Posts /\ (inMap => HasDes(pending'))
    BY <1>4, FunctorsAre, Posted1, PostedNone DEF ServerDestroyed, QueueDestroyed, IInv
  <2>2. Same /\ closing' = closing
    BY <1>4 DEF ServerDestroyed, conn, channel, loop, kernel, users, history, life
  <2> QED
    BY <1>1, <2>1, <2>2
<1>5. CASE Ack
  <2>1. Posts /\ Same /\ UNCHANGED <<inMap, closing>>
    BY <1>5, PostedNone DEF Ack, IInv, conn, channel, loop, server, users, history, life
  <2> QED
    BY <1>1, <2>1
<1>6. CASE PeerSends \/ PeerCloses \/ PeerResets
  <2>1. UNCHANGED <<conn, pending, loop, kernel, server, users, history>>
    BY <1>6 DEF PeerSends, PeerCloses, PeerResets
  <2>2. Posts /\ Same /\ UNCHANGED <<inMap, closing>>
    BY <2>1, PostedNone DEF IInv, conn, channel, loop, kernel, server, users, history, life
  <2> QED
    BY <1>1, <2>2
<1> QED
  BY <1>2, <1>3, <1>4, <1>5, <1>6 DEF Environment

\* poll() returns nothing for a channel the poller no longer knows.
LEMMA PollOnLoop ==
  ASSUME IInv, OnLoop, Poll
  PROVE  OnLoop'
<1>1. Posts
  BY PostedNone DEF Poll, IInv
<1>2. UNCHANGED <<ups, downs, state, destroyed, events, index, outputBuffer, shutWr, batch, inMap,
                  closing, pc>>
  BY DEF Poll, conn, channel, world, kernel, server, users, history, life
<1>3. destroyed => revents' = {}
  BY DEF Poll, Reported, OnLoop
<1>4. NobodyOff'
  BY <1>2 DEF NobodyOff, OnLoop
<1> QED
  BY <1>1, <1>2, <1>3, <1>4, EndStaysAhead, OnLoopQuiet DEF IInv

\* handleClose(): the server will hear of it.
LEMMA CloseOnLoop ==
  ASSUME IInv, OnLoop, HandleClose, ups > 0, ~destroyed,
         UNCHANGED <<ups, destroyed, pc>>
  PROVE  OnLoop'
<1>1. /\ state' = "kDisconnected" /\ closing' > 0
  BY DEF HandleClose, IInv, Shapes
<1>2. NobodyOff'
  BY DEF NobodyOff, OnLoop
<1> QED
  BY <1>1, <1>2 DEF OnLoop, EndAhead
\* A handler runs for a connection that is not destroyed.
LEMMA HandlersOnLoop ==
  ASSUME IInv, OnLoop, EventHup \/ EventError \/ EventRead
  PROVE  OnLoop'
<1>1. ASSUME NEW bit, NEW earlier, Dispatch(bit, earlier)
      PROVE  ups > 0 /\ ~destroyed /\ revents' \subseteq revents /\ UNCHANGED <<batch, pc>>
  BY <1>1, DispatchMeans DEF Dispatch, OnLoop, users
<1>2. /\ ups > 0 /\ ~destroyed /\ revents' \subseteq revents /\ UNCHANGED <<batch, pc>>
      /\ UNCHANGED <<outputBuffer, pending, shutWr, inMap, ups, destroyed>>
      /\ HandleClose \/ UNCHANGED <<state, events, index, closing, downs>>
  <2>1. CASE EventHup
    BY <1>1, <2>1 DEF EventHup, channel, kernel
  <2>2. CASE EventError
    BY <1>1, <2>2 DEF EventError, conn, channel, kernel, server, history, life
  <2>3. CASE EventRead
    BY <1>1, <2>3 DEF EventRead, channel, kernel
  <2> QED
    BY <2>1, <2>2, <2>3
<1>3. CASE HandleClose
  BY <1>2, <1>3, CloseOnLoop
<1>4. CASE UNCHANGED <<state, events, index, closing, downs>>
  <2>1. Posts
    BY <1>2, PostedNone DEF IInv
  <2>2. NobodyOff'
    BY <1>2 DEF NobodyOff, OnLoop
  <2> QED
    BY <1>2, <1>4, <2>1, <2>2, EndStaysAhead, OnLoopQuiet DEF IInv
<1> QED
  BY <1>2, <1>3, <1>4

\* handleWrite(): when the last byte goes, shutdown() that waited for it happens.
LEMMA EventWriteOnLoop ==
  ASSUME IInv, OnLoop, EventWrite
  PROVE  OnLoop'
<1>1. /\ ups > 0 /\ ~destroyed /\ revents' \subseteq revents
      /\ UNCHANGED <<state, batch, pc, inMap, closing, ups, downs, destroyed>>
  BY DispatchMeans DEF EventWrite, Dispatch, OnLoop, users, server, history, life
<1>2. NobodyOff'
  BY <1>1 DEF NobodyOff, OnLoop
<1>3. CASE UNCHANGED <<channel, outputBuffer, pending, kernel>>
  <2>1. Posts
    BY <1>3, PostedNone DEF IInv
  <2> QED
    BY <1>1, <1>2, <1>3, <2>1, EndStaysAhead, OnLoopQuiet DEF IInv, channel, kernel
<1>4. CASE /\ space > 0 /\ outputBuffer # << >>
           /\ DrainOutput(Lesser(space, Len(outputBuffer)))
  <2>1. /\ Posts
        /\ \/ /\ events' = events \ {"write"}
              /\ shutWr' = (shutWr \/ state = "kDisconnecting")
           \/ UNCHANGED <<events, shutWr>>
    BY <1>4, DrainOutputKeeps DEF EventWrite, IInv, history
  <2>2. EndAhead => EndAhead'
    BY <1>1, <2>1, EndStaysAhead DEF IInv
  <2>3. state' = "kDisconnecting" => shutWr' \/ "write" \in events'
    <3>1. CASE shutWr' = (shutWr \/ state = "kDisconnecting")
      BY <1>1, <3>1
    <3>2. CASE UNCHANGED <<events, shutWr>>
      BY <1>1, <3>2 DEF OnLoop
    <3> QED
      BY <2>1, <3>1, <3>2
  <2> QED
    BY <1>1, <1>2, <2>2, <2>3 DEF OnLoop
<1> QED
  BY <1>3, <1>4 DEF EventWrite

\* The swap moves what is queued, the end of a batch nothing.
LEMMA BatchOnLoop ==
  ASSUME IInv, OnLoop, SwapFunctors \/ EndBatch
  PROVE  OnLoop'
<1>1. UNCHANGED <<ups, downs, state, destroyed, events, index, outputBuffer, shutWr, revents, pc,
                  inMap, closing>>
  BY DEF SwapFunctors, EndBatch, conn, channel, world, kernel, server, users, history, life
<1>2. NobodyOff'
  BY <1>1 DEF NobodyOff, OnLoop
<1>3. EndAhead => EndAhead'
  <2>1. CASE SwapFunctors
    <3>1. batch = << >> /\ batch' = pending
      BY <2>1 DEF SwapFunctors, IInv, UpFirst
    <3>2. ~HasDes(batch)
      BY <3>1 DEF HasDes
    <3> QED
      BY <1>1, <3>1, <3>2 DEF EndAhead
  <2>2. CASE EndBatch
    BY <1>1, <2>2 DEF EndBatch, EndAhead
  <2> QED
    BY <2>1, <2>2
<1> QED
  BY <1>1, <1>2, <1>3, OnLoopQuiet DEF OnLoop

\* A functor that is not connectDestroyed leaves one that is where it was.
LEMMA RunLeavesEnd ==
  ASSUME IInv, NEW op, RunNext(op), op # "connectDestroyed"
  PROVE  /\ HasDes(batch) => HasDes(batch')
         /\ UNCHANGED <<inMap, closing>>
<1>1. batch \in Seq(Functors) /\ batch # << >> /\ batch' = Tail(batch) /\ Head(batch).op = op
  BY DEF RunNext, IInv, Shapes
<1>2. UNCHANGED <<inMap, closing>>
  BY DEF RunNext, server
<1> QED
  BY <1>1, <1>2, QueueShrinks

LEMMA RunEstablishedOnLoop ==
  ASSUME IInv, OnLoop, RunConnectEstablished
  PROVE  OnLoop'
<1>1. /\ ups = 0 /\ revents' = revents
      /\ HasDes(batch) => HasDes(batch')
      /\ UNCHANGED <<inMap, closing>>
  BY RunNextMeans, RunLeavesEnd DEF RunConnectEstablished
<1>2. downs = 0 /\ ~destroyed
  BY <1>1 DEF IInv, UpFirst
<1>3. /\ state' = "kConnected" /\ ups' = 1
      /\ UNCHANGED <<pending, downs, destroyed, pc>>
  BY <1>1 DEF RunConnectEstablished
<1>4. NobodyOff'
  BY <1>3 DEF NobodyOff, OnLoop
<1>5. EndAhead'
  BY <1>1, <1>2, <1>3 DEF EndAhead, OnLoop
<1> QED
  BY <1>2, <1>3, <1>4, <1>5 DEF OnLoop

\* connectDestroyed(): nothing is left that could watch the channel again.
LEMMA RunDestroyedOnLoop ==
  ASSUME IInv, OnLoop, RunConnectDestroyed
  PROVE  OnLoop'
<1>1. ups # 0 /\ loopPc = "run" /\ revents' = revents
  BY RunNextMeans DEF RunConnectDestroyed
<1>2. /\ ups > 0 /\ revents = {} /\ state # "kConnecting" /\ state \in States
  BY <1>1 DEF IInv, Shapes, UpFirst, OnLoop
<1>3. /\ destroyed' = TRUE /\ index' = "kNew" /\ TellDown
      /\ UNCHANGED <<outputBuffer, shutWr, ups, pc>>
  BY DEF RunConnectDestroyed, Remove, kernel, users
<1>4. NobodyOff'
  BY <1>3 DEF NobodyOff, OnLoop
<1>5. CASE state = "kConnected"
  <2>1. state' = "kDisconnected"
    BY <1>3, <1>5 DEF TellDown
  <2> QED
    BY <1>1, <1>2, <1>3, <1>4, <2>1 DEF OnLoop
<1>6. CASE state # "kConnected"
  <2>1. UNCHANGED <<state, events, downs>>
    BY <1>3, <1>6 DEF TellDown
  <2>2. state = "kDisconnecting" => "write" \in events \/ (shutWr /\ outputBuffer = << >>)
    <3> SUFFICES ASSUME state = "kDisconnecting", "write" \notin events, ~destroyed
                 PROVE  shutWr /\ outputBuffer = << >>
      BY DEF OnLoop
    <3>1. shutWr /\ ~(downs > 0) /\ downs \in Nat
      BY DEF OnLoop, IInv, Shapes
    <3> QED
      BY <3>1 DEF IInv, HalfCloseAfterBuffer
  <2> QED
    BY <1>1, <1>2, <1>3, <1>4, <1>6, <2>1, <2>2 DEF OnLoop
<1> QED
  BY <1>5, <1>6

\* sendInLoop(), whoever calls it.
LEMMA SendOnLoop ==
  ASSUME IInv, OnLoop, ups > 0, NEW data \in Seq(AllBytes), SendInLoop(data),
         HasDes(batch) => HasDes(batch'),
         UNCHANGED <<state, revents, shutWr, inMap, closing, pc, life>>
  PROVE  OnLoop'
<1> DEFINE Same == UNCHANGED <<events, index, outputBuffer>>
           More == /\ state # "kDisconnected" /\ ~(Direct /\ Broken)
                   /\ events' = events \cup {"write"}
                   /\ "write" \in events => index' = index
<1>1. Posts /\ (Same \/ More)
  BY SendInLoopKeeps DEF IInv
<1>2. NobodyOff'
  BY DEF NobodyOff, OnLoop
<1>3. EndAhead => EndAhead'
  BY <1>1, EndStaysAhead DEF IInv
<1>4. CASE Same
  BY <1>2, <1>3, <1>4, OnLoopQuiet DEF OnLoop, life
<1>5. CASE More
  <2>1. destroyed => "write" \in events
    <3> SUFFICES ASSUME destroyed, "write" \notin events
                 PROVE  FALSE
      OBVIOUS
    <3>1. state = "kDisconnecting"
      BY <1>5 DEF OnLoop, IInv, Shapes, States, UpFirst
    <3>2. shutWr /\ outputBuffer = << >>
      BY <3>1 DEF OnLoop
    <3> QED
      BY <1>5, <3>2 DEF Direct, Broken
  <2> QED
    BY <1>2, <1>3, <1>5, <2>1 DEF OnLoop, life
<1> QED
  BY <1>1, <1>4, <1>5

\* sendFileInLoop() and shutdownInLoop(), likewise.
LEMMA OthersOnLoop ==
  ASSUME IInv, OnLoop, Posts, HasDes(batch) => HasDes(batch'), shutWr => shutWr',
         UNCHANGED <<conn, revents, inMap, closing, pc, life>>
  PROVE  OnLoop'
<1>1. NobodyOff'
  BY DEF NobodyOff, OnLoop
<1> QED
  BY <1>1, EndStaysAhead, OnLoopQuiet DEF IInv, OnLoop, conn, channel, life
\* The functors.
LEMMA FunctorsOnLoop ==
  ASSUME IInv, OnLoop,
         RunSendInLoop \/ RunSendFileInLoop \/ RunShutdownInLoop \/ RunUserCallback
  PROVE  OnLoop'
<1>1. ASSUME NEW op, RunNext(op), op \notin {"connectEstablished", "connectDestroyed"}
      PROVE  /\ ups > 0 /\ revents' = revents
             /\ HasDes(batch) => HasDes(batch')
             /\ UNCHANGED <<inMap, closing>>
             /\ Head(batch) \in Functors /\ Head(batch).op = op
  <2>1. ups # 0 /\ revents' = revents /\ Head(batch) \in Functors /\ Head(batch).op = op
    BY <1>1, RunNextMeans
  <2> QED
    BY <1>1, <2>1, RunLeavesEnd DEF IInv, Shapes
<1>2. CASE RunSendInLoop
  <2>1. /\ ups > 0 /\ revents' = revents
        /\ HasDes(batch) => HasDes(batch')
        /\ UNCHANGED <<inMap, closing>>
        /\ Head(batch) \in Functors /\ Head(batch).op = "sendInLoop"
    BY <1>1, <1>2 DEF RunSendInLoop
  <2> DEFINE data == Contents(Head(batch).data)
  <2>2. data \in Seq(AllBytes)
    BY <2>1, ContentsAreBytes, FunctorFields
  <2>3. SendInLoop(data) /\ UNCHANGED <<state, shutWr, pc, life>>
    BY <1>2 DEF RunSendInLoop, users
  <2> HIDE DEF data
  <2> QED
    BY <2>1, <2>2, <2>3, SendOnLoop
<1>3. CASE RunSendFileInLoop
  <2>1. /\ ups > 0 /\ revents' = revents
        /\ HasDes(batch) => HasDes(batch')
        /\ UNCHANGED <<inMap, closing>>
        /\ Head(batch) \in Functors /\ Head(batch).op = "sendFileInLoop"
    BY <1>1, <1>3 DEF RunSendFileInLoop
  <2>2. /\ SendFileInLoop(Head(batch).file, Head(batch).offset, Head(batch).count)
        /\ UNCHANGED <<conn, shutWr, pc, life>>
    BY <1>3 DEF RunSendFileInLoop, users
  <2>3. Head(batch).file \in Files /\ Head(batch).offset \in Nat /\ Head(batch).count \in Nat
    BY <2>1, FunctorFields
  <2>4. Posts
    BY <2>2, <2>3, SendFileInLoopKeeps DEF IInv, conn
  <2> QED
    BY <2>1, <2>2, <2>4, OthersOnLoop
<1>4. CASE RunShutdownInLoop
  <2>1. /\ revents' = revents
        /\ HasDes(batch) => HasDes(batch')
        /\ UNCHANGED <<inMap, closing>>
    BY <1>1, <1>4 DEF RunShutdownInLoop
  <2>2. Posts /\ (shutWr => shutWr') /\ UNCHANGED <<conn, pc, life>>
    BY <1>4, PostedNone DEF RunShutdownInLoop, ShutdownInLoop, IInv, users, history
  <2> QED
    BY <2>1, <2>2, OthersOnLoop
<1>5. CASE RunUserCallback
  <2>1. /\ revents' = revents
        /\ HasDes(batch) => HasDes(batch')
        /\ UNCHANGED <<inMap, closing>>
    BY <1>1, <1>5 DEF RunUserCallback
  <2>2. Posts /\ shutWr' = shutWr /\ UNCHANGED <<conn, pc, life>>
    BY <1>5, PostedNone DEF RunUserCallback, IInv, users, history, kernel
  <2> QED
    BY <2>1, <2>2, OthersOnLoop
<1> QED
  BY <1>2, <1>3, <1>4, <1>5

\* User code on the loop thread: the one place a shutdown() starts.
LEMMA LoopUserOnLoop ==
  ASSUME IInv, OnLoop, LoopUser
  PROVE  OnLoop'
<1>1. ASSUME NEW m \in Messages, LoopSend(m)
      PROVE  OnLoop'
  <2> DEFINE data == Bytes(m, 1, Size[m])
  <2>1. data \in Seq(AllBytes)
    BY MessagesAreBytes
  <2>2. /\ ups > 0 /\ SendInLoop(data)
        /\ UNCHANGED <<state, batch, revents, shutWr, inMap, closing, pc, life>>
    BY <1>1 DEF LoopSend, InUserCode, loop, server
  <2> HIDE DEF data
  <2> QED
    BY <2>1, <2>2, SendOnLoop
<1>2. ASSUME NEW f \in Files, LoopSendFile(f)
      PROVE  OnLoop'
  <2>1. 0 \in Nat /\ Count[f] \in Nat
    BY TcpConnectionAssumption
  <2>2. /\ SendFileInLoop(f, 0, Count[f])
        /\ UNCHANGED <<conn, batch, revents, shutWr, inMap, closing, pc, life>>
    BY <1>2 DEF LoopSendFile, loop, server
  <2>3. Posts
    BY <2>1, <2>2, SendFileInLoopKeeps DEF IInv, conn
  <2> QED
    BY <2>2, <2>3, OthersOnLoop
<1>3. CASE LoopShutdown
  <2>1. /\ ups > 0 /\ state = "kConnected" /\ state' = "kDisconnecting"
        /\ UNCHANGED <<events, index, outputBuffer, pending, batch, revents, inMap, closing, pc,
                       ups, downs, destroyed>>
    BY <1>3
       DEF LoopShutdown, InUserCode, MayShutDown, channel, loop, server, users, history, life
  <2>2. downs' = 0 /\ ~destroyed
    BY <2>1 DEF OnLoop, IInv, Shapes
  <2>3. shutWr' \/ "write" \in events'
    BY <1>3, <2>1 DEF LoopShutdown, ShutdownInLoop
  <2>4. NobodyOff'
    BY <2>1 DEF NobodyOff, OnLoop
  <2>5. EndAhead'
    BY <2>1, <2>2 DEF EndAhead, OnLoop
  <2> QED
    BY <2>1, <2>2, <2>3, <2>4, <2>5 DEF OnLoop
<1> QED
  BY <1>1, <1>2, <1>3 DEF LoopUser

LEMMA InitOnLoop == Init => OnLoop
BY TcpConnectionAssumption DEF Init, OnLoop, NobodyOff, EndAhead

LEMMA NextOnLoop ==
  ASSUME Closers = {}
  PROVE  IInv /\ OnLoop /\ [Next]_vars => OnLoop'
<1>1. ASSUME IInv, OnLoop, Next
      PROVE  OnLoop'
  <2>1. LoopStep => OnLoop'
    BY <1>1, PollOnLoop, HandlersOnLoop, EventWriteOnLoop, BatchOnLoop, RunEstablishedOnLoop,
       RunDestroyedOnLoop, FunctorsOnLoop DEF LoopStep
  <2> QED
    BY <1>1, <2>1, LoopUserOnLoop, UserOnLoop, EnvironmentOnLoop DEF Next
<1>2. ASSUME OnLoop, UNCHANGED vars
      PROVE  OnLoop'
  BY <1>2 DEF OnLoop, NobodyOff, EndAhead, HasDes, vars, conn, channel, loop, world, kernel,
             server, users, history, life
<1> QED
  BY <1>1, <1>2

\* When shutdown() is called on the loop only, whatever is queued before or after
\* connectDestroyed() never puts the channel back into the poller.
THEOREM UnwatchedOnceDestroyed ==
  ASSUME Closers = {}
  PROVE  Spec => []DestroyedMeansUnwatched
<1>1. OnLoop => DestroyedMeansUnwatched
  BY DEF OnLoop, DestroyedMeansUnwatched
<1> QED
  BY <1>1, InitInvariant, InitOnLoop, NextInvariant, NextOnLoop, PTL DEF Spec

\* And what poll() returned for the channel is handled while the connection exists: the
\* owner, or the connectDestroyed() on its way, still holds it.
THEOREM NoChannelOutlives ==
  ASSUME Closers = {}
  PROVE  Spec => []NoStaleChannel
<1>1. OnLoop => NoStaleChannel
  <2> SUFFICES ASSUME OnLoop, revents # {}
               PROVE  Alive
    BY DEF NoStaleChannel
  <2>1. EndAhead
    BY DEF OnLoop
  <2>2. \A q \in {pending, batch} : HasDes(q) => Holds(q)
    BY DEF HasDes, Holds, Raw
  <2> QED
    BY <2>1, <2>2 DEF EndAhead, Alive
<1> QED
  BY <1>1, InitInvariant, InitOnLoop, NextInvariant, NextOnLoop, PTL DEF Spec
-----------------------------------------------------------------------------
\* Whoever calls shutdown(), and on whichever thread: what CloseIsCleanedUp rests on.

\* connectDestroyed() is queued, or the server will queue it: the connection is in its
\* table, and once it is down a removal is on its way to the base loop (handleClose,
\* removeConnectionInLoop, ~TcpServer).
DestructionIsDue ==
  ~destroyed => \/ HasDes(pending) \/ HasDes(batch)
                \/ inMap /\ (downs > 0 => closing > 0)

\* A step that takes no connectDestroyed out of the queues and leaves the table alone.
LEMMA DueStays ==
  ASSUME Shapes, DestructionIsDue, Posts, HasDes(batch) => HasDes(batch'),
         UNCHANGED <<inMap, destroyed>>, closing' > 0 \/ UNCHANGED <<closing, downs>>
  PROVE  DestructionIsDue'
BY AfterPosts DEF DestructionIsDue

\* What users off the loop do, shutdown() included.
LEMMA UserKeepsDue ==
  ASSUME IInv, DestructionIsDue, NEW u \in Users, UserNext(u)
  PROVE  DestructionIsDue'
<1>1. UNCHANGED <<loop, world>> /\ UNCHANGED history
  BY DEF UserNext, UserFinishes, SendCheck, SendPost, SendFilePost, ShutdownCheck, ShutdownSet,
         ShutdownPost, Release
<1>2. UNCHANGED <<inMap, closing, batch, downs, destroyed>>
  BY <1>1 DEF loop, world, server, history, life
<1>3. Posts
  <2>1. CASE UNCHANGED pending
    BY <2>1, PostedNone DEF IInv
  <2>2. CASE SendPost(u)
    BY <2>2, FunctorsAre, Posted1 DEF SendPost, IInv
  <2>3. CASE SendFilePost(u)
    <3>1. Count[pc[u]] \in Nat
      BY <2>3, TcpConnectionAssumption DEF SendFilePost
    <3> QED
      BY <2>3, <3>1, FunctorsAre, Posted1 DEF SendFilePost, IInv
  <2>4. CASE ShutdownPost(u)
    BY <2>4, FunctorsAre, Posted1 DEF ShutdownPost, IInv
  <2>5. \/ UNCHANGED pending
        \/ SendPost(u) \/ SendFilePost(u) \/ ShutdownPost(u)
    BY DEF UserNext, UserFinishes, SendCheck, ShutdownCheck, ShutdownSet, Release
  <2> QED
    BY <2>1, <2>2, <2>3, <2>4, <2>5
<1> QED
  BY <1>2, <1>3, DueStays DEF IInv

\* What the owner, the peer and the kernel do: the entry goes and connectDestroyed comes.
LEMMA EnvironmentKeepsDue ==
  ASSUME IInv, DestructionIsDue, Environment
  PROVE  DestructionIsDue'
<1>1. CASE ServerRemoves
  <2>1. HasDes(pending')
    BY <1>1, FunctorsAre, Posted1 DEF ServerRemoves, QueueDestroyed, IInv
  <2> QED
    BY <2>1 DEF DestructionIsDue
<1>2. CASE ServerDestroyed
  <2>1. Posts /\ (inMap => HasDes(pending'))
    BY <1>2, FunctorsAre, Posted1, PostedNone DEF ServerDestroyed, QueueDestroyed, IInv
  <2>2. UNCHANGED <<batch, destroyed>>
    BY <1>2 DEF ServerDestroyed, loop, history, life
  <2> QED
    BY <2>1, <2>2, AfterPosts DEF DestructionIsDue, IInv
<1>3. CASE (\E m \in Messages : FreeString(m)) \/ Ack \/ PeerSends \/ PeerCloses \/ PeerResets
  <2>1. UNCHANGED <<pending, loop, server, history>>
    BY <1>3 DEF FreeString, Ack, PeerSends, PeerCloses, PeerResets, world
  <2>2. UNCHANGED <<pending, batch, inMap, closing, downs, destroyed>>
    BY <2>1 DEF loop, server, history, life
  <2> QED
    BY <2>2, PostedNone, DueStays DEF IInv
<1> QED
  BY <1>1, <1>2, <1>3 DEF Environment

\* poll(), the handlers and the swap: handleClose() calls the server.
LEMMA HandlersKeepDue ==
  ASSUME IInv, DestructionIsDue,
         Poll \/ EventHup \/ EventError \/ EventRead \/ EventWrite \/ SwapFunctors \/ EndBatch
  PROVE  DestructionIsDue'
<1>1. CASE Poll
  <2>1. UNCHANGED <<pending, batch, inMap, closing, downs, destroyed>>
    BY <1>1 DEF Poll, world, server, history, life
  <2> QED
    BY <2>1, PostedNone, DueStays DEF IInv
<1>2. CASE EventHup \/ EventError \/ EventRead
  <2>1. /\ UNCHANGED <<pending, batch, inMap, destroyed>>
        /\ HandleClose \/ UNCHANGED <<closing, downs>>
    <3>1. CASE EventHup
      BY <1>2, <3>1, DispatchMeans DEF EventHup, Dispatch
    <3>2. CASE EventError
      BY <1>2, <3>2, DispatchMeans DEF EventError, Dispatch, server, history, life
    <3>3. CASE EventRead
      BY <1>2, <3>3, DispatchMeans DEF EventRead, Dispatch
    <3> QED
      BY <1>2, <3>1, <3>2, <3>3
  <2>2. closing' > 0 \/ UNCHANGED <<closing, downs>>
    BY <2>1 DEF HandleClose, IInv, Shapes
  <2> QED
    BY <2>1, <2>2, PostedNone, DueStays DEF IInv
<1>3. CASE EventWrite
  <2>1. UNCHANGED <<batch, inMap, closing, downs, destroyed>>
    BY <1>3, DispatchMeans DEF EventWrite, Dispatch, server, history, life
  <2>2. Posts
    <3>1. CASE UNCHANGED pending
      BY <3>1, PostedNone DEF IInv
    <3>2. CASE /\ space > 0 /\ outputBuffer # << >>
               /\ DrainOutput(Lesser(space, Len(outputBuffer)))
      BY <1>3, <3>2, DrainOutputKeeps DEF EventWrite, IInv, history
    <3> QED
      BY <1>3, <3>1, <3>2 DEF EventWrite
  <2> QED
    BY <2>1, <2>2, DueStays DEF IInv
<1>4. CASE SwapFunctors
  <2>1. batch = << >> /\ batch' = pending
    BY <1>4 DEF SwapFunctors, IInv, UpFirst
  <2>2. ~HasDes(batch) /\ UNCHANGED <<inMap, closing, downs, destroyed>>
    BY <1>4, <2>1 DEF HasDes, SwapFunctors, world, server, history, life
  <2> QED
    BY <2>1, <2>2 DEF DestructionIsDue, HasDes
<1>5. CASE EndBatch
  <2>1. UNCHANGED <<pending, batch, inMap, closing, downs, destroyed>>
    BY <1>5 DEF EndBatch, world, server, history, life
  <2> QED
    BY <2>1, PostedNone, DueStays DEF IInv
<1> QED
  BY <1>1, <1>2, <1>3, <1>4, <1>5

\* The functors: connectDestroyed itself ends the wait, the others leave it where it is.
LEMMA FunctorsKeepDue ==
  ASSUME IInv, DestructionIsDue,
         \/ RunConnectEstablished \/ RunConnectDestroyed \/ RunSendInLoop
         \/ RunSendFileInLoop \/ RunShutdownInLoop \/ RunUserCallback
  PROVE  DestructionIsDue'
<1>1. ASSUME NEW op, RunNext(op), op # "connectDestroyed", Posts, UNCHANGED <<downs, destroyed>>
      PROVE  DestructionIsDue'
  BY <1>1, RunLeavesEnd, DueStays DEF IInv
<1>2. CASE RunConnectEstablished
  BY <1>1, <1>2, PostedNone DEF RunConnectEstablished, IInv
<1>3. CASE RunConnectDestroyed
  BY <1>3 DEF RunConnectDestroyed, DestructionIsDue
<1>4. CASE RunSendInLoop
  <2>1. Head(batch) \in Functors /\ Head(batch).op = "sendInLoop"
    BY <1>4, RunNextMeans DEF RunSendInLoop
  <2> DEFINE data == Contents(Head(batch).data)
  <2>2. data \in Seq(AllBytes)
    BY <2>1, ContentsAreBytes, FunctorFields
  <2>3. SendInLoop(data) /\ ups > 0 /\ RunNext("sendInLoop") /\ UNCHANGED <<downs, destroyed>>
        /\ UNCHANGED state
    BY <1>1, <1>4, RunNextMeans DEF RunSendInLoop, life, IInv, Shapes
  <2> HIDE DEF data
  <2>4. Posts
    BY <2>2, <2>3, SendInLoopKeeps DEF IInv
  <2> QED
    BY <1>1, <2>3, <2>4
<1>5. CASE RunSendFileInLoop
  <2>1. Head(batch) \in Functors /\ Head(batch).op = "sendFileInLoop"
    BY <1>5, RunNextMeans DEF RunSendFileInLoop
  <2>2. Head(batch).file \in Files /\ Head(batch).offset \in Nat /\ Head(batch).count \in Nat
    BY <2>1, FunctorFields
  <2>3. Posts
    BY <1>5, <2>2, SendFileInLoopKeeps DEF RunSendFileInLoop, IInv, conn
  <2> QED
    BY <1>1, <1>5, <2>3 DEF RunSendFileInLoop, life
<1>6. CASE RunShutdownInLoop
  BY <1>1, <1>6, PostedNone DEF RunShutdownInLoop, IInv, history, life
<1>7. CASE RunUserCallback
  BY <1>1, <1>7, PostedNone DEF RunUserCallback, IInv, history, life
<1> QED
  BY <1>2, <1>3, <1>4, <1>5, <1>6, <1>7

\* User code on the loop thread.
LEMMA LoopUserKeepsDue ==
  ASSUME IInv, DestructionIsDue, LoopUser
  PROVE  DestructionIsDue'
<1>1. ASSUME NEW m \in Messages, LoopSend(m)
      PROVE  DestructionIsDue'
  <2> DEFINE data == Bytes(m, 1, Size[m])
  <2>1. data \in Seq(AllBytes)
    BY MessagesAreBytes
  <2>2. /\ ups > 0 /\ SendInLoop(data)
        /\ UNCHANGED <<state, batch, inMap, closing, downs, destroyed>>
    BY <1>1 DEF LoopSend, InUserCode, loop, server, life
  <2> HIDE DEF data
  <2>3. Posts
    BY <2>1, <2>2, SendInLoopKeeps DEF IInv
  <2> QED
    BY <2>2, <2>3, DueStays DEF IInv
<1>2. ASSUME NEW f \in Files, LoopSendFile(f)
      PROVE  DestructionIsDue'
  <2>1. 0 \in Nat /\ Count[f] \in Nat
    BY TcpConnectionAssumption
  <2>2. Posts
    BY <1>2, <2>1, SendFileInLoopKeeps DEF LoopSendFile, IInv, conn
  <2>3. UNCHANGED <<batch, inMap, closing, downs, destroyed>>
    BY <1>2 DEF LoopSendFile, loop, server, life
  <2> QED
    BY <2>2, <2>3, DueStays DEF IInv
<1>3. CASE LoopShutdown
  <2>1. UNCHANGED <<pending, batch, inMap, closing, downs, destroyed>>
    BY <1>3 DEF LoopShutdown, loop, server, history, life
  <2> QED
    BY <2>1, PostedNone, DueStays DEF IInv
<1> QED
  BY <1>1, <1>2, <1>3 DEF LoopUser

\* Until connectDestroyed() has run it is queued or owed: no order of close, reset, shutdown()
\* on any thread, removal and ~TcpServer makes the owner forget a connection (handleClose,
\* removeConnectionInLoop, ~TcpServer).
THEOREM DestructionNeverForgotten == Spec => []DestructionIsDue
<1>1. Init => DestructionIsDue
  BY DEF Init, DestructionIsDue
<1>2. IInv /\ DestructionIsDue /\ [Next]_vars => DestructionIsDue'
  <2>1. ASSUME IInv, DestructionIsDue, Next
        PROVE  DestructionIsDue'
    BY <2>1, UserKeepsDue, EnvironmentKeepsDue, HandlersKeepDue, FunctorsKeepDue,
       LoopUserKeepsDue DEF Next, LoopStep
  <2>2. ASSUME DestructionIsDue, UNCHANGED vars
        PROVE  DestructionIsDue'
    BY <2>2 DEF DestructionIsDue, HasDes, vars, loop, world, server, history, life
  <2> QED
    BY <2>1, <2>2
<1> QED
  BY <1>1, <1>2, InitInvariant, NextInvariant, PTL DEF Spec
==============================================================================
