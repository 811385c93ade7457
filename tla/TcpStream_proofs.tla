--------------------------- MODULE TcpStream_proofs ---------------------------
(***************************************************************************)
(* What TLAPS proves of the bytes a TcpConnection sends and of the calls   *)
(* that surround them, on top of the invariants of TcpConnection_proofs:   *)
(* the refinement of ByteStream, the order and the length of the files,    *)
(* the number of times the user is told, and the pointers that functors    *)
(* are bound to.                                                           *)
(***************************************************************************)
EXTENDS TcpConnection_proofs, FiniteSetTheorems

-----------------------------------------------------------------------------
\* What the handlers do, byte by byte and functor by functor.

\* The functors that only tell the user something.
Notices == [op : {"writeComplete", "highWaterMark"}]

LEMMA NoticesAreFunctors ==
  /\ Notices \subseteq Functors
  /\ [op |-> "writeComplete"] \in Notices /\ [op |-> "highWaterMark"] \in Notices
BY DEF Notices, Functors

\* sendInLoop(): some of the data goes to the kernel, which takes a byte only when nothing
\* waits in front and the socket is whole; the rest is buffered.
LEMMA SendInLoopMeans ==
  ASSUME Shapes, NEW data \in Seq(AllBytes), SendInLoop(data)
  PROVE  \/ UNCHANGED <<channel, outputBuffer, pending, space, wire, accepted>>
         \/ \E n \in 0..Len(data), told \in Seq(Notices) :
              /\ state # "kDisconnected" /\ ~(Direct /\ Broken)
              /\ n > 0 => Direct /\ ~Broken
              /\ wire' = wire \o SubSeq(data, 1, n)
              /\ outputBuffer' = outputBuffer \o From(data, n + 1)
              /\ accepted' = accepted \o data
              /\ pending' = pending \o told
              /\ WatchOutput(From(data, n + 1))
<1>1. CASE state = "kDisconnected" \/ (Direct /\ Broken)
  BY <1>1 DEF SendInLoop
<1>2. CASE ~(state = "kDisconnected" \/ (Direct /\ Broken))
  <2> DEFINE n == Taken(Len(data))
             rest == From(data, n + 1)
             done == IF rest = << >> THEN << [op |-> "writeComplete"] >> ELSE << >>
             high == IF rest # << >> /\ Crosses(Len(outputBuffer), Len(outputBuffer) + Len(rest))
                     THEN << [op |-> "highWaterMark"] >> ELSE << >>
  <2>1. /\ wire' = wire \o SubSeq(data, 1, n)
        /\ outputBuffer' = outputBuffer \o rest /\ accepted' = accepted \o data
        /\ pending' = pending \o done \o high
        /\ WatchOutput(rest)
    BY <1>2 DEF SendInLoop
  <2>2. n \in 0..Len(data) /\ (n > 0 => Direct /\ ~Broken)
    <3>1. Len(data) \in Nat
      BY LenProperties
    <3> QED
      BY <3>1, TakenBounds
  <2>3. done \in Seq(Notices) /\ high \in Seq(Notices)
    BY NoticesAreFunctors
  <2>4. pending \in Seq(Functors) /\ done \in Seq(Functors) /\ high \in Seq(Functors)
    BY FunctorsAre DEF Shapes
  <2> HIDE DEF n, rest, done, high
  <2>5. done \o high \in Seq(Notices)
    BY <2>3, ConcatProperties
  <2>6. (pending \o done) \o high = pending \o (done \o high)
    BY <2>4, ConcatAssociative
  <2>7. pending' = pending \o (done \o high)
    BY <2>1, <2>6
  <2> QED
    BY <1>2, <2>1, <2>2, <2>5, <2>7 DEF rest
<1> QED
  BY <1>1, <1>2

\* One round of sendFileInLoop(): the next n bytes of the file go to the kernel, and either
\* the user is told or the rest is queued behind them.
FileRound(f, offset, count, n, g) ==
  /\ state # "kDisconnected" /\ ~(Direct /\ Broken)
  /\ n > 0 => Direct /\ ~Broken /\ offset + n <= FileSize[f]
  /\ wire' = wire \o Bytes(f, offset + 1, offset + n)
  /\ accepted' = accepted \o Bytes(f, offset + 1, offset + n)
  /\ pending' = Append(pending, g)
  /\ \/ g \in Notices
     \/ g = [op |-> "sendFileInLoop", file |-> f, offset |-> offset + n, count |-> count]

LEMMA SendFileInLoopMeans ==
  ASSUME Shapes, NEW f \in Files, NEW offset \in Nat, NEW count \in Nat,
         SendFileInLoop(f, offset, count)
  PROVE  \/ UNCHANGED <<pending, wire, accepted>>
         \/ \E n \in Nat, g \in Functors : FileRound(f, offset, count, n, g)
<1>1. CASE state = "kDisconnected" \/ (Direct /\ Broken)
  BY <1>1 DEF SendFileInLoop
<1>2. CASE ~(state = "kDisconnected" \/ (Direct /\ Broken))
  <2> DEFINE avail == IF offset < FileSize[f] THEN FileSize[f] - offset ELSE 0
             n == Lesser(Taken(count), avail)
             g == IF n = count THEN [op |-> "writeComplete"] ELSE NextRound(f, offset, n, count)
  <2>1. /\ wire' = wire \o Bytes(f, offset + 1, offset + n)
        /\ accepted' = accepted \o Bytes(f, offset + 1, offset + n)
        /\ pending' = Append(pending, g)
    BY <1>2 DEF SendFileInLoop
  <2>2. FileSize[f] \in Nat
    BY TcpConnectionAssumption
  <2>3. avail \in Nat /\ (avail > 0 => offset + avail <= FileSize[f])
    BY <2>2
  <2>4. n \in Nat /\ (n > 0 => Direct /\ ~Broken /\ offset + n <= FileSize[f])
    <3>1. Taken(count) \in Nat /\ (Taken(count) > 0 => Direct /\ ~Broken)
      BY TakenBounds
    <3> HIDE DEF avail
    <3>2. n \in Nat /\ n <= avail /\ n <= Taken(count)
      BY <2>3, <3>1 DEF Lesser
    <3> HIDE DEF n
    <3>3. n > 0 => offset + n <= FileSize[f]
      BY <2>2, <2>3, <3>2
    <3> QED
      BY <3>1, <3>2, <3>3
  <2> HIDE DEF avail, n
  <2>5. /\ g \in Functors
        /\ \/ g \in Notices
           \/ g = [op |-> "sendFileInLoop", file |-> f, offset |-> offset + n, count |-> count]
    BY <2>4, FunctorsAre, NoticesAreFunctors DEF NextRound
  <2> HIDE DEF g
  <2> QED
    BY <1>2, <2>1, <2>4, <2>5 DEF FileRound
<1> QED
  BY <1>1, <1>2
\* The next n bytes of a file.
LEMMA NextBytes ==
  ASSUME NEW f \in Files, NEW offset \in Nat, NEW n \in Nat
  PROVE  LET sent == Bytes(f, offset + 1, offset + n) IN
           /\ sent \in Seq(AllBytes) /\ Len(sent) = n
           /\ n = 0 => sent = << >>
           /\ \A k \in 1..n : sent[k] = <<f, offset + k>>
<1> DEFINE from == offset + 1
           to == offset + n
           sent == Bytes(f, from, to)
<1>1. from \in Nat \ {0} /\ to \in Nat /\ from <= to + 1 /\ to - from + 1 = n
  OBVIOUS
<1>2. sent \in Seq(AllBytes) /\ Len(sent) = to - from + 1
  <2> HIDE DEF from, to
  <2>1. f \in Messages \cup Files \cup {"garbage"}
    OBVIOUS
  <2> QED
    BY <1>1, <2>1, BytesOf
<1>3. \A k \in 1..n : sent[k] = <<f, offset + k>>
  <2>1. sent = [i \in 1..n |-> <<f, from + i - 1>>]
    BY <1>1 DEF Bytes
  <2>2. \A k \in 1..n : from + k - 1 = offset + k
    OBVIOUS
  <2> QED
    BY <2>1, <2>2
<1> HIDE DEF sent
<1>4. n = 0 => sent = << >>
  BY <1>1, <1>2, EmptySeq
<1> QED
  BY <1>1, <1>2, <1>3, <1>4 DEF sent

-----------------------------------------------------------------------------
\* How often the user is told, with shutdown() called on the connection's own loop only.

\* No shutdownInLoop waits in the queue.
NoShutdown(q) == \A i \in 1..Len(q) : q[i].op # "shutdownInLoop"

\* A connection that is down is out of the poller and nothing of it is left to handle but
\* what handleError and handleWrite make of it; one that is up is watched for input.
OnceDown ==
  /\ state = "kDisconnected" => events = {}
  /\ ups <= 1 /\ downs <= ups
  /\ downs > 0 => index # "kAdded" /\ revents \cap {"HUP", "IN"} = {}
  /\ (ups > 0 /\ downs = 0 /\ ~destroyed) => index = "kAdded" /\ "read" \in events
  /\ NoShutdown(batch) /\ NoShutdown(pending)

\* connectionCallback_ reports a connection up at most once and down at most once, and down
\* only after up, whether handleClose() or connectDestroyed() comes first.
ReportedOnce == ups <= 1 /\ downs <= ups

\* What was queued, and what is added, or taken away, in front of no shutdownInLoop.
LEMMA NoShutdownGrows ==
  ASSUME NEW s \in Seq(Functors), NEW t \in Seq(Functors), NoShutdown(s), NoShutdown(t)
  PROVE  NoShutdown(s \o t)
<1>1. /\ Len(s) \in Nat /\ Len(t) \in Nat /\ Len(s \o t) = Len(s) + Len(t)
      /\ \A i \in 1..Len(s) + Len(t) : (s \o t)[i] = IF i <= Len(s) THEN s[i] ELSE t[i - Len(s)]
  BY ConcatProperties, LenProperties
<1>2. SUFFICES ASSUME NEW i \in 1..Len(s \o t)
               PROVE  (s \o t)[i].op # "shutdownInLoop"
  BY DEF NoShutdown
<1>3. CASE i <= Len(s)
  BY <1>1, <1>3 DEF NoShutdown
<1>4. CASE ~(i <= Len(s))
  <2>1. i - Len(s) \in 1..Len(t) /\ (s \o t)[i] = t[i - Len(s)]
    BY <1>1, <1>4
  <2> QED
    BY <2>1 DEF NoShutdown
<1> QED
  BY <1>3, <1>4

LEMMA NoShutdownShrinks ==
  ASSUME NEW q \in Seq(Functors), q # << >>, NoShutdown(q)
  PROVE  NoShutdown(Tail(q)) /\ Head(q).op # "shutdownInLoop"
<1>1. /\ Len(Tail(q)) = Len(q) - 1 /\ Len(q) \in Nat \ {0} /\ Head(q) = q[1]
      /\ \A i \in 1..Len(Tail(q)) : Tail(q)[i] = q[i + 1]
  BY HeadTailProperties, EmptySeq
<1> QED
  BY <1>1 DEF NoShutdown

LEMMA NoShutdownPosted ==
  ASSUME Shapes, NoShutdown(pending)
  PROVE  /\ \A t \in Seq(Notices) : pending' = pending \o t => NoShutdown(pending')
         /\ \A g \in Functors : pending' = Append(pending, g) /\ g.op # "shutdownInLoop"
                                  => NoShutdown(pending')
<1>1. pending \in Seq(Functors)
  BY DEF Shapes
<1>2. ASSUME NEW t \in Seq(Notices), pending' = pending \o t
      PROVE  NoShutdown(pending')
  <2>1. \A i \in 1..Len(t) : t[i] \in Notices
    BY LenProperties
  <2>2. t \in Seq(Functors)
    BY NoticesAreFunctors
  <2>3. NoShutdown(t)
    BY <2>1 DEF NoShutdown, Notices
  <2> QED
    BY <1>1, <1>2, <2>2, <2>3, NoShutdownGrows
<1>3. ASSUME NEW g \in Functors, pending' = Append(pending, g), g.op # "shutdownInLoop"
      PROVE  NoShutdown(pending')
  <2>1. pending' = pending \o <<g>> /\ <<g>> \in Seq(Functors)
    BY <1>1, <1>3, AppendIsConcat
  <2>2. NoShutdown(<<g>>)
    BY <1>3 DEF NoShutdown
  <2> QED
    BY <1>1, <2>1, <2>2, NoShutdownGrows
<1> QED
  BY <1>2, <1>3
\* A step that does not touch the channel or the counters.
LEMMA OnceQuiet ==
  ASSUME OnceDown, UNCHANGED <<ups, downs, destroyed, events, index>>,
         state' = state \/ state' # "kDisconnected", revents' \subseteq revents,
         NoShutdown(batch'), NoShutdown(pending')
  PROVE  OnceDown'
BY DEF OnceDown

\* Users off the loop, of which none calls shutdown(), and what surrounds the connection.
LEMMA OthersOnce ==
  ASSUME Closers = {}, IInv, OnLoop, OnceDown,
         Environment \/ \E u \in Users : UserNext(u)
  PROVE  OnceDown'
<1> DEFINE Same == UNCHANGED <<ups, downs, destroyed, events, index, state, batch, revents>>
<1>1. ASSUME Same, pending' = pending
      PROVE  OnceDown'
  BY <1>1, OnceQuiet DEF OnceDown
<1>2. ASSUME Same, NEW g \in Functors, pending' = Append(pending, g), g.op # "shutdownInLoop"
      PROVE  OnceDown'
  <2>1. NoShutdown(pending')
    BY <1>2, NoShutdownPosted DEF OnceDown, IInv
  <2> QED
    BY <1>2, <2>1, OnceQuiet DEF OnceDown
<1> HIDE DEF Same
<1>3. ASSUME NEW u \in Users, UserNext(u)
      PROVE  OnceDown'
  <2>1. pc[u] \notin {"shutdown", "disconnecting"}
    BY DEF OnLoop, NobodyOff
  <2>2. ASSUME NEW x \in Messages \cup Files, SendCheck(u, x)
        PROVE  OnceDown'
    BY <1>1, <2>2
       DEF Same, SendCheck, conn, channel, loop, history, life
  <2>3. CASE SendPost(u)
    <3>1. Same
      BY <2>3 DEF Same, SendPost, conn, channel, loop, history, life
    <3> QED
      BY <1>2, <2>3, <3>1, FunctorsAre DEF SendPost
  <2>4. CASE SendFilePost(u)
    <3>1. Same
      BY <2>4 DEF Same, SendFilePost, conn, channel, loop, history, life
    <3>2. Count[pc[u]] \in Nat
      BY <2>4, TcpConnectionAssumption DEF SendFilePost
    <3> QED
      BY <1>2, <2>4, <3>1, <3>2, FunctorsAre DEF SendFilePost
  <2>5. CASE Release(u)
    BY <1>1, <2>5 DEF Same, Release, conn, channel, loop, history, life
  <2>6. ~ShutdownCheck(u)
    BY DEF ShutdownCheck
  <2> QED
    BY <1>3, <2>1, <2>2, <2>3, <2>4, <2>5, <2>6
       DEF UserNext, UserFinishes, ShutdownSet, ShutdownPost
<1>4. CASE Environment
  <2>1. Same
    BY <1>4 DEF Same, Environment, FreeString, ServerRemoves, ServerDestroyed, Ack, PeerSends,
                PeerCloses, PeerResets, conn, channel, loop, history, life
  <2>2. pending' = pending \/ QueueDestroyed
    BY <1>4 DEF Environment, FreeString, ServerRemoves, ServerDestroyed, Ack, PeerSends,
                PeerCloses, PeerResets
  <2>3. QueueDestroyed => OnceDown'
    BY <1>2, <2>1, FunctorsAre DEF QueueDestroyed
  <2> QED
    BY <1>1, <2>1, <2>2, <2>3
<1> QED
  BY <1>3, <1>4

\* The poll and the handlers: handleClose() runs for a connection that is up.
LEMMA HandlersOnce ==
  ASSUME IInv, OnLoop, OnceDown, Poll \/ EventHup \/ EventError \/ EventRead
  PROVE  OnceDown'
<1>1. CASE Poll
  <2>1. UNCHANGED <<ups, downs, destroyed, events, index, state, batch, pending>>
    BY <1>1 DEF Poll, conn, channel, history, life
  <2>2. revents' = Reported
    BY <1>1 DEF Poll
  <2>3. index # "kAdded" => Reported = {}
    BY DEF Reported
  <2> QED
    BY <2>1, <2>2, <2>3 DEF OnceDown
<1>2. ASSUME NEW bit, NEW earlier, Dispatch(bit, earlier)
      PROVE  /\ ups > 0 /\ ~destroyed /\ bit \in revents /\ revents' = revents \ {bit}
             /\ UNCHANGED batch
  BY <1>2, DispatchMeans DEF Dispatch, OnLoop
<1>3. ASSUME HandleClose, UNCHANGED <<ups, destroyed, batch, pending>>, ups > 0, ~destroyed,
             revents \cap {"HUP", "IN"} # {}, revents' \cap {"HUP", "IN"} = {}
      PROVE  OnceDown'
  <2>1. ups \in Nat /\ downs \in Nat
    BY DEF IInv, Shapes
  <2>2. downs = 0
    BY <1>3, <2>1 DEF OnceDown
  <2>3. index = "kAdded"
    BY <1>3, <2>2 DEF OnceDown
  <2>4. downs' = 1 /\ events' = {} /\ index' = "kDeleted" /\ state' = "kDisconnected"
    BY <1>3, <2>2, <2>3 DEF HandleClose, Update
  <2> QED
    BY <1>3, <2>1, <2>4 DEF OnceDown
<1>4. CASE EventHup
  <2>1. /\ ups > 0 /\ ~destroyed /\ "HUP" \in revents /\ revents' = revents \ {"HUP"}
        /\ UNCHANGED batch
    BY <1>2, <1>4 DEF EventHup
  <2>2. UNCHANGED <<ups, destroyed, pending>>
    BY <1>4 DEF EventHup
  <2>3. CASE "IN" \in revents
    <3>1. UNCHANGED <<state, channel, closing, downs>>
      BY <1>4, <2>3 DEF EventHup
    <3> QED
      BY <2>1, <2>2, <3>1, OnceQuiet DEF OnceDown, channel
  <2>4. CASE "IN" \notin revents
    <3>1. HandleClose
      BY <1>4, <2>4 DEF EventHup
    <3> QED
      BY <1>3, <2>1, <2>2, <2>4, <3>1
  <2> QED
    BY <2>3, <2>4
<1>5. CASE EventError
  <2>1. /\ revents' \subseteq revents /\ UNCHANGED batch
    BY <1>2, <1>5 DEF EventError
  <2>2. UNCHANGED <<ups, downs, destroyed, pending, state, events, index>>
    BY <1>5 DEF EventError, conn, channel, history, life
  <2> QED
    BY <2>1, <2>2, OnceQuiet DEF OnceDown
<1>6. CASE EventRead
  <2>1. /\ ups > 0 /\ ~destroyed /\ "IN" \in revents /\ revents' = revents \ {"IN"}
        /\ UNCHANGED batch /\ "HUP" \notin revents
    BY <1>2, <1>6 DEF EventRead, Dispatch
  <2>2. UNCHANGED <<ups, destroyed, pending>>
    BY <1>6 DEF EventRead
  <2>3. CASE UNCHANGED <<state, channel, closing, downs>>
    BY <2>1, <2>2, <2>3, OnceQuiet DEF OnceDown, channel
  <2>4. CASE HandleClose
    BY <1>3, <2>1, <2>2, <2>4
  <2> QED
    BY <1>6, <2>3, <2>4 DEF EventRead
<1> QED
  BY <1>1, <1>4, <1>5, <1>6
LEMMA EventWriteOnce ==
  ASSUME IInv, OnLoop, OnceDown, EventWrite
  PROVE  OnceDown'
<1>1. /\ ups > 0 /\ ~destroyed /\ revents' \subseteq revents
      /\ UNCHANGED <<state, batch, ups, downs, destroyed>>
  BY DispatchMeans DEF EventWrite, Dispatch, OnLoop, history, life
<1>2. CASE UNCHANGED <<channel, outputBuffer, pending, kernel>>
  BY <1>1, <1>2, OnceQuiet DEF OnceDown, channel
<1>3. CASE /\ "write" \in events
           /\ DrainOutput(Lesser(space, Len(outputBuffer)))
  <2>1. state # "kDisconnected"
    BY <1>3 DEF OnceDown
  <2>2. downs = 0
    BY <2>1 DEF OnLoop, IInv, Shapes
  <2>3. index = "kAdded" /\ "read" \in events
    BY <1>1, <2>2 DEF OnceDown
  <2>4. /\ \/ Update(events \ {"write"}) /\ pending' = Append(pending, [op |-> "writeComplete"])
           \/ UNCHANGED <<channel, pending>>
    BY <1>3 DEF DrainOutput
  <2>5. index' = "kAdded" /\ "read" \in events'
    BY <2>3, <2>4 DEF Update, channel
  <2>6. NoShutdown(pending')
    BY <2>4, FunctorsAre, NoShutdownPosted DEF OnceDown, IInv
  <2> QED
    BY <1>1, <2>1, <2>2, <2>5, <2>6 DEF OnceDown
<1> QED
  BY <1>2, <1>3 DEF EventWrite

LEMMA BatchOnce ==
  ASSUME IInv, OnceDown, SwapFunctors \/ EndBatch
  PROVE  OnceDown'
<1>1. UNCHANGED <<ups, downs, state, destroyed, events, index, revents>>
  BY DEF SwapFunctors, EndBatch, conn, channel, history, life
<1>2. NoShutdown(<< >>)
  BY DEF NoShutdown
<1>3. NoShutdown(batch') /\ NoShutdown(pending')
  BY <1>2 DEF SwapFunctors, EndBatch, OnceDown
<1> QED
  BY <1>1, <1>3, OnceQuiet

\* What a functor leaves of the batch.
LEMMA RunOnce ==
  ASSUME IInv, OnceDown, NEW op, RunNext(op)
  PROVE  NoShutdown(batch') /\ op # "shutdownInLoop"
BY NoShutdownShrinks DEF RunNext, IInv, Shapes, OnceDown

\* connectEstablished() and connectDestroyed(): up at first, and down if it is not yet.
LEMMA RunUpDownOnce ==
  ASSUME IInv, OnLoop, OnceDown, RunConnectEstablished \/ RunConnectDestroyed
  PROVE  OnceDown'
<1>1. CASE RunConnectEstablished
  <2>1. ups = 0 /\ UNCHANGED revents /\ NoShutdown(batch')
    BY <1>1, RunNextMeans, RunOnce DEF RunConnectEstablished
  <2>2. downs = 0 /\ index = "kNew"
    BY <2>1 DEF IInv, UpFirst
  <2>3. ups' = 1 /\ downs' = 0 /\ state' = "kConnected" /\ UNCHANGED pending
    BY <1>1, <2>1, <2>2 DEF RunConnectEstablished
  <2>4. index' = "kAdded" /\ "read" \in events'
    BY <1>1, <2>2 DEF RunConnectEstablished, Update
  <2> QED
    BY <2>1, <2>3, <2>4 DEF OnceDown
<1>2. CASE RunConnectDestroyed
  <2>1. ups # 0 /\ loopPc = "run" /\ UNCHANGED revents /\ NoShutdown(batch')
    BY <1>2, RunNextMeans, RunOnce DEF RunConnectDestroyed
  <2>2. /\ destroyed' = TRUE /\ TellDown /\ index' = "kNew" /\ UNCHANGED <<ups, pending>>
        /\ ups \in Nat /\ downs \in Nat /\ revents = {}
    BY <1>2, <2>1 DEF RunConnectDestroyed, Remove, IInv, Shapes, UpFirst
  <2>3. CASE state = "kConnected"
    <3>1. downs = 0
      BY <2>2, <2>3 DEF OnLoop
    <3>2. state' = "kDisconnected" /\ events' = {} /\ downs' = 1
      BY <2>2, <2>3, <3>1 DEF TellDown
    <3> QED
      BY <2>1, <2>2, <3>2 DEF OnceDown
  <2>4. CASE state # "kConnected"
    <3>1. UNCHANGED <<state, events, downs>>
      BY <2>2, <2>4 DEF TellDown
    <3> QED
      BY <2>1, <2>2, <3>1 DEF OnceDown
  <2> QED
    BY <2>3, <2>4
<1> QED
  BY <1>1, <1>2

\* sendInLoop() asks for EPOLLOUT only while the connection is up, or being shut down.
LEMMA SendOnce ==
  ASSUME IInv, OnLoop, OnceDown, ups > 0, NEW data \in Seq(AllBytes), SendInLoop(data),
         NoShutdown(batch'), UNCHANGED <<state, revents, life>>
  PROVE  OnceDown'
<1>1. CASE UNCHANGED <<channel, outputBuffer, pending, space, wire, accepted>>
  BY <1>1, OnceQuiet DEF OnceDown, channel, life
<1>2. ASSUME NEW n \in 0..Len(data), NEW told \in Seq(Notices),
             state # "kDisconnected", pending' = pending \o told, WatchOutput(From(data, n + 1))
      PROVE  OnceDown'
  <2>1. NoShutdown(pending')
    BY <1>2, NoShutdownPosted DEF OnceDown, IInv
  <2>2. downs = 0
    BY <1>2 DEF OnLoop, IInv, Shapes
  <2>3. /\ index = "kAdded" => index' = "kAdded"
        /\ "read" \in events => "read" \in events'
    BY <1>2 DEF WatchOutput, Update, channel
  <2> QED
    BY <1>2, <2>1, <2>2, <2>3 DEF OnceDown, life
<1> QED
  BY <1>1, <1>2, SendInLoopMeans DEF IInv

\* sendFileInLoop() queues itself or a notice.
LEMMA SendFileOnce ==
  ASSUME IInv, OnceDown, NEW f \in Files, NEW offset \in Nat, NEW count \in Nat,
         SendFileInLoop(f, offset, count), NoShutdown(batch'), UNCHANGED <<conn, revents, life>>
  PROVE  OnceDown'
<1>1. NoShutdown(pending')
  <2>1. CASE pending' = pending
    BY <2>1 DEF OnceDown
  <2>2. ASSUME NEW n \in Nat, NEW g \in Functors, FileRound(f, offset, count, n, g)
        PROVE  NoShutdown(pending')
    <3>1. pending' = Append(pending, g) /\ g.op # "shutdownInLoop"
      BY <2>2 DEF FileRound, Notices
    <3> QED
      BY <3>1, NoShutdownPosted DEF OnceDown, IInv
  <2>3. Shapes
    BY DEF IInv
  <2> QED
    BY <2>1, <2>2, <2>3, SendFileInLoopMeans
<1> QED
  BY <1>1, OnceQuiet DEF OnceDown, conn, channel, life
\* The functors that send, and the user's callbacks.
LEMMA FunctorsOnce ==
  ASSUME IInv, OnLoop, OnceDown,
         RunSendInLoop \/ RunSendFileInLoop \/ RunShutdownInLoop \/ RunUserCallback
  PROVE  OnceDown'
<1>1. ASSUME NEW op, RunNext(op), op \notin {"connectEstablished", "connectDestroyed"}
      PROVE  /\ ups > 0 /\ UNCHANGED revents /\ NoShutdown(batch') /\ op # "shutdownInLoop"
             /\ Head(batch) \in Functors /\ Head(batch).op = op
  <2>1. ups # 0 /\ UNCHANGED revents /\ Head(batch) \in Functors /\ Head(batch).op = op
    BY <1>1, RunNextMeans
  <2> QED
    BY <1>1, <2>1, RunOnce DEF IInv, Shapes
<1>2. CASE RunSendInLoop
  <2>1. /\ ups > 0 /\ UNCHANGED revents /\ NoShutdown(batch')
        /\ Head(batch) \in Functors /\ Head(batch).op = "sendInLoop"
    BY <1>1, <1>2 DEF RunSendInLoop
  <2> DEFINE data == Contents(Head(batch).data)
  <2>2. data \in Seq(AllBytes)
    BY <2>1, ContentsAreBytes, FunctorFields
  <2>3. SendInLoop(data) /\ UNCHANGED <<state, life>>
    BY <1>2 DEF RunSendInLoop
  <2> HIDE DEF data
  <2> QED
    BY <2>1, <2>2, <2>3, SendOnce
<1>3. CASE RunSendFileInLoop
  <2>1. /\ UNCHANGED revents /\ NoShutdown(batch')
        /\ Head(batch) \in Functors /\ Head(batch).op = "sendFileInLoop"
    BY <1>1, <1>3 DEF RunSendFileInLoop
  <2>2. /\ SendFileInLoop(Head(batch).file, Head(batch).offset, Head(batch).count)
        /\ UNCHANGED <<conn, life>>
    BY <1>3 DEF RunSendFileInLoop
  <2>3. Head(batch).file \in Files /\ Head(batch).offset \in Nat /\ Head(batch).count \in Nat
    BY <2>1, FunctorFields
  <2> QED
    BY <2>1, <2>2, <2>3, SendFileOnce
<1>4. CASE RunShutdownInLoop
  BY <1>1, <1>4 DEF RunShutdownInLoop
<1>5. CASE RunUserCallback
  <2>1. UNCHANGED revents /\ NoShutdown(batch')
    BY <1>1, <1>5 DEF RunUserCallback
  <2>2. UNCHANGED <<conn, pending, life>>
    BY <1>5 DEF RunUserCallback, history
  <2> QED
    BY <2>1, <2>2, OnceQuiet DEF OnceDown, conn, channel, life
<1> QED
  BY <1>2, <1>3, <1>4, <1>5

\* User code on the loop thread.
LEMMA LoopUserOnce ==
  ASSUME IInv, OnLoop, OnceDown, LoopUser
  PROVE  OnceDown'
<1>1. ASSUME NEW m \in Messages, LoopSend(m)
      PROVE  OnceDown'
  <2> DEFINE data == Bytes(m, 1, Size[m])
  <2>1. data \in Seq(AllBytes)
    BY MessagesAreBytes
  <2>2. ups > 0 /\ SendInLoop(data) /\ UNCHANGED <<state, batch, revents, life>>
    BY <1>1 DEF LoopSend, InUserCode, loop
  <2> HIDE DEF data
  <2> QED
    BY <2>1, <2>2, SendOnce DEF OnceDown
<1>2. ASSUME NEW f \in Files, LoopSendFile(f)
      PROVE  OnceDown'
  <2>1. 0 \in Nat /\ Count[f] \in Nat
    BY TcpConnectionAssumption
  <2>2. SendFileInLoop(f, 0, Count[f]) /\ UNCHANGED <<conn, batch, revents, life>>
    BY <1>2 DEF LoopSendFile, loop
  <2> QED
    BY <2>1, <2>2, SendFileOnce DEF OnceDown
<1>3. CASE LoopShutdown
  BY <1>3, OnceQuiet DEF LoopShutdown, OnceDown, channel, loop, history, life
<1> QED
  BY <1>1, <1>2, <1>3 DEF LoopUser

LEMMA InitOnce == Init => OnceDown
BY DEF Init, OnceDown, NoShutdown

LEMMA NextOnce ==
  ASSUME Closers = {}
  PROVE  IInv /\ OnLoop /\ OnceDown /\ [Next]_vars => OnceDown'
<1>1. ASSUME IInv, OnLoop, OnceDown, Next
      PROVE  OnceDown'
  <2>1. LoopStep => OnceDown'
    BY <1>1, HandlersOnce, EventWriteOnce, BatchOnce, RunUpDownOnce, FunctorsOnce DEF LoopStep
  <2> QED
    BY <1>1, <2>1, LoopUserOnce, OthersOnce DEF Next
<1>2. ASSUME OnceDown, UNCHANGED vars
      PROVE  OnceDown'
  BY <1>2 DEF OnceDown, NoShutdown, vars, conn, channel, loop, history, life
<1> QED
  BY <1>1, <1>2

\* However the ends of a connection race (the peer's close, its reset, the server's
\* destructor), the user is told once that it is up and at most once, afterwards, that it
\* is down.
THEOREM ToldOnce ==
  ASSUME Closers = {}
  PROVE  Spec => []ReportedOnce
<1>1. OnceDown => ReportedOnce
  BY DEF OnceDown, ReportedOnce
<1> QED
  BY <1>1, InitInvariant, InitOnLoop, InitOnce, NextInvariant, NextOnLoop, NextOnce, PTL DEF Spec
-----------------------------------------------------------------------------
\* The refinement of ByteStream, with shutdown() called on the connection's own loop only.

\* A sequence is a prefix of what it grows to.
LEMMA PrefixOfLonger ==
  ASSUME NEW S, NEW s \in Seq(S), NEW t \in Seq(S)
  PROVE  Stream!IsPrefix(s, s \o t)
<1>1. Len(s) \in Nat /\ Len(t) \in Nat /\ Len(s \o t) = Len(s) + Len(t)
  BY ConcatProperties, LenProperties
<1>2. SubSeq(s, 1, Len(s)) = SubSeq(s \o t, 1, Len(s))
  <2>1. CASE s = << >>
    <3>1. Len(s) = 0
      BY <2>1, EmptySeq
    <3>2. SubSeq(s, 1, 0) = << >> /\ SubSeq(s \o t, 1, 0) = << >>
      BY SubSeqEmpty
    <3> QED
      BY <3>1, <3>2
  <2>2. CASE s # << >>
    <3>1. 1 \in 1..Len(s) /\ Len(s) \in 1..Len(s)
      BY <1>1, <2>2, EmptySeq
    <3> QED
      BY <3>1, SubSeqOfConcat1
  <2> QED
    BY <2>1, <2>2
<1> QED
  BY <1>1, <1>2 DEF Stream!IsPrefix

LEMMA PrefixOfItself ==
  ASSUME NEW S, NEW s \in Seq(S)
  PROVE  Stream!IsPrefix(s, s)
<1>1. << >> \in Seq(S) /\ s \o << >> = s
  BY ConcatEmptySeq, EmptySeq
<1> QED
  BY <1>1, PrefixOfLonger

\* What the kernel took is a prefix of what was accepted.
LEMMA WireIsPrefix ==
  ASSUME Shapes, OutputInOrder
  PROVE  Stream!IsPrefix(wire, accepted)
BY PrefixOfLonger DEF Shapes, OutputInOrder

\* The stream is over.
Over == downs > 0 \/ destroyed

\* A step of the stream, or none.
StreamStep == Stream!Next \/ UNCHANGED Stream!svars

\* A step at which no byte moves; it may be the one that ends the stream.
LEMMA StreamQuiet ==
  ASSUME UNCHANGED <<accepted, wire, shutWr>>, Over => Over'
  PROVE  StreamStep
<1>1. CASE Over'
  BY <1>1 DEF StreamStep, Stream!Next, Stream!End, Over
<1>2. CASE ~Over'
  <2>1. (downs > 0 \/ destroyed)' = (downs > 0 \/ destroyed)
    BY <1>2 DEF Over
  <2> QED
    BY <2>1 DEF StreamStep, Stream!svars
<1> QED
  BY <1>1, <1>2

\* A step at which bytes are accepted and delivered, before the end.
LEMMA StreamMoves ==
  ASSUME Shapes, Shapes', OutputInOrder', ~Over, ~shutWr, UNCHANGED <<shutWr, life>>,
         NEW a \in Seq(AllBytes), NEW d \in Seq(AllBytes),
         accepted' = accepted \o a, wire' = wire \o d
  PROVE  StreamStep
<1>1. Stream!IsPrefix(accepted, accepted') /\ Stream!IsPrefix(wire, wire')
  BY PrefixOfLonger DEF Shapes
<1>2. Stream!IsPrefix(wire', accepted')
  <2>1. /\ wire' \in Seq(AllBytes) /\ outputBuffer' \in Seq(AllBytes)
        /\ wire' \o outputBuffer' = accepted'
    BY DEF Shapes, OutputInOrder
  <2> QED
    BY <2>1, PrefixOfLonger
<1>3. (downs > 0 \/ destroyed)' = (downs > 0 \/ destroyed)
  BY DEF life
<1>4. Stream!Transfer
  BY <1>1, <1>2, <1>3 DEF Stream!Transfer, Over
<1> QED
  BY <1>4 DEF StreamStep, Stream!Next

\* A step at which bytes are accepted and go nowhere, after the end.
LEMMA StreamTooLate ==
  ASSUME Shapes, Over, UNCHANGED <<shutWr, wire, life>>,
         NEW a \in Seq(AllBytes), accepted' = accepted \o a
  PROVE  StreamStep
<1>1. Stream!IsPrefix(accepted, accepted')
  BY PrefixOfLonger DEF Shapes
<1>2. (downs > 0 \/ destroyed)' = (downs > 0 \/ destroyed)
  BY DEF life
<1>3. Stream!AcceptInVain
  BY <1>1, <1>2 DEF Stream!AcceptInVain, Over
<1> QED
  BY <1>3 DEF StreamStep, Stream!Next

\* The half-close, with the last bytes or behind them.
LEMMA StreamEnds ==
  ASSUME Shapes, OutputInOrder, ~Over, ~shutWr, shutWr' = TRUE, wire' = accepted,
         UNCHANGED <<accepted, life>>
  PROVE  StreamStep
<1>1. Stream!IsPrefix(wire, accepted)
  BY WireIsPrefix
<1>2. (downs > 0 \/ destroyed)' = (downs > 0 \/ destroyed)
  BY DEF life
<1>3. Stream!HalfClose
  BY <1>1, <1>2 DEF Stream!HalfClose, Over
<1> QED
  BY <1>3 DEF StreamStep, Stream!Next

\* When the kernel may be given a byte directly, the connection is not over and its write
\* side is open; a connection that is over takes bytes only into its buffer.
LEMMA MayTransmit ==
  ASSUME IInv, OnLoop, ups > 0, state # "kDisconnected", ~(Direct /\ Broken)
  PROVE  /\ ~Over => ~shutWr
         /\ Over => ~Direct
<1>1. downs = 0 /\ downs \in Nat
  BY DEF OnLoop, IInv, Shapes
<1>2. ASSUME ~Over, shutWr
      PROVE  FALSE
  <2>1. outputBuffer = << >>
    BY <1>1, <1>2 DEF IInv, HalfCloseAfterBuffer, Over
  <2>2. "write" \notin events
    BY <1>1, <1>2, <2>1 DEF IInv, WritingIffBuffered, Over
  <2> QED
    BY <1>2, <2>1, <2>2 DEF Direct, Broken
<1>3. ASSUME Over
      PROVE  ~Direct
  <2>1. destroyed
    BY <1>1, <1>3 DEF Over
  <2>2. state = "kDisconnecting"
    BY <2>1 DEF OnLoop, IInv, Shapes, States
  <2>3. "write" \in events \/ (shutWr /\ outputBuffer = << >>)
    BY <2>1, <2>2 DEF OnLoop
  <2> QED
    BY <2>3 DEF Direct, Broken
<1> QED
  BY <1>2, <1>3

\* sendInLoop(), whoever calls it.
LEMMA SendStream ==
  ASSUME IInv, IInv', OnLoop, ups > 0, NEW data \in Seq(AllBytes), SendInLoop(data),
         UNCHANGED <<state, shutWr, life>>
  PROVE  StreamStep
<1>1. Shapes /\ Shapes' /\ OutputInOrder'
  BY DEF IInv
<1>2. CASE UNCHANGED <<channel, outputBuffer, pending, space, wire, accepted>>
  <2>1. Over => Over'
    BY DEF Over, life
  <2> QED
    BY <1>2, <2>1, StreamQuiet
<1>3. ASSUME NEW n \in 0..Len(data), state # "kDisconnected", ~(Direct /\ Broken),
             n > 0 => Direct /\ ~Broken,
             wire' = wire \o SubSeq(data, 1, n), accepted' = accepted \o data
      PROVE  StreamStep
  <2> DEFINE sent == SubSeq(data, 1, n)
  <2>1. sent \in Seq(AllBytes) /\ (n = 0 => sent = << >>)
    BY Cut
  <2>2. wire' = wire \o sent
    BY <1>3
  <2> HIDE DEF sent
  <2>3. CASE ~Over
    BY <1>1, <1>3, <2>1, <2>2, <2>3, MayTransmit, StreamMoves
  <2>4. CASE Over
    <3>1. n = 0
      BY <1>3, <2>4, MayTransmit
    <3>2. wire' = wire
      BY <1>1, <2>1, <2>2, <3>1, ConcatEmptySeq DEF Shapes
    <3> QED
      BY <1>1, <1>3, <2>4, <3>2, StreamTooLate
  <2> QED
    BY <2>3, <2>4
<1> QED
  BY <1>1, <1>2, <1>3, SendInLoopMeans

\* sendFileInLoop(), likewise.
LEMMA SendFileStream ==
  ASSUME IInv, IInv', OnLoop, ups > 0,
         NEW f \in Files, NEW offset \in Nat, NEW count \in Nat,
         SendFileInLoop(f, offset, count), UNCHANGED <<state, shutWr, life>>
  PROVE  StreamStep
<1>1. Shapes /\ Shapes' /\ OutputInOrder'
  BY DEF IInv
<1>2. CASE UNCHANGED <<pending, wire, accepted>>
  <2>1. Over => Over'
    BY DEF Over, life
  <2> QED
    BY <1>2, <2>1, StreamQuiet
<1>3. ASSUME NEW n \in Nat, NEW g \in Functors, FileRound(f, offset, count, n, g)
      PROVE  StreamStep
  <2> DEFINE sent == Bytes(f, offset + 1, offset + n)
  <2>1. sent \in Seq(AllBytes) /\ (n = 0 => sent = << >>)
    BY NextBytes
  <2>2. /\ wire' = wire \o sent /\ accepted' = accepted \o sent
        /\ state # "kDisconnected" /\ ~(Direct /\ Broken) /\ (n > 0 => Direct /\ ~Broken)
    BY <1>3 DEF FileRound
  <2> HIDE DEF sent
  <2>3. CASE ~Over
    BY <1>1, <2>1, <2>2, <2>3, MayTransmit, StreamMoves
  <2>4. CASE Over
    <3>1. n = 0
      BY <2>2, <2>4, MayTransmit
    <3>2. wire' = wire
      BY <1>1, <2>1, <2>2, <3>1, ConcatEmptySeq DEF Shapes
    <3> QED
      BY <1>1, <2>1, <2>2, <2>4, <3>2, StreamTooLate
  <2> QED
    BY <2>3, <2>4
<1> QED
  BY <1>1, <1>2, <1>3, SendFileInLoopMeans
\* handleWrite(): the front of the buffer goes, and behind the last byte the half-close
\* that waited for it.
LEMMA EventWriteStream ==
  ASSUME IInv, IInv', OnLoop, OnceDown, EventWrite
  PROVE  StreamStep
<1>1. /\ ups > 0 /\ ~destroyed /\ UNCHANGED <<state, accepted, life>>
  BY DispatchMeans DEF EventWrite, Dispatch, OnLoop, history
<1>2. CASE UNCHANGED <<channel, outputBuffer, pending, kernel>>
  <2>1. Over => Over'
    BY <1>1 DEF Over, life
  <2> QED
    BY <1>1, <1>2, <2>1, StreamQuiet DEF kernel
<1>3. CASE /\ "write" \in events /\ ~Broken /\ space > 0 /\ outputBuffer # << >>
           /\ DrainOutput(Lesser(space, Len(outputBuffer)))
  <2>1. state # "kDisconnected"
    BY <1>3 DEF OnceDown
  <2>2. ~Over
    BY <1>1, <2>1 DEF OnLoop, IInv, Shapes, Over
  <2>3. ~shutWr
    BY <1>3 DEF Broken
  <2>4. Shapes /\ Shapes' /\ OutputInOrder /\ OutputInOrder'
    BY DEF IInv
  <2> DEFINE n == Lesser(space, Len(outputBuffer))
             sent == SubSeq(outputBuffer, 1, n)
  <2>5. n \in 0..Len(outputBuffer)
    <3>1. space \in Nat /\ Len(outputBuffer) \in Nat
      BY <2>4, LenProperties, TcpConnectionAssumption DEF Shapes
    <3> QED
      BY <3>1 DEF Lesser
  <2>6. /\ wire' = wire \o sent /\ outputBuffer' = From(outputBuffer, n + 1)
        /\ IF n = Len(outputBuffer) THEN Drained ELSE UNCHANGED shutWr
    BY <1>3 DEF DrainOutput
  <2> HIDE DEF n
  <2>7. sent \in Seq(AllBytes) /\ (n = Len(outputBuffer) => outputBuffer' = << >>)
    BY <2>4, <2>5, <2>6, Cut DEF Shapes
  <2> HIDE DEF sent
  <2>8. CASE UNCHANGED shutWr
    <3>1. << >> \in Seq(AllBytes) /\ accepted' = accepted \o << >>
      BY <1>1, <2>4, ConcatEmptySeq, EmptySeq DEF Shapes
    <3> QED
      BY <1>1, <2>2, <2>3, <2>4, <2>6, <2>7, <2>8, <3>1, StreamMoves
  <2>9. CASE n = Len(outputBuffer) /\ shutWr' # shutWr
    <3>1. shutWr' = TRUE
      BY <2>3, <2>4, <2>9 DEF Shapes
    <3>2. wire' = accepted'
      <4>1. wire' \o << >> = wire' /\ wire' \o outputBuffer' = accepted'
        BY <2>4, ConcatEmptySeq DEF Shapes, OutputInOrder
      <4> QED
        BY <2>7, <2>9, <4>1
    <3> QED
      BY <1>1, <2>2, <2>3, <2>4, <3>1, <3>2, StreamEnds
  <2> QED
    BY <2>6, <2>8, <2>9
<1> QED
  BY <1>2, <1>3 DEF EventWrite

\* shutdown() on the loop: the half-close at once, when nothing is buffered.
LEMMA LoopShutdownStream ==
  ASSUME IInv, OnLoop, LoopShutdown
  PROVE  StreamStep
<1>1. /\ ups > 0 /\ state = "kConnected" /\ shutWr' = (shutWr \/ "write" \notin events)
      /\ UNCHANGED <<wire, accepted, life>>
  BY DEF LoopShutdown, InUserCode, MayShutDown, ShutdownInLoop, history
<1>2. ~Over
  BY <1>1 DEF OnLoop, Over, IInv, Shapes
<1>3. Shapes /\ OutputInOrder
  BY DEF IInv
<1>4. CASE UNCHANGED shutWr
  BY <1>1, <1>2, <1>4, StreamQuiet
<1>5. CASE shutWr' # shutWr
  <2>1. ~shutWr /\ shutWr' = TRUE /\ "write" \notin events
    BY <1>1, <1>3, <1>5 DEF Shapes
  <2>2. outputBuffer = << >>
    <3>1. downs = 0 /\ ~destroyed
      BY <1>2, <1>3 DEF Over, Shapes
    <3> QED
      BY <1>1, <2>1, <3>1 DEF IInv, WritingIffBuffered
  <2>3. wire = accepted
    BY <1>3, <2>2, ConcatEmptySeq DEF Shapes, OutputInOrder
  <2> QED
    BY <1>1, <1>2, <1>3, <2>1, <2>3, StreamEnds
<1> QED
  BY <1>4, <1>5

\* The steps at which no byte moves.
LEMMA QuietStream ==
  ASSUME IInv,
         \/ Poll \/ EventHup \/ EventError \/ EventRead \/ SwapFunctors
         \/ RunConnectEstablished \/ RunConnectDestroyed \/ RunUserCallback \/ EndBatch
         \/ Environment \/ \E u \in Users : UserNext(u)
         \/ UNCHANGED vars
  PROVE  StreamStep
<1> DEFINE Still == UNCHANGED <<accepted, wire, shutWr>>
<1>1. Still /\ UNCHANGED life => StreamStep
  BY StreamQuiet DEF Over, life
<1>2. Still /\ downs' \in {downs, downs + 1} /\ UNCHANGED destroyed => StreamStep
  <2>1. downs \in Nat
    BY DEF IInv, Shapes
  <2> QED
    BY <2>1, StreamQuiet DEF Over
<1>3. CASE EventHup \/ EventRead
  <2>1. Still /\ UNCHANGED destroyed
    BY <1>3 DEF EventHup, EventRead, kernel
  <2>2. downs' \in {downs, downs + 1}
    BY <1>3 DEF EventHup, EventRead, HandleClose
  <2> QED
    BY <1>2, <2>1, <2>2
<1>4. CASE RunConnectEstablished
  BY <1>2, <1>4 DEF RunConnectEstablished, kernel
<1>5. CASE RunConnectDestroyed
  <2>1. Still /\ destroyed' = TRUE
    BY <1>5 DEF RunConnectDestroyed, kernel
  <2> QED
    BY <2>1, StreamQuiet DEF Over
<1>6. CASE Poll \/ EventError \/ SwapFunctors \/ RunUserCallback \/ EndBatch
  BY <1>1, <1>6 DEF Poll, EventError, SwapFunctors, RunUserCallback, EndBatch, world, kernel,
                    history
<1>7. CASE Environment
  BY <1>1, <1>7 DEF Environment, FreeString, ServerRemoves, ServerDestroyed, Ack, PeerSends,
                    PeerCloses, PeerResets, world, kernel, history
<1>8. ASSUME NEW u \in Users, UserNext(u)
      PROVE  StreamStep
  BY <1>1, <1>8 DEF UserNext, UserFinishes, SendCheck, SendPost, SendFilePost, ShutdownCheck,
                    ShutdownSet, ShutdownPost, Release, world, kernel, history
<1>9. CASE UNCHANGED vars
  BY <1>1, <1>9 DEF vars, world, kernel, history
<1> QED
  BY <1>3, <1>4, <1>5, <1>6, <1>7, <1>8, <1>9

\* The functors and the user code that send.
LEMMA SendersStream ==
  ASSUME IInv, IInv', OnLoop,
         \/ RunSendInLoop \/ RunSendFileInLoop
         \/ (\E m \in Messages : LoopSend(m)) \/ (\E f \in Files : LoopSendFile(f))
  PROVE  StreamStep
<1>1. ASSUME NEW op, RunNext(op), op # "connectEstablished"
      PROVE  ups > 0 /\ Head(batch) \in Functors /\ Head(batch).op = op
  <2>1. ups # 0 /\ Head(batch) \in Functors /\ Head(batch).op = op
    BY <1>1, RunNextMeans
  <2> QED
    BY <2>1 DEF IInv, Shapes
<1>2. CASE RunSendInLoop
  <2>1. ups > 0 /\ Head(batch) \in Functors /\ Head(batch).op = "sendInLoop"
    BY <1>1, <1>2 DEF RunSendInLoop
  <2> DEFINE data == Contents(Head(batch).data)
  <2>2. data \in Seq(AllBytes)
    BY <2>1, ContentsAreBytes, FunctorFields
  <2>3. SendInLoop(data) /\ UNCHANGED <<state, shutWr, life>>
    BY <1>2 DEF RunSendInLoop
  <2> HIDE DEF data
  <2> QED
    BY <2>1, <2>2, <2>3, SendStream
<1>3. CASE RunSendFileInLoop
  <2>1. ups > 0 /\ Head(batch) \in Functors /\ Head(batch).op = "sendFileInLoop"
    BY <1>1, <1>3 DEF RunSendFileInLoop
  <2>2. /\ SendFileInLoop(Head(batch).file, Head(batch).offset, Head(batch).count)
        /\ UNCHANGED <<state, shutWr, life>>
    BY <1>3 DEF RunSendFileInLoop, conn
  <2>3. Head(batch).file \in Files /\ Head(batch).offset \in Nat /\ Head(batch).count \in Nat
    BY <2>1, FunctorFields
  <2> QED
    BY <2>1, <2>2, <2>3, SendFileStream
<1>4. ASSUME NEW m \in Messages, LoopSend(m)
      PROVE  StreamStep
  <2> DEFINE data == Bytes(m, 1, Size[m])
  <2>1. data \in Seq(AllBytes)
    BY MessagesAreBytes
  <2>2. ups > 0 /\ SendInLoop(data) /\ UNCHANGED <<state, shutWr, life>>
    BY <1>4 DEF LoopSend, InUserCode
  <2> HIDE DEF data
  <2> QED
    BY <2>1, <2>2, SendStream
<1>5. ASSUME NEW f \in Files, LoopSendFile(f)
      PROVE  StreamStep
  <2>1. 0 \in Nat /\ Count[f] \in Nat
    BY TcpConnectionAssumption
  <2>2. ups > 0 /\ SendFileInLoop(f, 0, Count[f]) /\ UNCHANGED <<state, shutWr, life>>
    BY <1>5 DEF LoopSendFile, InUserCode, conn
  <2> QED
    BY <2>1, <2>2, SendFileStream
<1> QED
  BY <1>2, <1>3, <1>4, <1>5

\* Every step is one of the stream, or none.
LEMMA StreamSteps ==
  ASSUME Closers = {}
  PROVE  IInv /\ IInv' /\ OnLoop /\ OnceDown /\ [Next]_vars => StreamStep
<1> SUFFICES ASSUME IInv, IInv', OnLoop, OnceDown, [Next]_vars
             PROVE  StreamStep
  OBVIOUS
<1>1. ~RunShutdownInLoop
  BY RunOnce DEF RunShutdownInLoop
<1>2. LoopStep => StreamStep
  BY <1>1, QuietStream, EventWriteStream, SendersStream DEF LoopStep
<1>3. LoopUser => StreamStep
  BY LoopShutdownStream, SendersStream DEF LoopUser
<1> QED
  BY <1>2, <1>3, QuietStream DEF Next

\* ImplementsByteStream: sendInLoop(), sendFileInLoop(), handleWrite() and shutdownInLoop()
\* deliver a prefix of what they accepted, half-close behind its last byte, and transmit
\* nothing once the connection is down or destroyed.
THEOREM StreamRefinement ==
  ASSUME Closers = {}
  PROVE  Spec => ImplementsByteStream
<1>1. Init => Stream!Init
  BY DEF Init, Stream!Init
<1>2. IInv /\ IInv' /\ OnLoop /\ OnceDown /\ [Next]_vars => [Stream!Next]_(Stream!svars)
  BY StreamSteps DEF StreamStep
<1>3. Spec => [](IInv /\ OnLoop /\ OnceDown)
  BY InitInvariant, InitOnLoop, InitOnce, NextInvariant, NextOnLoop, NextOnce, PTL DEF Spec
<1> QED
  BY <1>1, <1>2, <1>3, PTL DEF Spec, ImplementsByteStream, Stream!Spec
-----------------------------------------------------------------------------
\* Files: each is in one hand, and its bytes reach the kernel in order.

\* The bytes of messages, whether or not their strings still exist.
TextBytes == (Messages \cup {"garbage"}) \X Nat

\* The functors in the order in which they will run.
Queued == batch \o pending

IsRound(g, f) == g.op = "sendFileInLoop" /\ g.file = f

NoRound(q, f) == \A i \in 1..Len(q) : ~IsRound(q[i], f)
NoByte(w, f) == \A i \in 1..Len(w) : w[i][1] # f

\* Of the file exactly the first bytes were sent, up to the offset.
Reached(w, f, offset) ==
  /\ \A i \in 1..Len(w) : w[i][1] = f => w[i][2] <= offset
  /\ offset > 0 => \E j \in 1..Len(w) : w[j] = <<f, offset>>

\* FileBytesInOrder, of any sequence of bytes.
InOrder(w) ==
  \A i \in 1..Len(w) : w[i][1] \in Files =>
    /\ w[i][2] = 1 \/ \E j \in 1..(i - 1) : w[j] = <<w[i][1], w[i][2] - 1>>
    /\ \A j \in 1..Len(w) : w[j] = w[i] => j = i

\* A byte of a file is one that the file has.
WithinFiles(w) ==
  \A i \in 1..Len(w) : w[i][1] \in Files => w[i][2] \in 1..FileSize[w[i][1]]

\* A file that was not passed to sendFile() is nowhere else, one that a user is inside
\* sendFile() with is with that user only, and one functor at most carries it, with the
\* offset up to which it was sent; outputBuffer_ holds no byte of a file.
FilesOnce ==
  /\ outputBuffer \in Seq(TextBytes)
  /\ InOrder(wire) /\ WithinFiles(wire)
  /\ \A f \in Files \cap unsent :
       NoByte(wire, f) /\ NoRound(Queued, f) /\ \A u \in Users : pc[u] # f
  /\ \A u \in Users : pc[u] \in Files =>
       NoByte(wire, pc[u]) /\ NoRound(Queued, pc[u]) /\ \A v \in Users : pc[v] = pc[u] => v = u
  /\ \A i \in 1..Len(Queued), f \in Files : IsRound(Queued[i], f) =>
       /\ Reached(wire, f, Queued[i].offset)
       /\ \A j \in 1..Len(Queued) : IsRound(Queued[j], f) => j = i

LEMMA TextIsNoFile ==
  /\ \A b \in TextBytes : b[1] \notin Files
  /\ TextBytes \subseteq AllBytes
BY TcpConnectionAssumption DEF TextBytes, AllBytes

\* What send() is given is text.
LEMMA MessagesAreText ==
  \A m \in Messages : Bytes(m, 1, Size[m]) \in Seq(TextBytes) /\ Contents(m) \in Seq(TextBytes)
<1>1. ASSUME NEW x \in Messages \cup {"garbage"}, NEW n \in Nat
      PROVE  Bytes(x, 1, n) \in Seq(TextBytes)
  <2>1. Bytes(x, 1, n) = [i \in 1..n |-> <<x, i>>]
    <3>1. n - 1 + 1 = n /\ \A i \in 1..n : 1 + i - 1 = i
      OBVIOUS
    <3> QED
      BY <3>1 DEF Bytes
  <2>2. [i \in 1..n |-> <<x, i>>] \in [1..n -> TextBytes]
    BY DEF TextBytes
  <2> QED
    BY <2>1, <2>2, SeqDef
<1> QED
  BY <1>1, TcpConnectionAssumption DEF Contents

\* The bytes of a sequence that grows.
LEMMA Elements ==
  ASSUME NEW S, NEW s \in Seq(S), NEW t \in Seq(S)
  PROVE  /\ Len(s) \in Nat /\ Len(t) \in Nat /\ Len(s \o t) = Len(s) + Len(t)
         /\ \A i \in 1..Len(s) : i \in 1..Len(s \o t) /\ (s \o t)[i] = s[i]
         /\ \A i \in 1..Len(s \o t) :
              \/ i \in 1..Len(s) /\ (s \o t)[i] = s[i]
              \/ i - Len(s) \in 1..Len(t) /\ (s \o t)[i] = t[i - Len(s)]
         /\ \A k \in 1..Len(t) : Len(s) + k \in 1..Len(s \o t) /\ (s \o t)[Len(s) + k] = t[k]
<1>1. /\ Len(s) \in Nat /\ Len(t) \in Nat /\ Len(s \o t) = Len(s) + Len(t)
      /\ \A i \in 1..Len(s) + Len(t) : (s \o t)[i] = IF i <= Len(s) THEN s[i] ELSE t[i - Len(s)]
  BY ConcatProperties, LenProperties
<1> DEFINE r == s \o t
           a == Len(s)
           b == Len(t)
<1>2. /\ a \in Nat /\ b \in Nat /\ Len(r) = a + b
      /\ \A i \in 1..a + b : r[i] = IF i <= a THEN s[i] ELSE t[i - a]
  BY <1>1
<1> HIDE DEF r, a, b
<1>3. \A i \in 1..a : i \in 1..Len(r) /\ r[i] = s[i]
  BY <1>2
<1>4. \A k \in 1..b : a + k \in 1..Len(r) /\ r[a + k] = t[k]
  <2> TAKE k \in 1..b
  <2>1. a + k \in 1..a + b /\ ~(a + k <= a) /\ (a + k) - a = k
    BY <1>2
  <2> QED
    BY <1>2, <2>1
<1>5. \A i \in 1..Len(r) : (i \in 1..a /\ r[i] = s[i]) \/ (i - a \in 1..b /\ r[i] = t[i - a])
  <2> TAKE i \in 1..Len(r)
  <2>1. i \in 1..a \/ (i - a \in 1..b /\ ~(i <= a))
    BY <1>2
  <2> QED
    BY <1>2, <2>1
<1> QED
  BY <1>2, <1>3, <1>4, <1>5 DEF r, a, b
\* Text on the wire disturbs no file.
LEMMA TextAfterFiles ==
  ASSUME NEW w \in Seq(AllBytes), NEW s \in Seq(TextBytes), InOrder(w), WithinFiles(w)
  PROVE  /\ InOrder(w \o s) /\ WithinFiles(w \o s)
         /\ \A f \in Files : NoByte(w, f) => NoByte(w \o s, f)
         /\ \A f \in Files, o \in Nat : Reached(w, f, o) => Reached(w \o s, f, o)
<1> DEFINE r == w \o s
<1>1. /\ Len(w) \in Nat /\ Len(r) \in Nat
      /\ \A i \in 1..Len(w) : i \in 1..Len(r) /\ r[i] = w[i]
      /\ \A i \in 1..Len(r) : r[i][1] \in Files => i \in 1..Len(w) /\ r[i] = w[i]
  <2>1. s \in Seq(AllBytes)
    BY TextIsNoFile
  <2>2. \A k \in 1..Len(s) : s[k][1] \notin Files
    BY TextIsNoFile, LenProperties
  <2>3. /\ Len(w) \in Nat /\ Len(s) \in Nat /\ Len(r) = Len(w) + Len(s)
        /\ \A i \in 1..Len(w) : i \in 1..Len(r) /\ r[i] = w[i]
        /\ \A i \in 1..Len(r) :
             \/ i \in 1..Len(w) /\ r[i] = w[i]
             \/ i - Len(w) \in 1..Len(s) /\ r[i] = s[i - Len(w)]
    BY <2>1, Elements
  <2> HIDE DEF r
  <2> QED
    BY <2>2, <2>3
<1> HIDE DEF r
<1>2. InOrder(r)
  <2> SUFFICES ASSUME NEW i \in 1..Len(r), r[i][1] \in Files
               PROVE  /\ r[i][2] = 1 \/ \E j \in 1..(i - 1) : r[j] = <<r[i][1], r[i][2] - 1>>
                      /\ \A j \in 1..Len(r) : r[j] = r[i] => j = i
    BY DEF InOrder
  <2>1. i \in 1..Len(w) /\ r[i] = w[i]
    BY <1>1
  <2>2. /\ w[i][2] = 1 \/ \E j \in 1..(i - 1) : w[j] = <<w[i][1], w[i][2] - 1>>
        /\ \A j \in 1..Len(w) : w[j] = w[i] => j = i
    BY <2>1 DEF InOrder
  <2>3. \A j \in 1..(i - 1) : j \in 1..Len(w)
    BY <1>1, <2>1
  <2>4. \A j \in 1..Len(r) : r[j] = r[i] => j = i
    BY <1>1, <2>1, <2>2
  <2> QED
    BY <1>1, <2>1, <2>2, <2>3, <2>4
<1>3. WithinFiles(r)
  BY <1>1 DEF WithinFiles
<1>4. \A f \in Files : NoByte(w, f) => NoByte(r, f)
  BY <1>1 DEF NoByte
<1>5. ASSUME NEW f \in Files, NEW o \in Nat, Reached(w, f, o)
      PROVE  Reached(r, f, o)
  <2>1. \A i \in 1..Len(r) : r[i][1] = f => r[i][2] <= o
    BY <1>1, <1>5 DEF Reached
  <2>2. o > 0 => \E j \in 1..Len(r) : r[j] = <<f, o>>
    BY <1>1, <1>5 DEF Reached
  <2> QED
    BY <2>1, <2>2 DEF Reached
<1> QED
  BY <1>2, <1>3, <1>4, <1>5 DEF r

\* The next n bytes of a file on the wire, of which the first o are there.
LEMMA BytesAfterFiles ==
  ASSUME NEW w \in Seq(AllBytes), InOrder(w), WithinFiles(w),
         NEW f \in Files, NEW o \in Nat, NEW n \in Nat, n > 0 => o + n <= FileSize[f],
         Reached(w, f, o)
  PROVE  LET r == w \o Bytes(f, o + 1, o + n) IN
           /\ InOrder(r) /\ WithinFiles(r)
           /\ Reached(r, f, o + n)
           /\ \A g \in Files \ {f} : NoByte(w, g) => NoByte(r, g)
           /\ \A g \in Files \ {f}, p \in Nat : Reached(w, g, p) => Reached(r, g, p)
<1> DEFINE s == Bytes(f, o + 1, o + n)
           r == w \o s
           a == Len(w)
<1>1. s \in Seq(AllBytes) /\ Len(s) = n /\ \A k \in 1..n : s[k] = <<f, o + k>>
  BY NextBytes
<1> HIDE DEF s
<1>2. /\ a \in Nat /\ Len(r) = a + n
      /\ \A i \in 1..a : i \in 1..Len(r) /\ r[i] = w[i]
      /\ \A i \in 1..Len(r) : (i \in 1..a /\ r[i] = w[i]) \/ (i - a \in 1..n /\ r[i] = s[i - a])
      /\ \A k \in 1..n : a + k \in 1..Len(r) /\ r[a + k] = s[k]
  <2>1. /\ Len(w) \in Nat /\ Len(w \o s) = Len(w) + Len(s)
        /\ \A i \in 1..Len(w) : i \in 1..Len(w \o s) /\ (w \o s)[i] = w[i]
        /\ \A i \in 1..Len(w \o s) :
             \/ i \in 1..Len(w) /\ (w \o s)[i] = w[i]
             \/ i - Len(w) \in 1..Len(s) /\ (w \o s)[i] = s[i - Len(w)]
        /\ \A k \in 1..Len(s) :
             Len(w) + k \in 1..Len(w \o s) /\ (w \o s)[Len(w) + k] = s[k]
    <3>1. s \in Seq(AllBytes)
      BY <1>1
    <3> HIDE DEF r, a
    <3> QED
      BY <3>1, Elements
  <2>2. Len(s) = n
    BY <1>1
  <2> HIDE DEF r, a
  <2>3. r = w \o s /\ a = Len(w)
    BY DEF r, a
  <2> QED
    BY <2>1, <2>2, <2>3
<1>3. /\ \A i \in 1..a : w[i] \in AllBytes
      /\ \A i \in 1..a : w[i][1] = f => w[i][2] <= o
      /\ o > 0 => \E j \in 1..a : w[j] = <<f, o>>
  BY LenProperties DEF Reached
<1> HIDE DEF r, a
<1>4. \A i \in 1..Len(r) : \/ i \in 1..a /\ r[i] = w[i]
                           \/ \E k \in 1..n : i = a + k /\ r[i] = <<f, o + k>>
  <2> TAKE i \in 1..Len(r)
  <2>1. CASE i - a \in 1..n /\ r[i] = s[i - a]
    <3>1. i = a + (i - a)
      BY <1>2
    <3> QED
      BY <1>1, <2>1, <3>1
  <2> QED
    BY <1>2, <2>1
<1>5. \A k \in 1..n : a + k \in 1..Len(r) /\ r[a + k] = <<f, o + k>>
  BY <1>1, <1>2
<1>6. ASSUME NEW i \in 1..a, NEW k \in 1..n
      PROVE  w[i] # <<f, o + k>>
  <2> SUFFICES ASSUME w[i] = <<f, o + k>>
               PROVE  FALSE
    OBVIOUS
  <2>1. w[i][1] = f /\ w[i][2] = o + k
    OBVIOUS
  <2>2. o + k <= o
    BY <1>3, <2>1
  <2> QED
    BY <2>2
<1>7. \A i, j \in 1..Len(r) : r[i][1] \in Files /\ r[j] = r[i] => j = i
  <2> SUFFICES ASSUME NEW i \in 1..Len(r), NEW j \in 1..Len(r), r[i][1] \in Files, r[j] = r[i]
               PROVE  j = i
    OBVIOUS
  <2>1. CASE i \in 1..a /\ r[i] = w[i] /\ j \in 1..a /\ r[j] = w[j]
    <3>1. w[i][1] \in Files /\ w[j] = w[i] /\ 1..Len(w) = 1..a
      BY <2>1 DEF a
    <3> QED
      BY <2>1, <3>1 DEF InOrder
  <2>2. CASE \E k, l \in 1..n : /\ i = a + k /\ r[i] = <<f, o + k>>
                                /\ j = a + l /\ r[j] = <<f, o + l>>
    BY <2>2
  <2>3. CASE i \in 1..a /\ r[i] = w[i] /\ \E k \in 1..n : r[j] = <<f, o + k>>
    BY <1>6, <2>3
  <2>4. CASE j \in 1..a /\ r[j] = w[j] /\ \E k \in 1..n : r[i] = <<f, o + k>>
    BY <1>6, <2>4
  <2> QED
    BY <1>4, <2>1, <2>2, <2>3, <2>4
<1>8. ASSUME NEW i \in 1..Len(r), r[i][1] \in Files
      PROVE  r[i][2] = 1 \/ \E j \in 1..(i - 1) : r[j] = <<r[i][1], r[i][2] - 1>>
  <2>1. CASE i \in 1..a /\ r[i] = w[i]
    <3>1. w[i][2] = 1 \/ \E j \in 1..(i - 1) : w[j] = <<w[i][1], w[i][2] - 1>>
      BY <1>8, <2>1 DEF InOrder, a
    <3>2. \A j \in 1..(i - 1) : j \in 1..a /\ r[j] = w[j]
      BY <1>2, <2>1
    <3> QED
      BY <2>1, <3>1, <3>2
  <2>2. ASSUME NEW k \in 1..n, i = a + k, r[i] = <<f, o + k>>
        PROVE  r[i][2] = 1 \/ \E j \in 1..(i - 1) : r[j] = <<r[i][1], r[i][2] - 1>>
    <3>1. r[i][1] = f /\ r[i][2] = o + k
      BY <2>2
    <3>2. CASE k = 1 /\ o = 0
      BY <3>1, <3>2
    <3>3. CASE k = 1 /\ o > 0
      <4>1. PICK j \in 1..a : w[j] = <<f, o>>
        BY <1>3, <3>3
      <4>2. j \in 1..(i - 1) /\ r[j] = <<f, o>>
        BY <1>2, <2>2, <3>3, <4>1
      <4>3. r[i][2] - 1 = o
        BY <3>1, <3>3
      <4> QED
        BY <3>1, <4>2, <4>3
    <3>4. CASE k > 1
      <4>1. k - 1 \in 1..n /\ a + (k - 1) \in 1..(i - 1)
        BY <1>2, <2>2, <3>4
      <4>2. r[a + (k - 1)] = <<f, o + (k - 1)>>
        BY <1>5, <4>1
      <4>3. r[i][2] - 1 = o + (k - 1)
        BY <3>1
      <4> QED
        BY <3>1, <4>1, <4>2, <4>3
    <3> QED
      BY <3>2, <3>3, <3>4
  <2> QED
    BY <1>4, <2>1, <2>2
<1>9. InOrder(r)
  BY <1>7, <1>8 DEF InOrder
<1>10. WithinFiles(r)
  <2> SUFFICES ASSUME NEW i \in 1..Len(r), r[i][1] \in Files
               PROVE  r[i][2] \in 1..FileSize[r[i][1]]
    BY DEF WithinFiles
  <2>1. CASE i \in 1..a /\ r[i] = w[i]
    BY <2>1 DEF WithinFiles, a
  <2>2. ASSUME NEW k \in 1..n, r[i] = <<f, o + k>>
        PROVE  r[i][2] \in 1..FileSize[r[i][1]]
    <3>1. r[i][1] = f /\ r[i][2] = o + k /\ FileSize[f] \in Nat
      BY <2>2, TcpConnectionAssumption
    <3>2. o + n <= FileSize[f]
      OBVIOUS
    <3>3. o + k \in 1..FileSize[f]
      BY <3>1, <3>2
    <3> QED
      BY <3>1, <3>3
  <2> QED
    BY <1>4, <2>1, <2>2
<1>11. Reached(r, f, o + n)
  <2>1. \A i \in 1..Len(r) : r[i][1] = f => r[i][2] <= o + n
    <3> SUFFICES ASSUME NEW i \in 1..Len(r), r[i][1] = f
                 PROVE  r[i][2] <= o + n
      OBVIOUS
    <3>1. CASE i \in 1..a /\ r[i] = w[i]
      <4>1. w[i][2] \in Nat /\ w[i][2] <= o
        BY <1>3, <3>1 DEF AllBytes
      <4> QED
        BY <3>1, <4>1
    <3>2. ASSUME NEW k \in 1..n, r[i] = <<f, o + k>>
          PROVE  r[i][2] <= o + n
      BY <3>2
    <3> QED
      BY <1>4, <3>1, <3>2
  <2>2. o + n > 0 => \E j \in 1..Len(r) : r[j] = <<f, o + n>>
    <3>1. CASE n = 0
      BY <1>2, <1>3, <3>1
    <3>2. CASE n > 0
      <4>1. n \in 1..n
        BY <3>2
      <4> QED
        BY <1>5, <4>1
    <3> QED
      BY <3>1, <3>2
  <2> QED
    BY <2>1, <2>2 DEF Reached
<1>12. ASSUME NEW g \in Files \ {f}
       PROVE  \A i \in 1..Len(r) : r[i][1] = g => i \in 1..a /\ r[i] = w[i]
  BY <1>4
<1>13. \A g \in Files \ {f} : NoByte(w, g) => NoByte(r, g)
  BY <1>12 DEF NoByte, a
<1>14. ASSUME NEW g \in Files \ {f}, NEW p \in Nat, Reached(w, g, p)
       PROVE  Reached(r, g, p)
  <2>1. \A i \in 1..Len(r) : r[i][1] = g => r[i][2] <= p
    BY <1>12, <1>14 DEF Reached, a
  <2>2. p > 0 => \E j \in 1..Len(r) : r[j] = <<g, p>>
    BY <1>2, <1>14 DEF Reached, a
  <2> QED
    BY <2>1, <2>2 DEF Reached
<1> QED
  BY <1>9, <1>10, <1>11, <1>13, <1>14 DEF r, s
\* What becomes of the rounds in the queue when other functors come and go: those that are
\* left are those that were there, in their places or one further on.
NoRounds(t) == \A i \in 1..Len(t) : t[i].op # "sendFileInLoop"
KeepsRounds(q, r) ==
  \E d \in 0..1 : \A i \in 1..Len(r) :
    r[i].op = "sendFileInLoop" => i + d \in 1..Len(q) /\ r[i] = q[i + d]

LEMMA RoundsKept ==
  ASSUME NEW q \in Seq(Functors), NEW t \in Seq(Functors), NoRounds(t)
  PROVE  /\ KeepsRounds(q, q \o t)
         /\ q # << >> => KeepsRounds(q, Tail(q) \o t)
<1>1. ASSUME NEW s \in Seq(Functors), NEW d \in 0..1,
             \A i \in 1..Len(s) : i + d \in 1..Len(q) /\ s[i] = q[i + d]
      PROVE  KeepsRounds(q, s \o t)
  <2>1. \A i \in 1..Len(s \o t) :
          \/ i \in 1..Len(s) /\ (s \o t)[i] = s[i]
          \/ i - Len(s) \in 1..Len(t) /\ (s \o t)[i] = t[i - Len(s)]
    BY Elements
  <2>2. \A i \in 1..Len(s \o t) : (s \o t)[i].op = "sendFileInLoop" =>
          i + d \in 1..Len(q) /\ (s \o t)[i] = q[i + d]
    BY <1>1, <2>1 DEF NoRounds
  <2> QED
    BY <2>2 DEF KeepsRounds
<1>2. KeepsRounds(q, q \o t)
  <2>1. Len(q) \in Nat
    BY LenProperties
  <2>2. 0 \in 0..1 /\ \A i \in 1..Len(q) : i + 0 \in 1..Len(q) /\ q[i] = q[i + 0]
    BY <2>1
  <2> QED
    BY <1>1, <2>2
<1>3. ASSUME q # << >>
      PROVE  KeepsRounds(q, Tail(q) \o t)
  <2>1. /\ Tail(q) \in Seq(Functors) /\ Len(q) \in Nat \ {0} /\ Len(Tail(q)) = Len(q) - 1
        /\ \A i \in 1..Len(Tail(q)) : Tail(q)[i] = q[i + 1]
    BY <1>3, HeadTailProperties, EmptySeq
  <2>2. 1 \in 0..1 /\ \A i \in 1..Len(Tail(q)) : i + 1 \in 1..Len(q) /\ Tail(q)[i] = q[i + 1]
    BY <2>1
  <2> QED
    BY <1>1, <2>1, <2>2
<1> QED
  BY <1>2, <1>3

\* The whole queue, when functors are posted and the oldest may be taken.
LEMMA QueuedIs ==
  ASSUME Shapes, NEW t \in Seq(Functors), pending' = pending \o t
  PROVE  /\ Queued \in Seq(Functors)
         /\ batch' = batch => Queued' = Queued \o t
         /\ batch # << >> /\ batch' = Tail(batch) =>
              Queued # << >> /\ Head(Queued) = Head(batch) /\ Queued' = Tail(Queued) \o t
<1>1. batch \in Seq(Functors) /\ pending \in Seq(Functors)
  BY DEF Shapes
<1>2. Queued \in Seq(Functors)
  BY <1>1, ConcatProperties DEF Queued
<1>3. ASSUME batch' = batch
      PROVE  Queued' = Queued \o t
  BY <1>1, <1>3, ConcatAssociative DEF Queued
<1>4. ASSUME batch # << >>, batch' = Tail(batch)
      PROVE  Queued # << >> /\ Head(Queued) = Head(batch) /\ Queued' = Tail(Queued) \o t
  <2>1. Tail(batch) \in Seq(Functors)
    BY <1>1, <1>4, HeadTailProperties
  <2>2. Queued # << >> /\ Head(Queued) = Head(batch) /\ Tail(Queued) = Tail(batch) \o pending
    BY <1>1, <1>4, HeadOfSplitQueue DEF Queued
  <2>3. (Tail(batch) \o pending) \o t = Tail(batch) \o (pending \o t)
    BY <1>1, <2>1, ConcatAssociative
  <2> QED
    BY <1>4, <2>2, <2>3 DEF Queued
<1> QED
  BY <1>2, <1>3, <1>4

\* A step that sends no byte of a file, and takes and posts no round.
LEMMA FilesKept ==
  ASSUME Shapes, FilesOnce,
         outputBuffer' \in Seq(TextBytes), InOrder(wire'), WithinFiles(wire'),
         \A f \in Files : NoByte(wire, f) => NoByte(wire', f),
         \A f \in Files, o \in Nat : Reached(wire, f, o) => Reached(wire', f, o),
         unsent' \subseteq unsent, \A u \in Users : pc'[u] \in Files => pc'[u] = pc[u],
         Queued \in Seq(Functors), KeepsRounds(Queued, Queued')
  PROVE  FilesOnce'
<1>1. PICK d \in 0..1 : \A i \in 1..Len(Queued') :
        Queued'[i].op = "sendFileInLoop" => i + d \in 1..Len(Queued) /\ Queued'[i] = Queued[i + d]
  BY DEF KeepsRounds
<1>2. \A i \in 1..Len(Queued'), f \in Files : IsRound(Queued'[i], f) =>
        i + d \in 1..Len(Queued) /\ Queued'[i] = Queued[i + d] /\ IsRound(Queued[i + d], f)
  BY <1>1 DEF IsRound
<1>3. \A f \in Files : NoRound(Queued, f) => NoRound(Queued', f)
  BY <1>2 DEF NoRound
<1>4. \A f \in Files \cap unsent' :
        NoByte(wire', f) /\ NoRound(Queued', f) /\ \A u \in Users : pc'[u] # f
  BY <1>3 DEF FilesOnce
<1>5. \A u \in Users : pc'[u] \in Files =>
        /\ NoByte(wire', pc'[u]) /\ NoRound(Queued', pc'[u])
        /\ \A v \in Users : pc'[v] = pc'[u] => v = u
  BY <1>3 DEF FilesOnce
<1>6. ASSUME NEW i \in 1..Len(Queued'), NEW f \in Files, IsRound(Queued'[i], f)
      PROVE  /\ Reached(wire', f, Queued'[i].offset)
             /\ \A j \in 1..Len(Queued') : IsRound(Queued'[j], f) => j = i
  <2>1. i + d \in 1..Len(Queued) /\ Queued'[i] = Queued[i + d] /\ IsRound(Queued[i + d], f)
    BY <1>2, <1>6
  <2>2. Queued[i + d].offset \in Nat
    <3>1. Queued[i + d] \in Functors
      BY <2>1, LenProperties
    <3> QED
      BY <2>1, <3>1, FunctorFields DEF IsRound
  <2>3. Reached(wire, f, Queued[i + d].offset)
    BY <2>1 DEF FilesOnce
  <2>4. \A j \in 1..Len(Queued) : IsRound(Queued[j], f) => j = i + d
    BY <2>1 DEF FilesOnce
  <2>5. \A j \in 1..Len(Queued') : IsRound(Queued'[j], f) => j = i
    <3> TAKE j \in 1..Len(Queued')
    <3>1. IsRound(Queued'[j], f) => j + d = i + d
      BY <1>2, <2>4
    <3>2. j + d = i + d => j = i
      OBVIOUS
    <3> QED
      BY <3>1, <3>2
  <2> QED
    BY <2>1, <2>2, <2>3, <2>5
<1> QED
  BY <1>4, <1>5, <1>6 DEF FilesOnce
\* A round of a file that nobody else has: its next bytes go out, and it is queued behind
\* what was there, or done with.
LEMMA RoundKeeps ==
  ASSUME Shapes, FilesOnce, UNCHANGED outputBuffer,
         unsent' \subseteq unsent, \A u \in Users : pc'[u] \in Files => pc'[u] = pc[u],
         Queued \in Seq(Functors), NEW r \in Seq(Functors), KeepsRounds(Queued, r),
         NEW f \in Files, NoRound(r, f), f \notin unsent', \A u \in Users : pc'[u] # f,
         NEW o \in Nat, NEW n \in Nat, n > 0 => o + n <= FileSize[f],
         Reached(wire, f, o), wire' = wire \o Bytes(f, o + 1, o + n),
         NEW h \in Functors, Queued' = r \o <<h>>,
         h.op = "sendFileInLoop" => h.file = f /\ h.offset = o + n
  PROVE  FilesOnce'
<1>1. wire \in Seq(AllBytes) /\ InOrder(wire) /\ WithinFiles(wire)
  BY DEF Shapes, FilesOnce
<1>2. /\ InOrder(wire') /\ WithinFiles(wire') /\ Reached(wire', f, o + n)
      /\ \A g \in Files \ {f} : NoByte(wire, g) => NoByte(wire', g)
      /\ \A g \in Files \ {f}, p \in Nat : Reached(wire, g, p) => Reached(wire', g, p)
  BY <1>1, BytesAfterFiles
<1>3. PICK d \in 0..1 : \A i \in 1..Len(r) :
        r[i].op = "sendFileInLoop" => i + d \in 1..Len(Queued) /\ r[i] = Queued[i + d]
  BY DEF KeepsRounds
<1>4. /\ Len(r) \in Nat /\ Len(Queued') = Len(r) + 1
      /\ \A i \in 1..Len(Queued') : \/ i \in 1..Len(r) /\ Queued'[i] = r[i]
                                    \/ i = Len(r) + 1 /\ Queued'[i] = h
  <2>1. <<h>> \in Seq(Functors) /\ Len(<<h>>) = 1 /\ <<h>>[1] = h
    OBVIOUS
  <2>2. /\ Len(r) \in Nat /\ Len(r \o <<h>>) = Len(r) + 1
        /\ \A i \in 1..Len(r \o <<h>>) :
             \/ i \in 1..Len(r) /\ (r \o <<h>>)[i] = r[i]
             \/ i - Len(r) \in 1..1 /\ (r \o <<h>>)[i] = <<h>>[i - Len(r)]
    BY <2>1, Elements
  <2> QED
    BY <2>1, <2>2
\* A round of another file was there before, and one of this file is the new one.
<1>5. \A i \in 1..Len(Queued'), g \in Files \ {f} : IsRound(Queued'[i], g) =>
        /\ i + d \in 1..Len(Queued) /\ Queued'[i] = Queued[i + d]
        /\ IsRound(Queued[i + d], g)
  BY <1>3, <1>4 DEF IsRound
<1>6. \A i \in 1..Len(Queued') : IsRound(Queued'[i], f) => i = Len(r) + 1 /\ Queued'[i] = h
  BY <1>4 DEF NoRound
<1>7. \A g \in Files \ {f} : NoRound(Queued, g) => NoRound(Queued', g)
  BY <1>5 DEF NoRound
<1>8. \A g \in Files \cap unsent' :
        NoByte(wire', g) /\ NoRound(Queued', g) /\ \A u \in Users : pc'[u] # g
  <2> TAKE g \in Files \cap unsent'
  <2>1. g \in Files \ {f} /\ g \in Files \cap unsent
    OBVIOUS
  <2>2. NoByte(wire, g) /\ NoRound(Queued, g) /\ \A u \in Users : pc[u] # g
    BY <2>1 DEF FilesOnce
  <2>3. \A u \in Users : pc'[u] # g
    BY <2>1, <2>2
  <2> QED
    BY <1>2, <1>7, <2>1, <2>2, <2>3
<1>9. \A u \in Users : pc'[u] \in Files =>
        /\ NoByte(wire', pc'[u]) /\ NoRound(Queued', pc'[u])
        /\ \A v \in Users : pc'[v] = pc'[u] => v = u
  <2> SUFFICES ASSUME NEW u \in Users, pc'[u] \in Files
               PROVE  /\ NoByte(wire', pc'[u]) /\ NoRound(Queued', pc'[u])
                      /\ \A v \in Users : pc'[v] = pc'[u] => v = u
    OBVIOUS
  <2>1. pc'[u] = pc[u] /\ pc[u] \in Files \ {f}
    OBVIOUS
  <2>2. NoByte(wire, pc[u]) /\ NoRound(Queued, pc[u]) /\ \A v \in Users : pc[v] = pc[u] => v = u
    BY <2>1 DEF FilesOnce
  <2>3. \A v \in Users : pc'[v] = pc'[u] => v = u
    BY <2>1, <2>2
  <2> QED
    BY <1>2, <1>7, <2>1, <2>2, <2>3
<1>10. ASSUME NEW i \in 1..Len(Queued'), NEW g \in Files, IsRound(Queued'[i], g)
       PROVE  /\ Reached(wire', g, Queued'[i].offset)
              /\ \A j \in 1..Len(Queued') : IsRound(Queued'[j], g) => j = i
  <2>1. CASE g = f
    <3>1. Queued'[i] = h /\ h.op = "sendFileInLoop"
      BY <1>6, <1>10, <2>1 DEF IsRound
    <3> QED
      BY <1>2, <1>6, <1>10, <2>1, <3>1
  <2>2. CASE g # f
    <3>1. g \in Files \ {f}
      BY <2>2
    <3>2. i + d \in 1..Len(Queued) /\ Queued'[i] = Queued[i + d] /\ IsRound(Queued[i + d], g)
      BY <1>5, <1>10, <3>1
    <3>3. Queued[i + d].offset \in Nat
      <4>1. Queued[i + d] \in Functors
        BY <3>2, LenProperties
      <4> QED
        BY <3>2, <4>1, FunctorFields DEF IsRound
    <3>4. /\ Reached(wire, g, Queued[i + d].offset)
          /\ \A j \in 1..Len(Queued) : IsRound(Queued[j], g) => j = i + d
      BY <3>2 DEF FilesOnce
    <3>5. \A j \in 1..Len(Queued') : IsRound(Queued'[j], g) => j = i
      <4> TAKE j \in 1..Len(Queued')
      <4>1. IsRound(Queued'[j], g) => j + d = i + d
        BY <1>5, <3>1, <3>4
      <4>2. j + d = i + d => j = i
        OBVIOUS
      <4> QED
        BY <4>1, <4>2
    <3> QED
      BY <1>2, <3>1, <3>2, <3>3, <3>4, <3>5
  <2> QED
    BY <2>1, <2>2
<1>11. outputBuffer' \in Seq(TextBytes)
  BY DEF FilesOnce
<1> QED
  BY <1>2, <1>8, <1>9, <1>10, <1>11 DEF FilesOnce
\* A step that may send text and post or take functors that are no rounds.
LEMMA TextStep ==
  ASSUME Shapes, FilesOnce, NEW s \in Seq(TextBytes), wire' = wire \o s,
         outputBuffer' \in Seq(TextBytes),
         unsent' \subseteq unsent, \A u \in Users : pc'[u] \in Files => pc'[u] = pc[u],
         NEW t \in Seq(Functors), NoRounds(t), pending' = pending \o t,
         batch' = batch \/ (batch # << >> /\ batch' = Tail(batch))
  PROVE  FilesOnce'
<1>1. Queued \in Seq(Functors) /\ KeepsRounds(Queued, Queued')
  <2>1. /\ Queued \in Seq(Functors)
        /\ Queued' = Queued \o t \/ (Queued # << >> /\ Queued' = Tail(Queued) \o t)
    BY QueuedIs
  <2> QED
    BY <2>1, RoundsKept
<1>2. wire \in Seq(AllBytes) /\ InOrder(wire) /\ WithinFiles(wire)
  BY DEF Shapes, FilesOnce
<1>3. /\ InOrder(wire') /\ WithinFiles(wire')
      /\ \A f \in Files : NoByte(wire, f) => NoByte(wire', f)
      /\ \A f \in Files, o \in Nat : Reached(wire, f, o) => Reached(wire', f, o)
  BY <1>2, TextAfterFiles
<1> QED
  BY <1>1, <1>3, FilesKept

\* A step that sends nothing.
LEMMA SilentStep ==
  ASSUME Shapes, FilesOnce, UNCHANGED <<wire, outputBuffer>>,
         unsent' \subseteq unsent, \A u \in Users : pc'[u] \in Files => pc'[u] = pc[u],
         \/ pending' = pending
         \/ \E g \in Functors : g.op # "sendFileInLoop" /\ pending' = Append(pending, g),
         batch' = batch \/ (batch # << >> /\ batch' = Tail(batch))
  PROVE  FilesOnce'
<1>1. PICK t \in Seq(Functors) : NoRounds(t) /\ pending' = pending \o t
  <2>1. pending \in Seq(Functors)
    BY DEF Shapes
  <2>2. CASE pending' = pending
    <3>1. << >> \in Seq(Functors) /\ NoRounds(<< >>) /\ pending \o << >> = pending
      BY <2>1, EmptySeq, ConcatEmptySeq DEF NoRounds
    <3> QED
      BY <2>2, <3>1
  <2>3. ASSUME NEW g \in Functors, g.op # "sendFileInLoop", pending' = Append(pending, g)
        PROVE  \E t \in Seq(Functors) : NoRounds(t) /\ pending' = pending \o t
    <3>1. <<g>> \in Seq(Functors) /\ pending' = pending \o <<g>>
      BY <2>1, <2>3, AppendIsConcat
    <3>2. NoRounds(<<g>>)
      BY <2>3 DEF NoRounds
    <3> QED
      BY <3>1, <3>2
  <2> QED
    BY <2>2, <2>3
<1>2. << >> \in Seq(TextBytes) /\ wire' = wire \o << >> /\ outputBuffer' \in Seq(TextBytes)
  BY EmptySeq, ConcatEmptySeq DEF Shapes, FilesOnce
<1> QED
  BY <1>1, <1>2, TextStep

\* sendInLoop(), whoever calls it.
LEMMA SendText ==
  ASSUME Shapes, FilesOnce, NEW data \in Seq(TextBytes), SendInLoop(data),
         unsent' \subseteq unsent, UNCHANGED pc,
         batch' = batch \/ (batch # << >> /\ batch' = Tail(batch))
  PROVE  FilesOnce'
<1>1. data \in Seq(AllBytes)
  BY TextIsNoFile
<1>2. CASE UNCHANGED <<channel, outputBuffer, pending, space, wire, accepted>>
  BY <1>2, SilentStep
<1>3. ASSUME NEW n \in 0..Len(data), NEW told \in Seq(Notices),
             wire' = wire \o SubSeq(data, 1, n),
             outputBuffer' = outputBuffer \o From(data, n + 1),
             pending' = pending \o told
      PROVE  FilesOnce'
  <2>1. SubSeq(data, 1, n) \in Seq(TextBytes) /\ From(data, n + 1) \in Seq(TextBytes)
    BY Cut
  <2>2. outputBuffer' \in Seq(TextBytes)
    BY <1>3, <2>1, ConcatProperties DEF FilesOnce
  <2>3. told \in Seq(Functors)
    BY NoticesAreFunctors
  <2>4. NoRounds(told)
    <3>1. \A i \in 1..Len(told) : told[i] \in Notices
      BY LenProperties
    <3> QED
      BY <3>1 DEF NoRounds, Notices
  <2> QED
    BY <1>3, <2>1, <2>2, <2>3, <2>4, TextStep
<1> QED
  BY <1>1, <1>2, <1>3, SendInLoopMeans

\* sendFileInLoop() for a file that nothing else carries.
LEMMA SendRound ==
  ASSUME Shapes, FilesOnce, UNCHANGED <<outputBuffer, pc>>, unsent' \subseteq unsent,
         NEW f \in Files, NEW o \in Nat, NEW count \in Nat, SendFileInLoop(f, o, count),
         f \notin unsent', \A u \in Users : pc[u] # f, Reached(wire, f, o),
         \/ batch' = batch /\ NoRound(Queued, f)
         \/ batch # << >> /\ batch' = Tail(batch) /\ NoRound(Tail(Queued), f)
  PROVE  FilesOnce'
<1>1. CASE UNCHANGED <<pending, wire, accepted>>
  BY <1>1, SilentStep
<1>2. ASSUME NEW n \in Nat, NEW h \in Functors, FileRound(f, o, count, n, h)
      PROVE  FilesOnce'
  <2>1. /\ n > 0 => o + n <= FileSize[f]
        /\ wire' = wire \o Bytes(f, o + 1, o + n)
        /\ pending' = Append(pending, h)
        /\ h.op = "sendFileInLoop" => h.file = f /\ h.offset = o + n
    BY <1>2 DEF FileRound, Notices
  <2>2. <<h>> \in Seq(Functors) /\ pending' = pending \o <<h>>
    BY <2>1, AppendIsConcat DEF Shapes
  <2>3. PICK r \in Seq(Functors) : /\ KeepsRounds(Queued, r) /\ NoRound(r, f)
                                   /\ Queued' = r \o <<h>>
    <3>1. /\ Queued \in Seq(Functors)
          /\ batch' = batch => Queued' = Queued \o <<h>>
          /\ batch # << >> /\ batch' = Tail(batch) =>
               Queued # << >> /\ Queued' = Tail(Queued) \o <<h>>
      BY <2>2, QueuedIs
    <3>2. << >> \in Seq(Functors) /\ NoRounds(<< >>)
      BY EmptySeq DEF NoRounds
    <3>3. KeepsRounds(Queued, Queued)
      BY <3>1, <3>2, RoundsKept, ConcatEmptySeq
    <3>4. Queued # << >> => Tail(Queued) \in Seq(Functors) /\ KeepsRounds(Queued, Tail(Queued))
      <4> SUFFICES ASSUME Queued # << >>
                   PROVE  Tail(Queued) \in Seq(Functors) /\ KeepsRounds(Queued, Tail(Queued))
        OBVIOUS
      <4>1. Tail(Queued) \in Seq(Functors)
        BY <3>1, HeadTailProperties
      <4>2. Tail(Queued) \o << >> = Tail(Queued)
        BY <4>1, ConcatEmptySeq
      <4>3. KeepsRounds(Queued, Tail(Queued) \o << >>)
        BY <3>1, <3>2, RoundsKept
      <4> QED
        BY <4>1, <4>2, <4>3
    <3> QED
      BY <3>1, <3>3, <3>4
  <2>4. Queued \in Seq(Functors)
    BY <2>2, QueuedIs
  <2>5. \A u \in Users : pc'[u] # f /\ (pc'[u] \in Files => pc'[u] = pc[u])
    OBVIOUS
  <2> QED
    BY <2>1, <2>3, <2>4, <2>5, RoundKeeps
<1> QED
  BY <1>1, <1>2, SendFileInLoopMeans
\* Users off the loop.
LEMMA UserFiles ==
  ASSUME IInv, FilesOnce, NEW u \in Users, UserNext(u)
  PROVE  FilesOnce'
<1>1. Shapes /\ pc \in [Users -> {"idle", "shutdown", "disconnecting"} \cup Messages \cup Files]
  BY DEF IInv, Shapes
<1>2. {"idle", "shutdown", "disconnecting"} \cap Files = {} /\ Messages \cap Files = {}
  BY TcpConnectionAssumption
<1>3. ASSUME NEW x, x \notin Files, pc' = [pc EXCEPT ![u] = x]
      PROVE  \A v \in Users : pc'[v] \in Files => pc'[v] = pc[v]
  BY <1>1, <1>3
<1>4. ASSUME NEW x \in Messages \cup Files, SendCheck(u, x)
      PROVE  FilesOnce'
  <2>1. /\ pc' = [pc EXCEPT ![u] = x] /\ x \in unsent /\ unsent' = unsent \ {x}
        /\ UNCHANGED <<wire, outputBuffer, pending, batch>>
    BY <1>4 DEF SendCheck, conn, loop, world, kernel
  <2>2. CASE x \in Messages
    <3>1. x \notin Files
      BY <1>2, <2>2
    <3> QED
      BY <1>1, <1>3, <2>1, <3>1, SilentStep
  <2>3. CASE x \in Files
    <3>1. Queued' = Queued
      BY <2>1 DEF Queued
    <3>2. NoByte(wire, x) /\ NoRound(Queued, x) /\ \A v \in Users : pc[v] # x
      BY <2>1, <2>3 DEF FilesOnce
    <3>3. \A f \in Files \cap unsent' :
            NoByte(wire, f) /\ NoRound(Queued, f) /\ \A v \in Users : pc'[v] # f
      <4> TAKE f \in Files \cap unsent'
      <4>1. f \in Files \cap unsent /\ f # x
        BY <2>1
      <4>2. NoByte(wire, f) /\ NoRound(Queued, f) /\ \A v \in Users : pc[v] # f
        BY <4>1 DEF FilesOnce
      <4> QED
        BY <1>1, <2>1, <4>1, <4>2
    <3>4. ASSUME NEW v \in Users, pc'[v] \in Files
          PROVE  /\ NoByte(wire, pc'[v]) /\ NoRound(Queued, pc'[v])
                 /\ \A w \in Users : pc'[w] = pc'[v] => w = v
      <4>1. CASE v = u
        <5>1. pc'[v] = x /\ \A w \in Users \ {u} : pc'[w] = pc[w]
          BY <1>1, <2>1, <4>1
        <5> QED
          BY <3>2, <4>1, <5>1
      <4>2. CASE v # u
        <5>1. pc'[v] = pc[v] /\ pc'[u] = x /\ \A w \in Users \ {u} : pc'[w] = pc[w]
          BY <1>1, <2>1, <4>2
        <5>2. /\ NoByte(wire, pc[v]) /\ NoRound(Queued, pc[v])
              /\ \A w \in Users : pc[w] = pc[v] => w = v
          BY <3>4, <5>1 DEF FilesOnce
        <5> QED
          BY <3>2, <5>1, <5>2
      <4> QED
        BY <4>1, <4>2
    <3> QED
      BY <2>1, <3>1, <3>3, <3>4 DEF FilesOnce
  <2> QED
    BY <2>2, <2>3
<1>5. CASE SendPost(u)
  <2>1. /\ pc' = [pc EXCEPT ![u] = "idle"]
        /\ UNCHANGED <<wire, outputBuffer, unsent, batch>>
        /\ pending' = Append(pending, [op |-> "sendInLoop", data |-> pc[u], by |-> u])
    BY <1>5 DEF SendPost, conn, loop, world, kernel
  <2>2. [op |-> "sendInLoop", data |-> pc[u], by |-> u] \in Functors
    BY <1>5, FunctorsAre DEF SendPost
  <2> DEFINE g == [op |-> "sendInLoop", data |-> pc[u], by |-> u]
  <2>3. g \in Functors /\ g.op # "sendFileInLoop" /\ pending' = Append(pending, g)
    BY <2>1, <2>2
  <2> HIDE DEF g
  <2>4. \A v \in Users : pc'[v] \in Files => pc'[v] = pc[v]
    BY <1>2, <1>3, <2>1
  <2> QED
    BY <1>1, <2>1, <2>3, <2>4, SilentStep
<1>6. CASE SendFilePost(u)
  <2> DEFINE f == pc[u]
             h == [op |-> "sendFileInLoop", file |-> f, offset |-> 0, count |-> Count[f]]
  <2>1. /\ f \in Files /\ pc' = [pc EXCEPT ![u] = "idle"]
        /\ UNCHANGED <<wire, outputBuffer, unsent, batch>>
        /\ pending' = Append(pending, h)
    BY <1>6 DEF SendFilePost, conn, loop, world, kernel
  <2>2. h \in Functors /\ h.file = f /\ h.offset = 0
    BY <2>1, FunctorsAre, TcpConnectionAssumption
  <2>3. NoByte(wire, f) /\ NoRound(Queued, f) /\ \A v \in Users : pc[v] = f => v = u
    BY <2>1 DEF FilesOnce
  <2>4. f \notin unsent
    BY <2>1 DEF FilesOnce
  <2>5. (\A v \in Users : pc'[v] \in Files => pc'[v] = pc[v]) /\ \A v \in Users : pc'[v] # f
    <3>1. \A v \in Users : pc'[v] \in Files => pc'[v] = pc[v]
      BY <1>2, <1>3, <2>1
    <3>2. pc'[u] # f
      BY <1>1, <1>2, <2>1
    <3>3. \A v \in Users \ {u} : pc'[v] # f
      BY <1>1, <2>1, <2>3
    <3> QED
      BY <3>1, <3>2, <3>3
  <2> HIDE DEF f, h
  <2>6. <<h>> \in Seq(Functors) /\ pending' = pending \o <<h>>
    BY <1>1, <2>1, <2>2, AppendIsConcat DEF Shapes
  <2>7. Queued \in Seq(Functors) /\ Queued' = Queued \o <<h>>
    BY <1>1, <2>1, <2>6, QueuedIs
  <2>8. KeepsRounds(Queued, Queued)
    <3>1. << >> \in Seq(Functors) /\ NoRounds(<< >>) /\ Queued \o << >> = Queued
      BY <2>7, EmptySeq, ConcatEmptySeq DEF NoRounds
    <3> QED
      BY <2>7, <3>1, RoundsKept
  <2>9. PICK none \in Nat : none = 0
    OBVIOUS
  <2>10. Reached(wire, f, none)
    BY <2>3, <2>9 DEF Reached, NoByte
  <2>11. wire' = wire \o Bytes(f, none + 1, none + none)
    <3>1. Bytes(f, none + 1, none + none) = << >>
      BY <2>1, <2>9, NextBytes
    <3> QED
      BY <1>1, <2>1, <3>1, ConcatEmptySeq DEF Shapes
  <2>12. /\ none > 0 => none + none <= FileSize[f]
         /\ h.op = "sendFileInLoop" => h.file = f /\ h.offset = none + none
         /\ f \notin unsent'
    BY <2>1, <2>2, <2>4, <2>9
  <2> QED
    BY <1>1, <2>1, <2>2, <2>5, <2>7, <2>8, <2>9, <2>10, <2>11, <2>12, <2>3, RoundKeeps
<1>7. CASE ShutdownCheck(u) \/ ShutdownSet(u)
  <2>1. /\ \E x \in {"shutdown", "disconnecting"} : pc' = [pc EXCEPT ![u] = x]
        /\ UNCHANGED <<wire, outputBuffer, unsent, batch, pending>>
    BY <1>7 DEF ShutdownCheck, ShutdownSet, conn, loop, world, kernel
  <2>2. \A v \in Users : pc'[v] \in Files => pc'[v] = pc[v]
    BY <1>2, <1>3, <2>1
  <2> QED
    BY <1>1, <2>1, <2>2, SilentStep
<1>8. CASE ShutdownPost(u)
  <2> DEFINE g == [op |-> "shutdownInLoop", by |-> u]
  <2>1. /\ pc' = [pc EXCEPT ![u] = "idle"]
        /\ UNCHANGED <<wire, outputBuffer, unsent, batch>>
        /\ pending' = Append(pending, g)
    BY <1>8 DEF ShutdownPost, conn, loop, world, kernel
  <2>2. g \in Functors /\ g.op # "sendFileInLoop"
    BY FunctorsAre
  <2> HIDE DEF g
  <2>3. \A v \in Users : pc'[v] \in Files => pc'[v] = pc[v]
    BY <1>2, <1>3, <2>1
  <2> QED
    BY <1>1, <2>1, <2>2, <2>3, SilentStep
<1>9. CASE Release(u)
  BY <1>1, <1>9, SilentStep DEF Release, conn, loop, world, kernel
<1> QED
  BY <1>4, <1>5, <1>6, <1>7, <1>8, <1>9 DEF UserNext, UserFinishes
\* What surrounds the connection, the poll, and the handlers that write nothing.
LEMMA SilentFiles ==
  ASSUME IInv, FilesOnce,
         \/ Environment \/ Poll \/ EventHup \/ EventError \/ EventRead \/ EndBatch
         \/ LoopShutdown
  PROVE  FilesOnce'
<1>1. Shapes
  BY DEF IInv
<1>2. CASE Environment
  <2>1. UNCHANGED <<wire, outputBuffer, unsent, pc, batch>>
    BY <1>2 DEF Environment, FreeString, ServerRemoves, ServerDestroyed, Ack, PeerSends,
                PeerCloses, PeerResets, conn, loop, world, kernel, users
  <2>2. pending' = pending \/ QueueDestroyed
    BY <1>2 DEF Environment, FreeString, ServerRemoves, ServerDestroyed, Ack, PeerSends,
                PeerCloses, PeerResets
  <2>3. \/ pending' = pending
        \/ \E g \in Functors : g.op # "sendFileInLoop" /\ pending' = Append(pending, g)
    BY <2>2, FunctorsAre DEF QueueDestroyed
  <2> QED
    BY <1>1, <2>1, <2>3, SilentStep
<1>3. CASE EventHup \/ EventError \/ EventRead
  <2>1. UNCHANGED <<wire, outputBuffer, pending, unsent, pc, batch>>
    BY <1>3 DEF EventHup, EventError, EventRead, Dispatch, conn, kernel, users
  <2> QED
    BY <1>1, <2>1, SilentStep
<1>4. CASE Poll \/ EndBatch \/ LoopShutdown
  <2>1. UNCHANGED <<wire, outputBuffer, pending, unsent, pc, batch>>
    BY <1>4 DEF Poll, EndBatch, LoopShutdown, conn, loop, world, kernel, users
  <2> QED
    BY <1>1, <2>1, SilentStep
<1> QED
  BY <1>2, <1>3, <1>4

\* The swap: the queue as a whole stays.
LEMMA SwapFiles ==
  ASSUME IInv, FilesOnce, SwapFunctors
  PROVE  FilesOnce'
<1>1. batch = << >> /\ batch' = pending /\ pending' = << >>
  BY DEF SwapFunctors, IInv, UpFirst
<1>2. pending \in Seq(Functors)
  BY DEF IInv, Shapes
<1>3. Queued' = Queued
  BY <1>1, <1>2, ConcatEmptySeq DEF Queued
<1>4. UNCHANGED <<wire, outputBuffer, unsent, pc>>
  BY DEF SwapFunctors, conn, world, kernel, users
<1> QED
  BY <1>3, <1>4 DEF FilesOnce

\* handleWrite(): the buffer holds text only.
LEMMA EventWriteFiles ==
  ASSUME IInv, FilesOnce, EventWrite
  PROVE  FilesOnce'
<1>1. Shapes /\ UNCHANGED <<unsent, pc, batch>>
  BY DEF EventWrite, Dispatch, IInv, users
<1>2. CASE UNCHANGED <<channel, outputBuffer, pending, kernel>>
  BY <1>1, <1>2, SilentStep DEF kernel
<1>3. CASE DrainOutput(Lesser(space, Len(outputBuffer)))
  <2> DEFINE n == Lesser(space, Len(outputBuffer))
  <2>1. /\ wire' = wire \o SubSeq(outputBuffer, 1, n)
        /\ outputBuffer' = From(outputBuffer, n + 1)
        /\ pending' = pending \/ pending' = Append(pending, [op |-> "writeComplete"])
    BY <1>3 DEF DrainOutput
  <2>2. n \in 0..Len(outputBuffer)
    <3>1. space \in Nat /\ Len(outputBuffer) \in Nat
      BY <1>1, LenProperties, TcpConnectionAssumption DEF Shapes
    <3> QED
      BY <3>1 DEF Lesser
  <2> HIDE DEF n
  <2>3. SubSeq(outputBuffer, 1, n) \in Seq(TextBytes) /\ outputBuffer' \in Seq(TextBytes)
    BY <2>1, <2>2, Cut DEF FilesOnce
  <2>4. \E t \in Seq(Functors) : NoRounds(t) /\ pending' = pending \o t
    <3>1. pending \in Seq(Functors)
      BY <1>1 DEF Shapes
    <3>2. CASE pending' = pending
      <4>1. << >> \in Seq(Functors) /\ NoRounds(<< >>) /\ pending \o << >> = pending
        BY <3>1, EmptySeq, ConcatEmptySeq DEF NoRounds
      <4> QED
        BY <3>2, <4>1
    <3>3. CASE pending' = Append(pending, [op |-> "writeComplete"])
      <4> DEFINE g == [op |-> "writeComplete"]
      <4>1. g \in Functors /\ NoRounds(<<g>>)
        BY FunctorsAre DEF NoRounds
      <4> HIDE DEF g
      <4>2. <<g>> \in Seq(Functors) /\ pending' = pending \o <<g>>
        BY <3>1, <3>3, <4>1, AppendIsConcat DEF g
      <4> QED
        BY <4>1, <4>2
    <3> QED
      BY <2>1, <3>2, <3>3
  <2> QED
    BY <1>1, <2>1, <2>3, <2>4, TextStep
<1> QED
  BY <1>2, <1>3 DEF EventWrite

\* The functors.
LEMMA FunctorsFiles ==
  ASSUME IInv, FilesOnce,
         \/ RunConnectEstablished \/ RunConnectDestroyed \/ RunShutdownInLoop
         \/ RunUserCallback \/ RunSendInLoop \/ RunSendFileInLoop
  PROVE  FilesOnce'
<1>1. Shapes
  BY DEF IInv
<1>2. ASSUME NEW op, RunNext(op)
      PROVE  /\ batch # << >> /\ batch' = Tail(batch)
             /\ Head(batch) \in Functors /\ Head(batch).op = op
  BY <1>2, RunNextMeans DEF RunNext
<1>3. CASE RunConnectEstablished \/ RunConnectDestroyed \/ RunShutdownInLoop \/ RunUserCallback
  <2>1. batch # << >> /\ batch' = Tail(batch)
    BY <1>2, <1>3
       DEF RunConnectEstablished, RunConnectDestroyed, RunShutdownInLoop, RunUserCallback
  <2>2. UNCHANGED <<wire, outputBuffer, pending, unsent, pc>>
    BY <1>3 DEF RunConnectEstablished, RunConnectDestroyed, RunShutdownInLoop, RunUserCallback,
                conn, kernel, users
  <2> QED
    BY <1>1, <2>1, <2>2, SilentStep
<1>4. CASE RunSendInLoop
  <2>1. /\ batch # << >> /\ batch' = Tail(batch)
        /\ Head(batch) \in Functors /\ Head(batch).op = "sendInLoop"
    BY <1>2, <1>4 DEF RunSendInLoop
  <2> DEFINE data == Contents(Head(batch).data)
  <2>2. data \in Seq(TextBytes)
    BY <2>1, MessagesAreText, FunctorFields
  <2>3. SendInLoop(data) /\ UNCHANGED <<unsent, pc>>
    BY <1>4 DEF RunSendInLoop, users
  <2> HIDE DEF data
  <2> QED
    BY <1>1, <2>1, <2>2, <2>3, SendText
<1>5. CASE RunSendFileInLoop
  <2> DEFINE f == Head(batch).file
             o == Head(batch).offset
             count == Head(batch).count
  <2>1. /\ batch # << >> /\ batch' = Tail(batch)
        /\ Head(batch) \in Functors /\ Head(batch).op = "sendFileInLoop"
    BY <1>2, <1>5 DEF RunSendFileInLoop
  <2>2. SendFileInLoop(f, o, count) /\ UNCHANGED <<outputBuffer, unsent, pc>>
    BY <1>5 DEF RunSendFileInLoop, conn, users
  <2>3. f \in Files /\ o \in Nat /\ count \in Nat
    BY <2>1, FunctorFields
  <2>4. /\ Queued \in Seq(Functors) /\ Queued # << >> /\ Head(Queued) = Head(batch)
        /\ Len(Queued) \in Nat \ {0} /\ Head(Queued) = Queued[1]
        /\ Len(Tail(Queued)) = Len(Queued) - 1
        /\ \A i \in 1..Len(Tail(Queued)) : Tail(Queued)[i] = Queued[i + 1]
    <3>1. batch \in Seq(Functors) /\ pending \in Seq(Functors)
      BY <1>1 DEF Shapes
    <3>2. Queued \in Seq(Functors) /\ Queued # << >> /\ Head(Queued) = Head(batch)
      BY <2>1, <3>1, HeadOfSplitQueue, ConcatProperties DEF Queued
    <3> QED
      BY <3>2, HeadTailProperties, EmptySeq
  <2>5. IsRound(Queued[1], f) /\ Queued[1].offset = o
    BY <2>1, <2>4 DEF IsRound
  <2> HIDE DEF f, o, count
  <2>6. 1 \in 1..Len(Queued)
    BY <2>4
  <2>7. Reached(wire, f, o) /\ \A j \in 1..Len(Queued) : IsRound(Queued[j], f) => j = 1
    BY <2>3, <2>5, <2>6 DEF FilesOnce
  <2>8. f \notin unsent /\ \A u \in Users : pc[u] # f
    BY <2>3, <2>5, <2>6 DEF FilesOnce, NoRound
  <2>9. NoRound(Tail(Queued), f)
    <3> SUFFICES ASSUME NEW i \in 1..Len(Tail(Queued)), IsRound(Tail(Queued)[i], f)
                 PROVE  FALSE
      BY DEF NoRound
    <3>1. i + 1 \in 1..Len(Queued) /\ IsRound(Queued[i + 1], f)
      BY <2>4
    <3>2. i + 1 = 1
      BY <2>7, <3>1
    <3> QED
      BY <3>2
  <2> QED
    BY <1>1, <2>1, <2>2, <2>3, <2>7, <2>8, <2>9, SendRound
<1> QED
  BY <1>3, <1>4, <1>5

\* User code on the loop thread.
LEMMA LoopUserFiles ==
  ASSUME IInv, FilesOnce, LoopUser
  PROVE  FilesOnce'
<1>1. Shapes
  BY DEF IInv
<1>2. ASSUME NEW m \in Messages, LoopSend(m)
      PROVE  FilesOnce'
  <2> DEFINE data == Bytes(m, 1, Size[m])
  <2>1. data \in Seq(TextBytes)
    BY MessagesAreText
  <2>2. SendInLoop(data) /\ unsent' \subseteq unsent /\ UNCHANGED <<pc, batch>>
    BY <1>2 DEF LoopSend, loop
  <2> HIDE DEF data
  <2> QED
    BY <1>1, <2>1, <2>2, SendText
<1>3. ASSUME NEW f \in Files, LoopSendFile(f)
      PROVE  FilesOnce'
  <2>1. 0 \in Nat /\ Count[f] \in Nat
    BY TcpConnectionAssumption
  <2>2. /\ SendFileInLoop(f, 0, Count[f]) /\ f \in unsent /\ unsent' = unsent \ {f}
        /\ UNCHANGED <<outputBuffer, pc, batch>>
    BY <1>3 DEF LoopSendFile, conn, loop
  <2>3. NoByte(wire, f) /\ NoRound(Queued, f) /\ \A u \in Users : pc[u] # f
    BY <2>2 DEF FilesOnce
  <2>4. Reached(wire, f, 0)
    BY <2>3 DEF Reached, NoByte
  <2>5. f \notin unsent' /\ unsent' \subseteq unsent
    BY <2>2
  <2> QED
    BY <1>1, <2>1, <2>2, <2>3, <2>4, <2>5, SendRound
<1>4. CASE LoopShutdown
  BY <1>4, SilentFiles
<1> QED
  BY <1>2, <1>3, <1>4 DEF LoopUser

LEMMA InitFiles == Init => FilesOnce
<1> SUFFICES ASSUME Init
             PROVE  FilesOnce
  OBVIOUS
<1>1. wire = << >> /\ outputBuffer = << >> /\ Queued = << [op |-> "connectEstablished"] >>
  <2>1. batch = << >> /\ pending = << [op |-> "connectEstablished"] >> /\ pending \in Seq(Functors)
    BY FunctorsAre DEF Init
  <2> QED
    BY <2>1, ConcatEmptySeq DEF Init, Queued
<1>2. InOrder(wire) /\ WithinFiles(wire) /\ \A f \in Files : NoByte(wire, f)
  BY <1>1 DEF InOrder, WithinFiles, NoByte
<1>3. \A f \in Files : NoRound(Queued, f)
  BY <1>1 DEF NoRound, IsRound
<1>4. \A u \in Users : pc[u] = "idle" /\ "idle" \notin Files
  BY TcpConnectionAssumption DEF Init
<1>5. outputBuffer \in Seq(TextBytes)
  BY <1>1, EmptySeq
<1> QED
  BY <1>2, <1>3, <1>4, <1>5 DEF FilesOnce, NoRound

LEMMA NextFiles == IInv /\ FilesOnce /\ [Next]_vars => FilesOnce'
<1>1. ASSUME IInv, FilesOnce, Next
      PROVE  FilesOnce'
  <2>1. LoopStep => FilesOnce'
    BY <1>1, SilentFiles, SwapFiles, EventWriteFiles, FunctorsFiles DEF LoopStep
  <2> QED
    BY <1>1, <2>1, LoopUserFiles, UserFiles, SilentFiles DEF Next
<1>2. ASSUME FilesOnce, UNCHANGED vars
      PROVE  FilesOnce'
  <2>1. UNCHANGED <<wire, outputBuffer, unsent, pc>> /\ Queued' = Queued
    BY <1>2 DEF vars, conn, loop, world, kernel, users, Queued
  <2> QED
    BY <1>2, <2>1 DEF FilesOnce
<1> QED
  BY <1>1, <1>2

LEMMA FilesInvariance == Spec => [](IInv /\ FilesOnce)
BY InitInvariant, InitFiles, NextInvariant, NextFiles, PTL DEF Spec

\* However often sendFileInLoop() queues itself again, and whatever is sent in between, the
\* kernel gets a file from its first byte on, with no gap and no byte twice.
THEOREM FilesKeepOrder == Spec => []FileBytesInOrder
<1>1. FilesOnce => FileBytesInOrder
  BY DEF FilesOnce, InOrder, FileBytesInOrder
<1> QED
  BY <1>1, FilesInvariance, PTL

\* sendFile() sends no byte beyond "count" as long as the file has none: the rounds never
\* pass the end of the file (what they pass is "count", when the file goes on behind it).
THEOREM WholeFileWithinCount ==
  ASSUME \A f \in Files : FileSize[f] <= Count[f]
  PROVE  Spec => []FileWithinCount
<1>1. IInv /\ FilesOnce => FileWithinCount
  <2> SUFFICES ASSUME IInv, FilesOnce, NEW f \in Files
               PROVE  Cardinality({i \in 1..Len(wire) : wire[i][1] = f}) <= Count[f]
    BY DEF FileWithinCount
  <2> DEFINE sent == {i \in 1..Len(wire) : wire[i][1] = f}
             position == [i \in sent |-> wire[i][2]]
  <2>1. FileSize[f] \in Nat /\ Count[f] \in Nat /\ FileSize[f] <= Count[f]
    BY TcpConnectionAssumption
  <2>2. wire \in Seq(AllBytes) /\ \A i \in 1..Len(wire) : wire[i] \in AllBytes
    BY LenProperties DEF IInv, Shapes
  <2>3. position \in [sent -> 1..FileSize[f]]
    BY DEF FilesOnce, WithinFiles
  <2>4. ASSUME NEW i \in sent, NEW j \in sent, position[i] = position[j]
        PROVE  i = j
    <3>1. wire[i][1] = f /\ wire[j][1] = f /\ wire[i][2] = wire[j][2]
      BY <2>4
    <3>2. wire[i] \in AllBytes /\ wire[j] \in AllBytes
      BY <2>2
    <3>3. wire[i] = wire[j]
      BY <3>1, <3>2 DEF AllBytes
    <3> QED
      BY <3>1, <3>3 DEF FilesOnce, InOrder
  <2>5. position \in Injection(sent, 1..FileSize[f])
    BY <2>3, <2>4 DEF Injection, IsInjective
  <2>6. IsFiniteSet(1..FileSize[f]) /\ Cardinality(1..FileSize[f]) = FileSize[f]
    <3>1. ASSUME NEW n \in Nat
          PROVE  IsFiniteSet(1..n) /\ Cardinality(1..n) = n
      <4>1. 1 \in Int /\ n \in Int
        OBVIOUS
      <4>2. IsFiniteSet(1..n) /\ Cardinality(1..n) = IF 1 > n THEN 0 ELSE n - 1 + 1
        BY <4>1, FS_Interval
      <4> QED
        BY <4>2
    <3> QED
      BY <2>1, <3>1
  <2> HIDE DEF sent, position
  <2>7. Cardinality(sent) <= Cardinality(1..FileSize[f])
    BY <2>5, <2>6, FS_Injection
  <2>8. IsFiniteSet(sent)
    BY <2>5, <2>6, FS_Injection
  <2>9. Cardinality(sent) \in Nat
    BY <2>8, FS_CardinalityType
  <2>10. Cardinality(sent) <= Count[f]
    BY <2>1, <2>6, <2>7, <2>9
  <2> QED
    BY <2>10 DEF sent
<1> QED
  BY <1>1, FilesInvariance, PTL
-----------------------------------------------------------------------------
\* The raw pointer to the connection, when users keep theirs until their functors have run.

ByUser(q, u) == \E i \in 1..Len(q) : q[i].op \in Raw /\ q[i].by = u

\* Whoever is inside a call, or has a functor waiting that is bound to a raw "this", holds a
\* TcpConnectionPtr.
PointersHeld ==
  \A u \in Users : pc[u] # "idle" \/ ByUser(pending, u) \/ ByUser(batch, u) => u \in refs

LEMMA ByUserGrows ==
  ASSUME NEW q \in Seq(Functors), NEW t \in Seq(Functors), NEW u, ByUser(q \o t, u)
  PROVE  ByUser(q, u) \/ ByUser(t, u)
<1>1. PICK i \in 1..Len(q \o t) : (q \o t)[i].op \in Raw /\ (q \o t)[i].by = u
  BY DEF ByUser
<1>2. \/ i \in 1..Len(q) /\ (q \o t)[i] = q[i]
      \/ i - Len(q) \in 1..Len(t) /\ (q \o t)[i] = t[i - Len(q)]
  BY Elements
<1> QED
  BY <1>1, <1>2 DEF ByUser

LEMMA ByUserShrinks ==
  ASSUME NEW q \in Seq(Functors), q # << >>, NEW u, ByUser(Tail(q), u)
  PROVE  ByUser(q, u)
<1>1. /\ Len(Tail(q)) = Len(q) - 1 /\ Len(q) \in Nat
      /\ \A i \in 1..Len(Tail(q)) : Tail(q)[i] = q[i + 1]
  BY HeadTailProperties, EmptySeq
<1>2. PICK i \in 1..Len(Tail(q)) : Tail(q)[i].op \in Raw /\ Tail(q)[i].by = u
  BY DEF ByUser
<1>3. i + 1 \in 1..Len(q) /\ q[i + 1] = Tail(q)[i]
  BY <1>1
<1> QED
  BY <1>2, <1>3 DEF ByUser

\* A step at which nobody lets go: who posts a raw functor, or is inside a call, has the
\* pointer.
LEMMA HeldKept ==
  ASSUME Shapes, PointersHeld, NEW t \in Seq(Functors), pending' = pending \o t,
         batch' = batch \/ (batch # << >> /\ batch' = Tail(batch)),
         refs \subseteq refs',
         \A u \in Users : pc'[u] # "idle" \/ ByUser(t, u) => pc[u] # "idle" \/ u \in refs'
  PROVE  PointersHeld'
<1> SUFFICES ASSUME NEW u \in Users,
                    pc'[u] # "idle" \/ ByUser(pending', u) \/ ByUser(batch', u)
             PROVE  u \in refs'
  BY DEF PointersHeld
<1>1. pending \in Seq(Functors) /\ batch \in Seq(Functors)
  BY DEF Shapes
<1>2. pc[u] # "idle" \/ ByUser(pending, u) \/ ByUser(batch, u) => u \in refs'
  BY DEF PointersHeld
<1>3. ByUser(pending', u) => ByUser(pending, u) \/ ByUser(t, u)
  BY <1>1, ByUserGrows
<1>4. ByUser(batch', u) => ByUser(batch, u)
  BY <1>1, ByUserShrinks
<1> QED
  BY <1>2, <1>3, <1>4

\* A step that posts no raw functor and leaves the users alone.
LEMMA HeldQuiet ==
  ASSUME Shapes, PointersHeld, refs \subseteq refs', UNCHANGED pc,
         batch' = batch \/ (batch # << >> /\ batch' = Tail(batch)),
         \/ pending' = pending
         \/ \E g \in Functors : g.op \notin Raw /\ pending' = Append(pending, g)
         \/ \E t \in Seq(Notices) : pending' = pending \o t
  PROVE  PointersHeld'
<1>1. pending \in Seq(Functors)
  BY DEF Shapes
<1>2. PICK t \in Seq(Functors) :
        pending' = pending \o t /\ \A i \in 1..Len(t) : t[i].op \notin Raw
  <2>1. CASE pending' = pending
    <3> DEFINE none == << >>
    <3>1. none \in Seq(Functors) /\ pending \o none = pending /\ Len(none) = 0
      BY <1>1, EmptySeq, ConcatEmptySeq
    <3> HIDE DEF none
    <3>2. \A i \in 1..Len(none) : none[i].op \notin Raw
      BY <3>1
    <3> QED
      BY <2>1, <3>1, <3>2
  <2>2. ASSUME NEW g \in Functors, g.op \notin Raw, pending' = Append(pending, g)
        PROVE  \E t \in Seq(Functors) :
                 pending' = pending \o t /\ \A i \in 1..Len(t) : t[i].op \notin Raw
    <3>1. <<g>> \in Seq(Functors) /\ pending' = pending \o <<g>>
      BY <1>1, <2>2, AppendIsConcat
    <3>2. \A i \in 1..Len(<<g>>) : <<g>>[i].op \notin Raw
      BY <2>2
    <3> QED
      BY <3>1, <3>2
  <2>3. ASSUME NEW t \in Seq(Notices), pending' = pending \o t
        PROVE  t \in Seq(Functors) /\ \A i \in 1..Len(t) : t[i].op \notin Raw
    <3>1. \A i \in 1..Len(t) : t[i] \in Notices
      BY LenProperties
    <3>2. \A i \in 1..Len(t) : t[i].op \notin Raw
      BY <3>1 DEF Notices, Raw
    <3> QED
      BY <3>2, NoticesAreFunctors
  <2> QED
    BY <2>1, <2>2, <2>3
<1>3. \A u \in Users : ~ByUser(t, u)
  BY <1>2 DEF ByUser
<1> QED
  BY <1>2, <1>3, HeldKept

\* Users off the loop: each posts while it holds the pointer, and lets it go only when it has
\* nothing waiting.
LEMMA UserHeld ==
  ASSUME KeepsPointer, IInv, PointersHeld, NEW u \in Users, UserNext(u)
  PROVE  PointersHeld'
<1>1. Shapes /\ pc \in [Users -> {"idle", "shutdown", "disconnecting"} \cup Messages \cup Files]
  BY DEF IInv, Shapes
<1>2. \A v \in Users : pc[v] # "idle" => v \in refs
  BY DEF PointersHeld
<1>3. ASSUME NEW g \in Functors, g.by = u, pc[u] # "idle", pc' = [pc EXCEPT ![u] = "idle"],
             pending' = Append(pending, g), UNCHANGED <<refs, batch>>
      PROVE  PointersHeld'
  <2>1. <<g>> \in Seq(Functors) /\ pending' = pending \o <<g>>
    BY <1>1, <1>3, AppendIsConcat DEF Shapes
  <2>2. \A v \in Users : ByUser(<<g>>, v) => v = u
    BY <1>3 DEF ByUser
  <2>3. \A v \in Users : pc'[v] # "idle" => pc[v] # "idle"
    BY <1>1, <1>3
  <2>4. \A v \in Users : pc'[v] # "idle" \/ ByUser(<<g>>, v) => pc[v] # "idle" \/ v \in refs'
    BY <1>3, <2>2, <2>3
  <2> QED
    BY <1>1, <1>3, <2>1, <2>4, HeldKept
<1>4. CASE SendPost(u)
  <2> DEFINE g == [op |-> "sendInLoop", data |-> pc[u], by |-> u]
  <2>1. /\ pc[u] \in Messages /\ pc' = [pc EXCEPT ![u] = "idle"]
        /\ pending' = Append(pending, g) /\ UNCHANGED <<refs, batch>>
    BY <1>4 DEF SendPost, loop
  <2>2. g \in Functors /\ g.by = u
    BY <2>1, FunctorsAre
  <2>3. pc[u] # "idle"
    BY <2>1, TcpConnectionAssumption
  <2> HIDE DEF g
  <2> QED
    BY <1>3, <2>1, <2>2, <2>3
<1>5. CASE ShutdownPost(u)
  <2> DEFINE g == [op |-> "shutdownInLoop", by |-> u]
  <2>1. /\ pc[u] # "idle" /\ pc' = [pc EXCEPT ![u] = "idle"]
        /\ pending' = Append(pending, g) /\ UNCHANGED <<refs, batch>>
    BY <1>5 DEF ShutdownPost, loop
  <2>2. g \in Functors /\ g.by = u
    BY FunctorsAre
  <2> HIDE DEF g
  <2> QED
    BY <1>3, <2>1, <2>2
<1>6. CASE SendFilePost(u)
  <2> DEFINE g == [op |-> "sendFileInLoop", file |-> pc[u], offset |-> 0, count |-> Count[pc[u]]]
  <2>1. /\ pc[u] \in Files /\ pc' = [pc EXCEPT ![u] = "idle"]
        /\ pending' = Append(pending, g) /\ UNCHANGED <<refs, batch>>
    BY <1>6 DEF SendFilePost, loop
  <2>2. g \in Functors /\ g.op = "sendFileInLoop"
    BY <2>1, FunctorsAre, TcpConnectionAssumption
  <2> HIDE DEF g
  <2>3. <<g>> \in Seq(Functors) /\ pending' = pending \o <<g>>
    BY <1>1, <2>1, <2>2, AppendIsConcat DEF Shapes
  <2>4. \A v \in Users : ~ByUser(<<g>>, v)
    BY <2>2 DEF ByUser, Raw
  <2>5. \A v \in Users : pc'[v] # "idle" => pc[v] # "idle"
    BY <1>1, <2>1
  <2> QED
    BY <1>1, <2>1, <2>3, <2>4, <2>5, HeldKept
<1>7. ASSUME u \in refs, UNCHANGED <<refs, batch, pending>>,
             NEW x, pc' = [pc EXCEPT ![u] = x]
      PROVE  PointersHeld'
  <2>1. \A v \in Users : pc'[v] # "idle" => pc[v] # "idle" \/ v = u
    BY <1>1, <1>7
  <2>2. << >> \in Seq(Functors) /\ pending' = pending \o << >> /\ \A v \in Users : ~ByUser(<< >>, v)
    BY <1>1, <1>7, EmptySeq, ConcatEmptySeq DEF Shapes, ByUser
  <2> QED
    BY <1>1, <1>7, <2>1, <2>2, HeldKept
<1>8. ASSUME NEW x \in Messages \cup Files, SendCheck(u, x)
      PROVE  PointersHeld'
  BY <1>7, <1>8 DEF SendCheck, loop
<1>9. CASE ShutdownCheck(u) \/ ShutdownSet(u)
  BY <1>2, <1>7, <1>9 DEF ShutdownCheck, ShutdownSet, loop
<1>10. CASE Release(u)
  <2>1. /\ pc[u] = "idle" /\ ~Posted(u) /\ refs' = refs \ {u}
        /\ UNCHANGED <<pc, pending, batch>>
    BY <1>10 DEF Release, loop
  <2>2. ~ByUser(pending, u) /\ ~ByUser(batch, u)
    BY <2>1 DEF Posted, ByUser
  <2> QED
    BY <2>1, <2>2 DEF PointersHeld
<1> QED
  BY <1>4, <1>5, <1>6, <1>8, <1>9, <1>10 DEF UserNext, UserFinishes
\* The loop thread and what surrounds the connection: nobody else posts a raw functor.
LEMMA OthersHeld ==
  ASSUME IInv, PointersHeld, LoopStep \/ LoopUser \/ Environment
  PROVE  PointersHeld'
<1>1. Shapes
  BY DEF IInv
<1>2. ASSUME NEW op, RunNext(op)
      PROVE  /\ batch # << >> /\ batch' = Tail(batch)
             /\ Head(batch) \in Functors /\ Head(batch).op = op
  BY <1>2, RunNextMeans DEF RunNext
\* sendInLoop() and sendFileInLoop(), whoever calls them.
<1>3. ASSUME NEW data \in Seq(AllBytes), SendInLoop(data), UNCHANGED <<refs, pc>>,
             batch' = batch \/ (batch # << >> /\ batch' = Tail(batch))
      PROVE  PointersHeld'
  <2>1. pending' = pending \/ \E t \in Seq(Notices) : pending' = pending \o t
    BY <1>1, <1>3, SendInLoopMeans
  <2> QED
    BY <1>1, <1>3, <2>1, HeldQuiet
<1>4. ASSUME NEW f \in Files, NEW o \in Nat, NEW count \in Nat, SendFileInLoop(f, o, count),
             UNCHANGED <<refs, pc>>,
             batch' = batch \/ (batch # << >> /\ batch' = Tail(batch))
      PROVE  PointersHeld'
  <2>1. ASSUME NEW n \in Nat, NEW g \in Functors, FileRound(f, o, count, n, g)
        PROVE  g.op \notin Raw /\ pending' = Append(pending, g)
    BY <2>1 DEF FileRound, Notices, Raw
  <2>2. CASE UNCHANGED <<pending, wire, accepted>>
    BY <1>1, <1>4, <2>2, HeldQuiet
  <2>3. ASSUME NEW n \in Nat, NEW g \in Functors, FileRound(f, o, count, n, g)
        PROVE  PointersHeld'
    BY <1>1, <1>4, <2>1, <2>3, HeldQuiet
  <2> QED
    BY <1>1, <1>4, <2>2, <2>3, SendFileInLoopMeans
<1>5. CASE Environment
  <2>1. UNCHANGED <<refs, pc, batch>>
    BY <1>5 DEF Environment, FreeString, ServerRemoves, ServerDestroyed, Ack, PeerSends,
                PeerCloses, PeerResets, loop, users
  <2>2. pending' = pending \/ QueueDestroyed
    BY <1>5 DEF Environment, FreeString, ServerRemoves, ServerDestroyed, Ack, PeerSends,
                PeerCloses, PeerResets
  <2>3. \/ pending' = pending
        \/ \E g \in Functors : g.op \notin Raw /\ pending' = Append(pending, g)
    BY <2>2, FunctorsAre DEF QueueDestroyed, Raw
  <2> QED
    BY <1>1, <2>1, <2>3, HeldQuiet
<1>6. CASE Poll \/ EventHup \/ EventError \/ EventRead \/ EndBatch \/ LoopShutdown
  <2>1. UNCHANGED <<refs, pc, batch, pending>>
    BY <1>6 DEF Poll, EventHup, EventError, EventRead, EndBatch, LoopShutdown, Dispatch, conn,
                loop, world, users
  <2> QED
    BY <1>1, <2>1, HeldQuiet
<1>7. CASE EventWrite
  <2>1. UNCHANGED <<refs, pc, batch>>
    BY <1>7 DEF EventWrite, Dispatch, users
  <2>2. pending' = pending \/ pending' = Append(pending, [op |-> "writeComplete"])
    BY <1>7 DEF EventWrite, DrainOutput
  <2>3. \/ pending' = pending
        \/ \E g \in Functors : g.op \notin Raw /\ pending' = Append(pending, g)
    BY <2>2, FunctorsAre DEF Raw
  <2> QED
    BY <1>1, <2>1, <2>3, HeldQuiet
<1>8. CASE SwapFunctors
  <2>1. batch' = pending /\ pending' = << >> /\ UNCHANGED <<refs, pc>>
    BY <1>8 DEF SwapFunctors, users
  <2>2. \A u \in Users : ~ByUser(<< >>, u)
    BY DEF ByUser
  <2> QED
    BY <2>1, <2>2 DEF PointersHeld
<1>9. CASE RunConnectEstablished
  <2>1. refs' = Users
    BY <1>9 DEF RunConnectEstablished
  <2> QED
    BY <2>1 DEF PointersHeld
<1>10. CASE RunConnectDestroyed \/ RunShutdownInLoop \/ RunUserCallback
  <2>1. batch # << >> /\ batch' = Tail(batch)
    BY <1>2, <1>10 DEF RunConnectDestroyed, RunShutdownInLoop, RunUserCallback
  <2>2. UNCHANGED <<refs, pc, pending>>
    BY <1>10 DEF RunConnectDestroyed, RunShutdownInLoop, RunUserCallback, users
  <2> QED
    BY <1>1, <2>1, <2>2, HeldQuiet
<1>11. CASE RunSendInLoop
  <2>1. /\ batch # << >> /\ batch' = Tail(batch)
        /\ Head(batch) \in Functors /\ Head(batch).op = "sendInLoop"
    BY <1>2, <1>11 DEF RunSendInLoop
  <2> DEFINE data == Contents(Head(batch).data)
  <2>2. data \in Seq(AllBytes)
    BY <2>1, ContentsAreBytes, FunctorFields
  <2>3. SendInLoop(data) /\ UNCHANGED <<refs, pc>>
    BY <1>11 DEF RunSendInLoop, users
  <2> HIDE DEF data
  <2> QED
    BY <1>3, <2>1, <2>2, <2>3
<1>12. CASE RunSendFileInLoop
  <2>1. /\ batch # << >> /\ batch' = Tail(batch)
        /\ Head(batch) \in Functors /\ Head(batch).op = "sendFileInLoop"
    BY <1>2, <1>12 DEF RunSendFileInLoop
  <2>2. /\ SendFileInLoop(Head(batch).file, Head(batch).offset, Head(batch).count)
        /\ UNCHANGED <<refs, pc>>
    BY <1>12 DEF RunSendFileInLoop, users
  <2>3. Head(batch).file \in Files /\ Head(batch).offset \in Nat /\ Head(batch).count \in Nat
    BY <2>1, FunctorFields
  <2> QED
    BY <1>4, <2>1, <2>2, <2>3
<1>13. ASSUME NEW m \in Messages, LoopSend(m)
       PROVE  PointersHeld'
  <2> DEFINE data == Bytes(m, 1, Size[m])
  <2>1. data \in Seq(AllBytes)
    BY MessagesAreBytes
  <2>2. SendInLoop(data) /\ UNCHANGED <<refs, pc, batch>>
    BY <1>13 DEF LoopSend, loop
  <2> HIDE DEF data
  <2> QED
    BY <1>3, <2>1, <2>2
<1>14. ASSUME NEW f \in Files, LoopSendFile(f)
       PROVE  PointersHeld'
  <2>1. 0 \in Nat /\ Count[f] \in Nat
    BY TcpConnectionAssumption
  <2>2. SendFileInLoop(f, 0, Count[f]) /\ UNCHANGED <<refs, pc, batch>>
    BY <1>14 DEF LoopSendFile, loop
  <2> QED
    BY <1>4, <2>1, <2>2
<1> QED
  BY <1>5, <1>6, <1>7, <1>8, <1>9, <1>10, <1>11, <1>12, <1>13, <1>14 DEF LoopStep, LoopUser

LEMMA InitHeld == Init => PointersHeld
<1> SUFFICES ASSUME Init
             PROVE  PointersHeld
  OBVIOUS
<1>1. \A u \in Users : pc[u] = "idle"
  BY DEF Init
<1>2. \A u : ~ByUser(pending, u) /\ ~ByUser(batch, u)
  BY DEF Init, ByUser, Raw
<1> QED
  BY <1>1, <1>2 DEF PointersHeld

LEMMA NextHeld ==
  ASSUME KeepsPointer
  PROVE  IInv /\ PointersHeld /\ [Next]_vars => PointersHeld'
<1>1. ASSUME IInv, PointersHeld, Next
      PROVE  PointersHeld'
  BY <1>1, UserHeld, OthersHeld DEF Next
<1>2. ASSUME PointersHeld, UNCHANGED vars
      PROVE  PointersHeld'
  BY <1>2 DEF PointersHeld, ByUser, vars, loop, users
<1> QED
  BY <1>1, <1>2

\* RawPointersValid fails in two ways, a TcpConnection that is gone and a string that is.
\* The first cannot happen when each user keeps its TcpConnectionPtr until what it posted
\* has run: the raw "this" of sendInLoop() and shutdownInLoop() is then that of a connection
\* that exists.
THEOREM KeptPointersHold ==
  ASSUME KeepsPointer
  PROVE  Spec => [](freed = {} => RawPointersValid)
<1>1. IInv /\ PointersHeld => (freed = {} => RawPointersValid)
  <2> SUFFICES ASSUME IInv, PointersHeld, freed = {}, batch # << >>, Head(batch).op \in Raw
               PROVE  Alive
    BY DEF RawPointersValid
  <2>1. /\ batch \in Seq(Functors) /\ Head(batch) \in Functors
        /\ 1 \in 1..Len(batch) /\ Head(batch) = batch[1]
    <3>1. batch \in Seq(Functors)
      BY DEF IInv, Shapes
    <3>2. Head(batch) \in Functors /\ Len(batch) \in Nat \ {0}
      BY <3>1, HeadTailProperties, EmptySeq
    <3> QED
      BY <3>1, <3>2
  <2>2. Head(batch).by \in Users
    BY <2>1 DEF Functors, Raw
  <2>3. ByUser(batch, Head(batch).by)
    BY <2>1 DEF ByUser
  <2>4. Head(batch).by \in refs
    BY <2>2, <2>3 DEF PointersHeld
  <2> QED
    BY <2>4 DEF Alive
<1> QED
  BY <1>1, InitInvariant, InitHeld, NextInvariant, NextHeld, PTL DEF Spec
==============================================================================
