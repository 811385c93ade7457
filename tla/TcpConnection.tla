---------------------------- MODULE TcpConnection ----------------------------
(***************************************************************************)
(* One TcpConnection on its I/O loop: the loop thread that runs its        *)
(* handlers and functors, threads that call send(), sendFile() and         *)
(* shutdown() from outside, the TcpServer that owns it on another loop,    *)
(* and the kernel's socket with its peer.                                  *)
(*                                                                         *)
(* The I/O loop is what module EventLoop implements: a FIFO of functors    *)
(* run in batches between two polls (its wakeups are not repeated here).   *)
(* A handler is one step: other threads see only state_, which a handler   *)
(* reads or writes once.  send() and shutdown() off the loop thread test   *)
(* state_ first and act later: those are separate steps.                   *)
(*                                                                         *)
(* A byte is <<source, position>>: only order, loss and duplication count. *)
(***************************************************************************)
EXTENDS Naturals, Sequences, FiniteSets

CONSTANTS
  Senders,        \* threads off the loop that call send() and sendFile()
  Closers,        \* threads off the loop that call shutdown()
  Messages,       \* the strings passed to send(), each at most once
  Size,           \* Size[m]: bytes in m
  Files,          \* files passed to sendFile(fd, 0, Count[f]), each at most once
  Count,          \* Count[f]: bytes asked for
  FileSize,       \* FileSize[f]: bytes the file has
  SndBuf,         \* room in the kernel's send buffer
  HighWaterMark,  \* highWaterMark_
  KeepsPointer    \* TRUE: a user keeps its TcpConnectionPtr until the functor it
                  \* posted has run

Users == Senders \cup Closers

ASSUME TcpConnectionAssumption ==
  /\ Size \in [Messages -> Nat \ {0}]
  /\ Count \in [Files -> Nat \ {0}] /\ FileSize \in [Files -> Nat]
  /\ SndBuf \in Nat \ {0} /\ HighWaterMark \in Nat \ {0}
  /\ KeepsPointer \in BOOLEAN
  /\ {"idle", "shutdown", "disconnecting", "garbage"} \cap (Messages \cup Files) = {}
  /\ Messages \cap Files = {}

VARIABLES
  state,          \* state_
  events, index,  \* channel_'s events_ and index_ (see module Poller)
  outputBuffer,   \* outputBuffer_
  pending,        \* the I/O loop's pendingFunctors_
  batch,          \* functors of the batch not run yet
  held,           \* the batch holds a shared_ptr to the connection until it ends
  loopPc,         \* "poll", "handle" or "run"
  revents,        \* channel_'s revents_ not dispatched yet
  space,          \* free room in the kernel's send buffer
  shutWr,         \* shutdownWrite() was called
  peer,           \* "open", "fin" (it shut its side) or "reset"
  inbound,        \* there is data to read
  sockErr,        \* SO_ERROR is set
  inMap,          \* connections_ holds the connection
  closing,        \* removeConnectionInLoop functors waiting on the base loop
  serverGone,     \* ~TcpServer ran (the base loop had stopped)
  pc,             \* where each user is: "idle", inside send or sendFile (what it sends),
                  \* inside shutdown
  refs,           \* users that hold a TcpConnectionPtr
  freed,          \* messages whose string no longer exists
  \* What the properties remember of the past.
  unsent,         \* messages and files nobody has passed to send()/sendFile() yet
  wire,           \* every byte the kernel took
  accepted,       \* bytes sendInLoop() took charge of
  ups, downs,     \* calls of connectionCallback_, connected and disconnected
  destroyed       \* connectDestroyed() ran

channel == <<events, index>>
conn    == <<state, channel, outputBuffer>>
loop    == <<batch, held, loopPc, revents>>
kernel  == <<space, shutWr, wire>>
network == <<peer, inbound, sockErr>>
server  == <<inMap, closing, serverGone>>
users   == <<pc, refs, freed, unsent>>
life    == <<ups, downs, destroyed>>
history == <<accepted, life>>
world   == <<kernel, network, server>>
vars == <<conn, pending, loop, world, users, history>>

Lesser(a, b) == IF a <= b THEN a ELSE b
Bytes(x, from, to) == [i \in 1..(to - from + 1) |-> <<x, from + i - 1>>]
From(s, n) == SubSeq(s, n, Len(s))

\* sendInLoop and shutdownInLoop are bound to a raw "this"; the other functors hold
\* a TcpConnectionPtr.
Raw == {"sendInLoop", "shutdownInLoop"}
Holds(functors) == \E i \in 1..Len(functors) : functors[i].op \notin Raw

\* Some shared_ptr to the connection exists.
Alive == inMap \/ closing > 0 \/ refs # {} \/ held \/ Holds(pending) \/ Holds(batch)

\* The functors a user posted that have not run yet.
Posted(u) ==
  \E s \in {pending, batch} : \E i \in 1..Len(s) : s[i].op \in Raw /\ s[i].by = u

Init ==
  /\ state = "kConnecting"
  /\ events = {} /\ index = "kNew"
  /\ outputBuffer = << >>
  /\ pending = << [op |-> "connectEstablished"] >>
  /\ batch = << >> /\ held = FALSE /\ loopPc = "poll" /\ revents = {}
  /\ space = SndBuf /\ shutWr = FALSE /\ wire = << >>
  /\ peer = "open" /\ inbound = FALSE /\ sockErr = FALSE
  /\ inMap = TRUE /\ closing = 0 /\ serverGone = FALSE
  /\ pc = [u \in Users |-> "idle"]
  /\ refs = {} /\ freed = {}
  /\ unsent = Messages \cup Files
  /\ accepted = << >>
  /\ ups = 0 /\ downs = 0 /\ destroyed = FALSE

-----------------------------------------------------------------------------
\* Helpers of the handlers.

\* Channel::update through EPollPoller::updateChannel.
Update(ev) ==
  /\ events' = ev
  /\ index' = IF index = "kAdded" /\ ev = {} THEN "kDeleted" ELSE "kAdded"

\* Mutant of Direct: outputBuffer_ is not looked at.
OvertakingDirect == "write" \notin events \/ space > 0

\* Bytes may be written at once: nothing is waiting in front of them.
Direct == "write" \notin events /\ outputBuffer = << >>

\* The kernel refuses every byte: EPIPE or ECONNRESET.
Broken == shutWr \/ peer = "reset"

Crosses(oldLen, newLen) == oldLen < HighWaterMark /\ newLen >= HighWaterMark

\* Mutant of Taken: a short write is mistaken for a whole one.
GreedyTaken(count) == IF Direct /\ ~Broken THEN count ELSE 0

\* What the kernel takes of "count" bytes; none is EWOULDBLOCK.
Taken(count) == IF Direct /\ ~Broken THEN Lesser(space, count) ELSE 0

\* Mutant of WatchOutput: EPOLLOUT is not asked for.
NoWatch(rest) == UNCHANGED channel

WatchOutput(rest) ==
  IF rest # << >> /\ "write" \notin events THEN Update(events \cup {"write"})
  ELSE UNCHANGED channel

SendInLoop(data) ==
  LET n == Taken(Len(data))
      rest == From(data, n + 1)
  IN  IF state = "kDisconnected" \/ (Direct /\ Broken)
      THEN UNCHANGED <<channel, outputBuffer, pending, space, wire, accepted>>
      ELSE /\ wire' = wire \o SubSeq(data, 1, n)
           /\ space' = space - n
           /\ outputBuffer' = outputBuffer \o rest
           /\ accepted' = accepted \o data
           /\ pending' = pending
                \o (IF rest = << >> THEN << [op |-> "writeComplete"] >> ELSE << >>)
                \o (IF rest # << >> /\ Crosses(Len(outputBuffer), Len(outputBuffer) + Len(rest))
                    THEN << [op |-> "highWaterMark"] >> ELSE << >>)
           /\ WatchOutput(rest)

\* Mutant of NextRound: the rest is queued with the old offset.
RewindingNextRound(f, offset, n, count) ==
  [op |-> "sendFileInLoop", file |-> f, offset |-> offset, count |-> count - n]

\* The unsent rest is queued again with the new offset and, as the code has it, the
\* whole of "count".
NextRound(f, offset, n, count) ==
  [op |-> "sendFileInLoop", file |-> f, offset |-> offset + n, count |-> count]

SendFileInLoop(f, offset, count) ==
  LET avail == IF offset < FileSize[f] THEN FileSize[f] - offset ELSE 0
      n == Lesser(Taken(count), avail)
  IN  IF state = "kDisconnected" \/ (Direct /\ Broken)
      THEN UNCHANGED <<pending, space, wire, accepted>>
      ELSE /\ wire' = wire \o Bytes(f, offset + 1, offset + n)
           /\ accepted' = accepted \o Bytes(f, offset + 1, offset + n)
           /\ space' = space - n
           /\ pending' = Append(pending, IF n = count THEN [op |-> "writeComplete"]
                                         ELSE NextRound(f, offset, n, count))

\* Mutant of ShutdownInLoop: the write side is shut at once.
HastyShutdownInLoop == shutWr' = TRUE

ShutdownInLoop == shutWr' = (shutWr \/ "write" \notin events)

HandleClose ==
  /\ state' = "kDisconnected"
  /\ Update({})
  /\ downs' = downs + 1
  /\ closing' = closing + 1

-----------------------------------------------------------------------------
\* The loop thread: poll(), handleEvent(), doPendingFunctors().

Ready ==
  (IF inbound \/ peer # "open" THEN {"IN"} ELSE {})
    \cup (IF space > 0 \/ Broken THEN {"OUT"} ELSE {})

\* Level-triggered; EPOLLHUP and EPOLLERR need not be asked for.
Reported ==
  IF index # "kAdded" THEN {}
  ELSE (Ready \cap ((IF "read" \in events THEN {"IN"} ELSE {})
                      \cup (IF "write" \in events THEN {"OUT"} ELSE {})))
         \cup (IF peer = "reset" \/ (peer = "fin" /\ shutWr) THEN {"HUP"} ELSE {})
         \cup (IF sockErr THEN {"ERR"} ELSE {})

Poll ==
  /\ loopPc = "poll"
  /\ Reported # {} \/ pending # << >>
  /\ revents' = Reported
  /\ loopPc' = "handle"
  /\ UNCHANGED <<conn, pending, batch, held, world, users, history>>

\* Every handler runs under the guard handleEvent() locked from tie_.
Dispatch(bit, earlier) ==
  /\ bit \in revents
  /\ revents \cap earlier = {}
  /\ Alive
  /\ revents' = revents \ {bit}
  /\ UNCHANGED <<batch, held, loopPc, users>>

\* EPOLLHUP counts only without EPOLLIN.
EventHup ==
  /\ Dispatch("HUP", {})
  /\ IF "IN" \in revents
     THEN UNCHANGED <<state, channel, closing, downs>>
     ELSE HandleClose
  /\ UNCHANGED <<outputBuffer, pending, kernel, network, inMap, serverGone, accepted, ups,
                 destroyed>>

\* handleError: getsockopt(SO_ERROR) clears the error.
EventError ==
  /\ Dispatch("ERR", {"HUP"})
  /\ sockErr' = FALSE
  /\ UNCHANGED <<conn, pending, kernel, peer, inbound, server, history>>

\* handleRead: data, an error (which handleError clears), or the end of the stream.
EventRead ==
  /\ Dispatch("IN", {"HUP", "ERR"})
  /\ \/ /\ inbound
        /\ inbound' = FALSE
        /\ UNCHANGED <<state, channel, sockErr, closing, downs>>
     \/ /\ ~inbound /\ sockErr
        /\ sockErr' = FALSE
        /\ UNCHANGED <<state, channel, inbound, closing, downs>>
     \/ /\ ~inbound /\ ~sockErr
        /\ HandleClose
        /\ UNCHANGED <<inbound, sockErr>>
  /\ UNCHANGED <<outputBuffer, pending, kernel, peer, inMap, serverGone, accepted, ups,
                 destroyed>>

\* Mutant of Drained: state_ is not looked at when the buffer empties.
ForgetfulDrained == UNCHANGED shutWr

Drained == shutWr' = (shutWr \/ state = "kDisconnecting")

\* The kernel took n bytes of outputBuffer_.
DrainOutput(n) ==
  /\ wire' = wire \o SubSeq(outputBuffer, 1, n)
  /\ space' = space - n
  /\ outputBuffer' = From(outputBuffer, n + 1)
  /\ IF n = Len(outputBuffer)
     THEN /\ Update(events \ {"write"})
          /\ pending' = Append(pending, [op |-> "writeComplete"])
          /\ Drained
     ELSE UNCHANGED <<channel, pending, shutWr>>

\* handleWrite; when the write fails, or nothing is being written, only a log line.
EventWrite ==
  /\ Dispatch("OUT", {"HUP", "ERR", "IN"})
  /\ IF "write" \in events /\ ~Broken /\ space > 0 /\ outputBuffer # << >>
     THEN DrainOutput(Lesser(space, Len(outputBuffer)))
     ELSE UNCHANGED <<channel, outputBuffer, pending, kernel>>
  /\ UNCHANGED <<state, network, server, history>>

\* doPendingFunctors: the swap, the functors, the end of the batch.
SwapFunctors ==
  /\ loopPc = "handle"
  /\ revents = {}
  /\ loopPc' = "run"
  /\ batch' = pending
  /\ held' = Holds(pending)
  /\ pending' = << >>
  /\ UNCHANGED <<conn, revents, world, users, history>>

RunNext(op) ==
  /\ loopPc = "run"
  /\ batch # << >>
  /\ Head(batch).op = op
  /\ batch' = Tail(batch)
  /\ UNCHANGED <<held, loopPc, revents, network, server>>

RunConnectEstablished ==
  /\ RunNext("connectEstablished")
  /\ state' = "kConnected"
  /\ Update(events \cup {"read"})
  /\ ups' = ups + 1
  /\ refs' = Users        \* the connection callback may hand them the pointer
  /\ UNCHANGED <<outputBuffer, pending, kernel, pc, freed, unsent, accepted, downs,
                 destroyed>>

\* Mutant of Remove: the channel stays in the poller.
NoRemove == UNCHANGED index

\* Channel::remove
Remove == index' = "kNew"

TellDown ==
  IF state = "kConnected" THEN state' = "kDisconnected" /\ events' = {} /\ downs' = downs + 1
  ELSE UNCHANGED <<state, events, downs>>

RunConnectDestroyed ==
  /\ RunNext("connectDestroyed")
  /\ destroyed' = TRUE
  /\ TellDown
  /\ Remove
  /\ UNCHANGED <<outputBuffer, pending, kernel, users, accepted, ups>>

\* The bytes behind buf.c_str() when the functor runs.
Contents(m) == IF m \in freed THEN Bytes("garbage", 1, Size[m]) ELSE Bytes(m, 1, Size[m])

RunSendInLoop ==
  /\ RunNext("sendInLoop")
  /\ SendInLoop(Contents(Head(batch).data))
  /\ UNCHANGED <<state, shutWr, users, life>>

RunSendFileInLoop ==
  /\ RunNext("sendFileInLoop")
  /\ SendFileInLoop(Head(batch).file, Head(batch).offset, Head(batch).count)
  /\ UNCHANGED <<conn, shutWr, users, life>>

RunShutdownInLoop ==
  /\ RunNext("shutdownInLoop")
  /\ ShutdownInLoop
  /\ UNCHANGED <<conn, pending, space, wire, users, history>>

\* The user's write-complete or high-water-mark callback (what it calls is a step of
\* its own below).
RunUserCallback ==
  /\ RunNext("writeComplete") \/ RunNext("highWaterMark")
  /\ UNCHANGED <<conn, pending, kernel, users, history>>

EndBatch ==
  /\ loopPc = "run"
  /\ batch = << >>
  /\ held' = FALSE
  /\ loopPc' = "poll"
  /\ UNCHANGED <<conn, pending, batch, revents, world, users, history>>

-----------------------------------------------------------------------------
\* User code on the loop thread (callbacks of this or another channel, functors).

InUserCode == loopPc \in {"handle", "run"} /\ ups > 0 /\ Alive

LoopSend(m) ==
  /\ InUserCode
  /\ m \in unsent
  /\ state = "kConnected"
  /\ SendInLoop(Bytes(m, 1, Size[m]))
  /\ unsent' = unsent \ {m}
  /\ UNCHANGED <<state, loop, shutWr, network, server, pc, refs, freed, life>>

LoopSendFile(f) ==
  /\ InUserCode
  /\ f \in unsent
  /\ state = "kConnected"
  /\ SendFileInLoop(f, 0, Count[f])
  /\ unsent' = unsent \ {f}
  /\ UNCHANGED <<conn, loop, shutWr, network, server, pc, refs, freed, life>>

MayShutDown == state = "kConnected"

LoopShutdown ==
  /\ InUserCode /\ MayShutDown
  /\ state' = "kDisconnecting"
  /\ ShutdownInLoop
  /\ UNCHANGED <<channel, outputBuffer, pending, loop, space, wire, network, server, users,
                 history>>

-----------------------------------------------------------------------------
\* Users on other threads.

\* send() and sendFile(): the test of state_, then the post of the functor.
SendCheck(u, x) ==
  /\ u \in Senders \cap refs
  /\ pc[u] = "idle"
  /\ x \in unsent
  /\ state = "kConnected"
  /\ pc' = [pc EXCEPT ![u] = x]
  /\ unsent' = unsent \ {x}
  /\ UNCHANGED <<conn, pending, loop, world, refs, freed, history>>

SendPost(u) ==
  /\ pc[u] \in Messages
  /\ pending' = Append(pending, [op |-> "sendInLoop", data |-> pc[u], by |-> u])
  /\ pc' = [pc EXCEPT ![u] = "idle"]
  /\ UNCHANGED <<conn, loop, world, refs, freed, unsent, history>>

SendFilePost(u) ==
  /\ pc[u] \in Files
  /\ pending' = Append(pending, [op |-> "sendFileInLoop", file |-> pc[u], offset |-> 0,
                                count |-> Count[pc[u]]])
  /\ pc' = [pc EXCEPT ![u] = "idle"]
  /\ UNCHANGED <<conn, loop, world, refs, freed, unsent, history>>

\* shutdown(): the test of state_, setState(kDisconnecting), the post of shutdownInLoop.
ShutdownCheck(u) ==
  /\ u \in Closers \cap refs /\ pc[u] = "idle"
  /\ MayShutDown
  /\ pc' = [pc EXCEPT ![u] = "shutdown"]
  /\ UNCHANGED <<conn, pending, loop, world, refs, freed, unsent, history>>

ShutdownSet(u) ==
  /\ pc[u] = "shutdown"
  /\ state' = "kDisconnecting"
  /\ pc' = [pc EXCEPT ![u] = "disconnecting"]
  /\ UNCHANGED <<channel, outputBuffer, pending, loop, world, refs, freed, unsent, history>>

ShutdownPost(u) ==
  /\ pc[u] = "disconnecting"
  /\ pending' = Append(pending, [op |-> "shutdownInLoop", by |-> u])
  /\ pc' = [pc EXCEPT ![u] = "idle"]
  /\ UNCHANGED <<conn, loop, world, refs, freed, unsent, history>>

\* A user lets go of its pointer.
Release(u) ==
  /\ u \in refs
  /\ pc[u] = "idle"
  /\ KeepsPointer => ~Posted(u)
  /\ refs' = refs \ {u}
  /\ UNCHANGED <<conn, pending, loop, world, pc, freed, unsent, history>>

\* A string is destroyed after send() has returned and before the functor runs (later it
\* makes no difference).
FreeString(m) ==
  /\ m \notin freed
  /\ \E s \in {pending, batch} : \E i \in 1..Len(s) :
       s[i].op = "sendInLoop" /\ s[i].data = m
  /\ freed' = freed \cup {m}
  /\ UNCHANGED <<conn, pending, loop, world, pc, refs, unsent, history>>

-----------------------------------------------------------------------------
\* The TcpServer, on the base loop.

\* Mutant of QueueDestroyed: the entry is erased, and that is all.
NoQueueDestroyed == UNCHANGED pending

QueueDestroyed == pending' = Append(pending, [op |-> "connectDestroyed"])

\* removeConnectionInLoop
ServerRemoves ==
  /\ closing > 0 /\ ~serverGone
  /\ closing' = closing - 1
  /\ inMap' = FALSE
  /\ QueueDestroyed
  /\ UNCHANGED <<conn, loop, kernel, network, serverGone, users, history>>

\* ~TcpServer, after the base loop has stopped.
ServerDestroyed ==
  /\ ~serverGone
  /\ serverGone' = TRUE
  /\ inMap' = FALSE
  /\ IF inMap THEN QueueDestroyed ELSE UNCHANGED pending
  /\ UNCHANGED <<conn, loop, kernel, network, closing, users, history>>

\* The peer and the kernel.
Ack ==
  /\ space < SndBuf
  /\ peer # "reset"
  /\ space' = space + 1
  /\ UNCHANGED <<conn, pending, loop, shutWr, wire, network, server, users, history>>

PeerSends ==
  /\ peer = "open" /\ ~inbound
  /\ inbound' = TRUE
  /\ UNCHANGED <<conn, pending, loop, kernel, peer, sockErr, server, users, history>>

PeerCloses ==
  /\ peer = "open"
  /\ peer' = "fin"
  /\ UNCHANGED <<conn, pending, loop, kernel, inbound, sockErr, server, users, history>>

PeerResets ==
  /\ peer # "reset"
  /\ peer' = "reset"
  /\ sockErr' = TRUE
  /\ UNCHANGED <<conn, pending, loop, kernel, inbound, server, users, history>>

-----------------------------------------------------------------------------
LoopStep ==
  \/ Poll
  \/ EventHup \/ EventError \/ EventRead \/ EventWrite
  \/ SwapFunctors
  \/ RunConnectEstablished \/ RunConnectDestroyed
  \/ RunSendInLoop \/ RunSendFileInLoop \/ RunShutdownInLoop \/ RunUserCallback
  \/ EndBatch

LoopUser ==
  \/ \E m \in Messages : LoopSend(m)
  \/ \E f \in Files : LoopSendFile(f)
  \/ LoopShutdown

UserFinishes(u) == SendPost(u) \/ SendFilePost(u) \/ ShutdownSet(u) \/ ShutdownPost(u)

UserNext(u) ==
  \/ \E x \in Messages \cup Files : SendCheck(u, x)
  \/ ShutdownCheck(u)
  \/ UserFinishes(u)
  \/ Release(u)

Environment ==
  \/ \E m \in Messages : FreeString(m)
  \/ ServerRemoves \/ ServerDestroyed
  \/ Ack \/ PeerSends \/ PeerCloses \/ PeerResets

Next == LoopStep \/ LoopUser \/ (\E u \in Users : UserNext(u)) \/ Environment

Spec == Init /\ [][Next]_vars

\* The loop thread and the base loop run, a user finishes the call it is in, and the
\* peer acknowledges what it was sent.  Nobody is made to send, shut down or close.
FairSpec ==
  /\ Spec
  /\ WF_vars(LoopStep)
  /\ \A u \in Users : WF_vars(UserFinishes(u))
  /\ WF_vars(ServerRemoves)
  /\ WF_vars(Ack)

-----------------------------------------------------------------------------
States == {"kDisconnected", "kConnecting", "kConnected", "kDisconnecting"}
Ops == Raw \cup {"connectEstablished", "connectDestroyed", "sendFileInLoop",
                 "writeComplete", "highWaterMark"}

TypeOK ==
  /\ state \in States
  /\ events \in SUBSET {"read", "write"}
  /\ index \in {"kNew", "kAdded", "kDeleted"}
  /\ \A s \in {pending, batch} : \A i \in 1..Len(s) : s[i].op \in Ops
  /\ held \in BOOLEAN
  /\ loopPc \in {"poll", "handle", "run"}
  /\ revents \in SUBSET {"HUP", "ERR", "IN", "OUT"}
  /\ space \in 0..SndBuf
  /\ peer \in {"open", "fin", "reset"}
  /\ {shutWr, inbound, sockErr, inMap, serverGone, destroyed} \subseteq BOOLEAN
  /\ closing \in Nat
  /\ \A u \in Users : pc[u] \in {"idle", "shutdown", "disconnecting"} \cup Messages \cup Files
  /\ refs \in SUBSET Users /\ freed \in SUBSET Messages
  /\ ups \in Nat /\ downs \in Nat

\* What the kernel took and what is still buffered are the bytes sendInLoop took charge
\* of, in that order: partial writes, the buffer and the direct write that bypasses it
\* neither lose, repeat nor reorder a byte (sendInLoop, handleWrite).
OutputInOrder == wire \o outputBuffer = accepted

\* EPOLLOUT is watched exactly while there is something to write: no stuck output and no
\* busy loop, until the connection is closed (sendInLoop, handleWrite).
WritingIffBuffered ==
  (ups > 0 /\ downs = 0 /\ ~destroyed) => ("write" \in events <=> outputBuffer # << >>)

\* The write side is shut only when the buffered output has been handed to the kernel
\* (shutdownInLoop against handleWrite), as long as the connection lives.
HalfCloseAfterBuffer == (shutWr /\ downs = 0 /\ ~destroyed) => outputBuffer = << >>

\* What send() and shutdown() bind as raw pointers, "this" and buf.c_str(), is still there
\* when the functor runs (send, comments at TcpConnection.cc:181 and 184).
RawPointersValid ==
  (loopPc = "run" /\ batch # << >> /\ Head(batch).op \in Raw) =>
    /\ Alive
    /\ Head(batch).op = "sendInLoop" => Head(batch).data \notin freed

\* A channel that poll() returned belongs to a live connection until it is handled.
NoStaleChannel == revents # {} => Alive

\* Once connectDestroyed() ran, the poller watches the channel no more (connectDestroyed,
\* comment at TcpConnection.cc:351): whatever was queued before or after it.  It holds
\* when the connection is shut down on its own loop only; an off-loop shutdown() breaks it.
DestroyedMeansUnwatched == destroyed => index # "kAdded"

\* A file reaches the kernel from its first byte on, in order, with no gap and no byte
\* twice, however often sendFileInLoop() is queued again: each byte has its predecessor
\* somewhere before it, and is there once.
FileBytesInOrder ==
  \A i \in 1..Len(wire) : wire[i][1] \in Files =>
    /\ wire[i][2] = 1 \/ \E j \in 1..(i - 1) : wire[j] = <<wire[i][1], wire[i][2] - 1>>
    /\ \A j \in 1..Len(wire) : wire[j] = wire[i] => j = i

\* sendFile(fd, offset, count) sends no byte of the file beyond "count", in however many
\* rounds (sendFileInLoop: "remaining" is what is left to send).
FileWithinCount ==
  \A f \in Files : Cardinality({i \in 1..Len(wire) : wire[i][1] = f}) <= Count[f]

\* Buffered output reaches the kernel and shutdown() leads to the half-close behind it,
\* unless the connection ends first (handleWrite, shutdownInLoop).
OutputCompletes ==
  LET Ended == downs > 0 \/ destroyed IN
    /\ (outputBuffer # << >>) ~> (outputBuffer = << >> \/ Ended)
    /\ (state = "kDisconnecting") ~> (shutWr \/ Ended)

\* A connection the peer closed or reset is torn down completely.
CloseIsCleanedUp == (downs > 0 /\ ~serverGone) ~> (destroyed \/ serverGone)

\* The connection as a stream of bytes.
Stream == INSTANCE ByteStream WITH
            delivered  <- wire,
            halfClosed <- shutWr,
            over       <- downs > 0 \/ destroyed

\* sendInLoop(), sendFileInLoop(), handleWrite() and shutdownInLoop() together deliver a
\* prefix of what they accepted, half-close behind the last byte of it and transmit nothing
\* once the connection is down or destroyed (with shutdown() on the connection's own loop).
ImplementsByteStream == Stream!Spec
==============================================================================
