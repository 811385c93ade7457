# A TLA+ specification of ads_muduo

This directory specifies the network library of this repository (a C++11 rewrite of
muduo's core: one reactor per thread, TCP connections owned by a server and served by a
pool of I/O loops). TLC checks the specifications on small instances, TLAPS proves
theorems about each of the six modelled components for every value of their constants.
`PROJECT.json` lists the components, the runs with their properties, the source lines behind every
definition, the findings, the hazards and the theorems.

## Contents

1. [The system](#1-the-system)
2. [The modules](#2-the-modules)
3. [What each run checks](#3-what-each-run-checks)
4. [Fairness](#4-fairness)
5. [What is proved](#5-what-is-proved)
6. [What disagrees with the code's comments](#6-what-disagrees-with-the-codes-comments)
7. [What is not modelled](#7-what-is-not-modelled)
8. [Plan](#8-plan)
9. [Running the tools](#9-running-the-tools)

## 1. The system

| Component | State it keeps | Operations | Interacts with |
|---|---|---|---|
| `EventLoop` | `quit_`, `callingPendingFunctors_`, `pendingFunctors_` (under `mutex_`), `activeChannels_`, the eventfd | `loop`, `quit`, `wakeup`, `handleRead`, `runInLoop`, `queueInLoop`, `doPendingFunctors` | any thread posts functors to it; it polls its poller and calls its channels |
| `Poller`, `EPollPoller` | `channels_`, the list `events_`, the kernel's epoll set | `poll`, `updateChannel`, `removeChannel`, `hasChannel` | called by channels through their loop |
| `Channel` | `events_`, `revents_`, `index_`, `tie_` | `enable*`, `disable*`, `remove`, `handleEvent` | owned by `TcpConnection`, `Acceptor`, `EventLoop`; calls their handlers |
| `TcpConnection` | `state_`, `outputBuffer_`, `inputBuffer_`, its channel and socket | `send`, `sendFile`, `shutdown` (any thread), `handleRead/Write/Close/Error`, `connectEstablished/Destroyed`, the `...InLoop` functors | user callbacks, its loop, the server through `closeCallback_` |
| `TcpServer` | `connections_`, `nextConnId_`, `started_` | `start`, `newConnection`, `removeConnection(InLoop)`, destructor | acceptor, pool, connections on other loops |
| `Acceptor` | the listening socket and its channel | `listen`, `handleRead` | base loop, `TcpServer::newConnection` |
| `EventLoopThreadPool`, `EventLoopThread`, `Thread` | `loops_`, `threads_`, `next_`; `loop_`, `mutex_`, `cond_`; the thread | `start`, `getNextLoop`, destructors; `startLoop`, `threadFunc`; `start`, `join` | the main thread against every I/O thread |
| `Buffer` | one vector, `readerIndex_`, `writerIndex_` | `append`, `retrieve*`, `ensureWriteable`, `readFd`, `writeFd` | `TcpConnection` |
| `Socket`, `InetAddress`, `Timestamp`, `CurrentThread`, `Logger`, `ConsistenHash` | see section 7 | | |
| `ChatServer` (demo) | `clients_` | `onConnection`, `onMessage` | the callbacks of many connections on several loops |

What makes the code hard, and the property that each part lives by:

- **EventLoop.** Callers push functors and write the eventfd while the loop reads it,
  swaps the vector and goes back to `epoll_wait`. No functor may sleep for the ten
  seconds of the poll timeout, be lost, run twice or overtake another; `quit()` must
  interrupt the poll.
- **Poller.** Three records of who is watched (`index_`, `channels_`, the epoll set)
  must agree after any sequence of calls and any reuse of descriptors, and no raw
  pointer of `activeChannels_` may dangle.
- **TcpConnection.** Bytes are written directly or buffered; the half-close waits for
  the buffer; close, error, shutdown and destruction come in any order; other threads
  test `state_` and act on it later, with raw pointers.
- **Thread pool.** A loop's address is published by one thread, used and invalidated by
  others; construction, `quit()` and `join()` race with `loop()`.
- **TcpServer and Acceptor.** The table `connections_` belongs to the base loop, a
  connection's channel and callbacks to its I/O loop, and what one decides reaches the
  other as a functor. A registered channel must always have an owner who will take it out;
  each connection is reported up once and down at most once, and never after `~TcpServer`;
  nobody is lost to EMFILE; a loop that leaves on `quit()` drops functors.
- **Buffer.** Index arithmetic at the boundary between moving and growing.

## 2. The modules

`TaskQueue` — the abstract specification of what `queueInLoop` promises: a queue of
tasks that one executor starts in order, each exactly once, until it is closed; or
(`runInLoop` on the loop's own thread) runs on the spot. No eventfd, no poller.

`EventLoop` — the loop thread (`loopPc`: `init`, `check` = `while(!quit_)`, `poll`,
`handle`, `run`, `done`), other threads (`callerPc`), the shared vector and the eventfd
with its saturation (`EventfdMax` stands for 2^64 - 2). A critical section of `mutex_`
is a step. A caller's push and its `wakeup()` are two steps, so are `quit_ = true` and
its `wakeup()`. User code on the loop's own thread (`LoopQueueInLoop`, `LoopRunInLoop`,
`LoopQuit`) runs before `loop()`, inside a channel's callback and inside a functor; the
test `callingPendingFunctors_` decides whether it wakes the loop. `fresh`, `queued`,
`executed` and `preLoop` record the past for the properties. `ImplementsTaskQueue` maps
the local batch followed by the pending vector to the abstract queue.

`Poller` — channel objects and descriptors that are created, destroyed and reused,
`index_`, `events_`, `channels_`, and the kernel's epoll set with the `EEXIST` and
`ENOENT` outcomes of `epoll_ctl`. Every `enable*`/`disable*` is one action that includes
the whole of `Channel::update` → `EPollPoller::updateChannel` → `update`. The caller's
discipline (a channel is removed in a functor, and before it is destroyed) is what
`TcpServer::removeConnectionInLoop` and `connectDestroyed` do; the wakeup channel and
the acceptor's are removed in destructors, when their loop no longer walks
`activeChannels_`.

`TcpConnection` — one connection on its I/O loop: the handlers, the functors of a batch,
off-loop senders and closers, the owning server on the base loop, and the kernel's
socket (room in the send buffer, shut write side, the peer's FIN or RST, pending error).
A byte is `<<source, position>>`. The loop here is the FIFO that module EventLoop is
shown to implement. A handler is one step, because other threads see only `state_`, and
every handler reads or writes it once; what other threads do (`SendCheck`/`SendPost`,
`ShutdownCheck`/`ShutdownSet`/`ShutdownPost`) is split at each access. `Alive` says
whether a `shared_ptr` to the connection exists: in `connections_`, in a posted functor
that binds one, in a user's hands, or in the batch until it ends. With `KeepsPointer`
a user keeps its `TcpConnectionPtr` until the functor it posted has run; without, it may
drop it as soon as its call returns. A string that was sent may end its life as soon as
`send()` has returned (`FreeString`): the interface asks for neither.

`ByteStream` — the abstract specification of what a connection promises of the bytes it
accepts: the kernel gets a prefix of them and only ever more of it; the half-close comes
behind the last accepted byte; a connection that is over transmits nothing.
`ImplementsByteStream` maps `wire` to what is delivered, and a connection reported down
or destroyed to one that is over.

`ConnectionEvents` — the abstract specification of what a server promises the user's
connection callback: up once, then down at most once, nothing once the server is gone.

`TcpServer` — the composition: `start()` from any thread (`StartCall` is `fetch_add` on
`started_`, `StartPool`, `StartListening`), the acceptor's `handleRead()` with
`newConnection()` in it (`Accept`), the base loop and the I/O loops, each connection with
`state_`, its channel, its loop and its holders, and the end of `main()`: `loop()` returns,
`~TcpServer` goes through `connections_` (`DestroyConnection`), then the pool is quit and
joined thread by thread (`QuitThread`), the acceptor goes (`MembersDestroyed`), and last
the base `EventLoop` (`LoopDestroyed`). A loop handles ready channels (`handle`), then runs
the batch that `Swap` took (`run`), then tests `quit_`; that is what `EventLoop` is shown to
implement. `StartPool` ends when every I/O thread has published its loop (phase `entering`),
and each enters `loop()` in a step of its own (`BeginLoop`), which resets `quit_` as
`EnterLoop` does on the base loop: functors and the destructor's `quit()` may come before.
`exiting` keeps which I/O loops `~EventLoopThread` has quit; `QuitLost` says that one of
them has had its `quit_` erased. `fdLimit` is RLIMIT_NOFILE: without `Room`, `accept()` fails and changes nothing.
`Alive` says who keeps a connection's descriptor open: `connections_`, a queued functor, a
user (`held`). `told` and `cutOff` record the past. Of `TcpConnection` only what the server
can tell apart is left; which loop `getNextLoop()` picks is open (`EventLoopThreadPool` has
the round robin).

`EventLoopThreadPool` — the main thread's `start()`, `getNextLoop()` and destruction
against each I/O thread's `threadFunc()`. `loop_ != nullptr` and `loop_->quit()` are
read without the lock: the second load may be merged with the first or see null. A
condition variable may wake up spuriously.

`Buffer` — the vector, the two indexes, and bytes numbered in the order in which they
are handed in; `readFd` with `readv` into two parts. The member functions are TLA+
functions of the buffer, so that the actions and the lemmas share them.

`QueueLemmas`, `EventLoop_proofs`, `Poller_proofs`, `TcpConnection_proofs`,
`TcpStream_proofs`, `TcpServer_proofs`, `EventLoopThreadPool_proofs`, `Buffer_proofs` —
lemmas and theorems (section 5). `MCEventLoop`, `MCPoller`, `MCTcpConnection`,
`MCTcpServer` — the small sets the configurations use. The other two
modules take numbers as constants and need no MC module.

In each module, a definition whose comment begins with "Mutant of" is a plausible wrong
version of the definition below it, used to confirm that a property notices the error.
No specification uses it.

## 3. What each run checks

Runs that pass (all exhaustive):

| Run | Instance | Shows |
|---|---|---|
| `MCEventLoop` | 2 callers, 3 functors, eventfd saturates at 2 | no lost wakeup (`FunctorsWake`, `QuitWakes`), FIFO and exactly once (`QueueOrder`), refinement of `TaskQueue`; without the poll timeout, what was queued runs and `quit()` stops the loop (`PromptlyRun`, `QuitStops`); with it, every accepted task is started (`ImplementsLiveTaskQueue`) |
| `MCPoller` | 3 channels, 2 descriptors, event list of 1 | the three records agree, `epoll_ctl` never fails, active channels exist |
| `MCTcpConnection` | 1 sender thread and the loop, messages of 2 and 1 bytes, a file of 2, send buffer of 1, high-water mark 2 | output and file bytes in order, EPOLLOUT exactly when needed, refinement of `ByteStream` (half-close behind everything accepted, nothing after the end), teardown complete |
| `MCTcpShutdown` | 1 off-loop closer, sends on the loop | buffered output drains and `shutdown()` ends in the half-close (`OutputCompletes`); a closed connection is destroyed (`CloseIsCleanedUp`) |
| `MCTcpServer` | 2 clients, no or 1 I/O loop, 1 or 2 descriptors, `start()` called by `main` and by another thread | every registered channel has an owner (`RegisteredIsOwned`), refinement of `ConnectionEvents`, nobody up is forgotten at the end (`NobodyForgotten`), the backlog is served in spite of EMFILE, descriptors are given back (`DownIsReleased`), the destructor returns unless the I/O thread erases its `quit()` (`DestructionEnds`) |
| `MCThreadPool` | 3 threads, 4 connections, callbacks may quit their own loop | `start()` returns without spurious wakeups, loops handed out exist, a `quit()` after `loop()` began ends the thread without the timeout, no loop outlives its `EventLoopThread`, even load |
| `MCBuffer` | reserve 2, initial size 2, extrabuf 3, 8 bytes in all | indexes in order, contents exact |

Why the bounds are enough. Two callers make every race of two posts and of a post with a quit;
three functors let one be in the batch, one in the pending vector and one not posted yet; an
eventfd that saturates at two reaches the limit. Three channel objects on two descriptors reuse
both; an event list of one is full with the first event and doubles twice. A send buffer of one
is smaller than one message and as large as the other, so that full, partial and refused
writes, the crossing of the high-water mark and a file that takes two rounds occur in every
order; sends come from the loop and from another thread, and the two are what a write races
with. Three threads have a first, a middle and a last one; four connections wrap the round
robin. In `MCTcpServer` no I/O loop puts every connection on the base loop, one puts every one
on another thread, which are the two branches of `runInLoop`; two clients are two entries of
`connections_`, in any stages of their lives; one descriptor makes the second client meet
EMFILE, two let both be served at once. A second I/O loop would add that `~TcpServer` quits
loops in turn, which `MCThreadPool` has with three, and that the lost `quit()` of one loop
leaves the connections of the next ones where they are, for which `DownIsReleased` has its
exception. A buffer of four bytes meets each branch of
`makeSpace` and of `readFd` several times within eight bytes. The proofs of section 5 remove
these bounds for everything but liveness and the findings.

Bounds that exist only in the model: each functor, message and file is passed at most
once (`fresh`, `unsent`), each client connects once (`Clients`), `MaxThreads` and `MaxFds`
in `TcpServer`, `MaxCalls` calls of `getNextLoop()`, `MaxBytes` bytes and
`MaxReserve` in `Buffer`. `CHECK_DEADLOCK FALSE` is set where the system stops: a
destroyed connection, a destroyed pool, a `main()` that has ended, a buffer that has had
its bytes. The loop and
the poller are checked for deadlock.

`DestroyedMeansUnwatched` and `ImplementsByteStream` are checked with `Closers = {}`, that
is with `shutdown()` called on the connection's own loop. With an off-loop closer the first
is violated (`MCTcpSendUnwatched`), and the second is claimed of no such run.

`NobodyForgotten` names two kinds of connections that the code forgets: one that was
half-closed by `shutdown()`, of which `connectDestroyed()` tells nothing because `state_`
is no longer `kConnected`, and one whose `connectDestroyed` was still queued on an I/O loop
that left on `quit()` (`cutOff`). TLC finds both when the exceptions are taken out.

`DestructionEnds` has the exception `QuitLost`: when the base loop is quit between the
publication of an I/O loop's address and the `quit_ = false` of its `loop()`, the `quit()` of
`~EventLoopThread` may be erased and `join()` then never returns. Without the exception TLC
finds that trace; it is the one of `MCThreadPoolLostQuit`, seen from the server.

The runs with `expect: violation` are section 6.

## 4. Fairness

- `EventLoop!FairSpec`: weak fairness of the loop thread's own steps (the thread is
  scheduled, callbacks return) and of a caller's `wakeup()` once it has begun. Neither
  an I/O event nor the poll timeout is relied on. `ImplementsLiveTaskQueue` states the timeout
  (`kPollTimeMs` in `ads_EventLoop.cc`) and that the owner calls `loop()` as its premise.
- `TcpConnection!FairSpec`: the I/O loop and the base loop run, a user finishes the call
  it is in, and the peer acknowledges data (or resets). Nobody is made to send, to shut
  down or to close. That functors posted to a loop are run is what `EventLoop` shows.
  `OutputCompletes` accepts the end of the connection instead.
- `TcpServer!FairSpec`: every loop is scheduled and its callbacks return (a ready event is
  handled: the poll is level-triggered), an I/O thread that has published its loop enters
  `loop()`, a thread in `start()` finishes it, the main thread enters `loop()` and goes on
  when it returns. Nobody is made to call `start()`, to
  connect, to leave, to give up a pointer or to quit; `ClientsAreServed` therefore has
  `[]<>Room` as its premise.
- `EventLoopThreadPool!FairSpec`: every thread is scheduled. Spurious wakeups, I/O
  events and the poll timeout are left out of it; `TimedSpec` adds the timeout, so that
  the destructor that never returns (`MCThreadPoolLostQuit`) does so in spite of it.

No strong fairness is assumed anywhere.

## 5. What is proved

By TLAPS, for all values of the constants that satisfy the named assumptions:

**EventLoop** (`EventLoopAssumption`: the eventfd holds at least 1, `NoFunctor` is no
functor). `Typing`, `NoLostWakeup`, `NoSleepAfterQuit`, `QueueIsFifo`, `Refinement`.
`FunctorsWake` speaks of `poll` only and is not inductive: `IInv` widens it to every
position on the way to `epoll_wait` (`FunctorsStayAwake`) and adds what the position
says of the local variables (`LoopShape`). Between the return of `poll()` and the swap
the eventfd may be drained with functors pending; the swap takes them, and after it
either a caller is about to write or the test of `callingPendingFunctors_` has written.
`Refinement` maps each step to a step or stutter of `TaskQueue`: `RunFunctor` to
`StartOldest`, posts to `Post`, `runInLoop` on the loop's thread to `RunNow`, the end of
`loop()` to `Close`. `QueueLemmas` has the facts about appending and splitting sequences.

**Poller** (`PollerAssumption`). `Typing`, `KernelInStep`, `MapInStep`, `NoCtlError`,
`ActiveChannelsExist`. `IInv` adds that owners never share a descriptor, that the epoll
set holds nothing but channels marked `kAdded` under their own descriptors, and that
active channels exist and are not removed while they wait. One lemma covers every enable
and disable.

**TcpConnection** (`TcpConnectionAssumption`: messages are not empty, the send buffer and the
high-water mark are positive, `Count` of each file is positive, and the names are distinct: no
message is a file, and neither is mistaken for a position in the code or for the bytes of a
freed string). `Typing`, `BytesKeepOrder`, `OutputIsWatched`, `HalfCloseComesLast`: the last
three support each other, and `IInv` needs little more. The bytes keep their order because a
direct write happens only with an empty buffer; the half-close comes after the buffer because
`shutdownInLoop()` looks at EPOLLOUT and `WritingIffBuffered` makes that the same question, and
because a write behind a half-close then changes nothing. `UpFirst` is what the induction
starts from: `connectEstablished` is the first functor to run and runs once, and before it no
handler can. One lemma per output operation (`SendInLoopKeeps`, `SendFileInLoopKeeps`,
`DrainOutputKeeps`) says what it does to the bytes and the channel; the callers, from the queue
or on the loop, cite it. `UnwatchedOnceDestroyed` and `NoChannelOutlives` assume `Closers =
{}`, as the run does, and need `OnLoop`: a connection in `kDisconnecting` is half-closed with
nothing buffered or still watches EPOLLOUT, so that a send that runs after `connectDestroyed`
does not register the channel again; and until `connectDestroyed` has run the table, a removal
on the base loop or the queued functor holds the connection. `DestructionNeverForgotten` needs
no such assumption: `connectDestroyed` is queued, or the server still has the connection and,
once it is down, a removal on the way (`DestructionIsDue`).

**The bytes and the calls of a TcpConnection** (`TcpStream_proofs`, from the invariants
above). `ToldOnce` and `StreamRefinement` assume `Closers = {}`. `StreamRefinement` maps a
direct write, a buffered one and `handleWrite()` to `Transfer`, `shutdownInLoop()` and the
`handleWrite()` that empties the buffer of a connection in `kDisconnecting` to `HalfClose`,
`handleClose()` and `connectDestroyed()` to `End`. The steps behind the end need
`OnceDown`: a connection that is down watches nothing and is not in the epoll set, and no
hangup or input is left in its `revents_` that would close it again. The assumption
is not for convenience: with an off-loop `shutdown()` TLC finds a trace
in which `handleClose()` runs, the store of `kDisconnecting` overwrites its
`kDisconnected`, a queued `sendInLoop()` registers the channel again and the next event
reports the connection down a second time.

`FilesKeepOrder` (any `Closers`) is about `sendFileInLoop()` queueing itself. Its invariant
`FilesOnce` says that a file has at most one round in the queues, that the round's offset
is the number of the file's bytes in `wire`, which are its first ones in order, and that
`outputBuffer_` never holds a byte of a file. Two theorems delimit two findings.
`WholeFileWithinCount`: `sendFile()` does not overrun `count` when the file ends there, so
`MCTcpFileOverrun` needs a file that goes on. `KeptPointersHold`: with `KeepsPointer` no
functor finds its raw `this` dangling, so what is left of `MCTcpRawPointers` is the freed
string; `PointersHeld` follows a user's pointer from the call to the end of the functor.

**TcpServer** (`ServerAssumption`). `Typing`, `ChannelsAreOwned`, `BaseServesNobody`,
`EverybodyIsTold`, `Refinement`. `IInv` says how `start()` brings the loops up, the pool
before the listening socket (`PoolFirst`, which `BaseLoopOnlyAccepts` needs), how far the
loops are at each stage of `main()` and that a pool loop that was left has an empty queue
(`Stages`), which loop a functor is for (`RightLoop`), what sets a client in the backlog apart
from a connection (`Waiting`), that names are unique (`Names`), and what `state_`, the queued
functors and the reports say of each other (`Lives`). `Kept` is the heart of
`RegisteredIsOwned`: a registered connection is in the table, or its `connectDestroyed` is
queued on its own loop; and a `connectEstablished` that has not run yet, which would register
it, has the `connectDestroyed` *behind* it in the queue. Without the order this is not
inductive. `EndsLater` does the same for `NobodyForgotten`: who is connected is in the table,
has `connectDestroyed` queued, or was cut off. `Arrives`, `Leaves` and `Moves` describe what a
functor that is posted, run, or run while it posts another does to the queues; each step's
proof starts from one of them. `Refinement` maps `connectEstablished` to the report up,
`handleClose()` and `connectDestroyed()` to the report down where they make one, the end
of `~TcpServer` (`MembersDestroyed`) to `End`, and every other step to a stutter.
`RemovalNeverForgotten`: while the server is up, a connection in the table that is down
has its removal queued on the base loop, and none in the table has its `connectDestroyed`
queued already, so that nothing is removed twice. `NobodyOutOfSight`: while the server is up,
a client is in the backlog of a listening socket, or has its `connectEstablished` queued, or has a
registered channel, or was reported down, so that its leaving is an event of some loop; what
makes this inductive is that a queued `connectDestroyed` is then always that of a
connection that was reported down. `NothingIsLeft`: when `main()` has ended
only the user's own pointers keep a connection; it needs that nothing can come to the base
loop's queue any more (`BaseIsEmpty`).

**EventLoopThreadPool** (`PoolAssumption`: two natural numbers). `Typing`,
`LoopsAreThere`, `LoopsAreLeft`, `LoadsAreEven`. `IInv` says that `loop_` is set exactly
between publication and exit and that only a loop that was quit has ended (`PtrInStep`),
how far each I/O thread must be at each stage of the main thread (`Stage`), and how
`next_` splits the loops into those one connection ahead and the others (`Balance`).
`NoLoopLeft` is not inductive: it needs that a thread whose `loop_` is null when the
destructor tests it has taken the address back, and has not merely not published it yet.
`NoLostNotification`: the main thread sleeps in `startLoop()` only while the thread it waits
for has its `notify_one()` ahead, unless a callback made that loop leave first.
`NoSleepThroughQuit`: a loop that was quit does not sleep in `epoll_wait` unless the writer
of its eventfd is about to write. Both need that the awaited thread is past its semaphore
(`Awaited`), and are proved together (`Sleep`).

**Buffer** (`BufferAssumption`). `Typing`, `IndexesStayInOrder`, `ContentsAreKept`. One
lemma per member function: it keeps a buffer well formed and says what the result
contains. `ContentsKept` is about buffers that never went through `extrabuf`.

Only model-checked: liveness, which needs fairness and `ENABLED`, and these the prover does
not handle. What a liveness property rests on besides fairness, namely that nothing it waits for
is lost, is a safety property, and for these it is proved:

| Liveness (TLC) | Safety it rests on (TLAPS) |
|---|---|
| `PromptlyRun`, `ImplementsLiveTaskQueue` | `NoLostWakeup`, `QueueIsFifo`, `Refinement` |
| `QuitStops` | `NoSleepAfterQuit` |
| `OutputCompletes` | `OutputIsWatched` |
| `CloseIsCleanedUp` | `DestructionNeverForgotten` |
| `LoopsAreStarted` | `NoLostNotification` |
| `LateQuitJoins` | `NoSleepThroughQuit` |
| `DownIsReleased` | `RemovalNeverForgotten`, `ChannelsAreOwned` |
| `LeavingIsReported`, `ClientsAreServed` | `NobodyOutOfSight` |
| `DestructionEnds` | `NothingIsLeft` (what the end leaves) |

`ReadsAreKept`, `DestroyedMeansUnwatched` with an off-loop closer, `FileWithinCount`,
`RawPointersValid` and `JoinReturns` are violated (section 6) and have at most a theorem under
the condition that avoids the violation. Nothing that is proved computes a recursive definition,
so induction over data is not needed; what the proofs need of sequences is in `QueueLemmas`,
in the first lemmas of `TcpConnection_proofs` and `TcpStream_proofs`, and in the library.

## 6. What disagrees with the code's comments

Each is a run that ends in a counterexample; `PROJECT.json` quotes the text.

| Run | What happens |
|---|---|
| `MCTcpSendUnwatched` | the `kDisconnecting` of an off-loop `shutdown()` hides from a send queued behind `connectDestroyed()` that the connection is over: the send registers the removed channel |
| `MCTcpRawPointers` | an off-loop `send()` transmits a string that is gone (`buf.c_str()`); its raw `this` may be gone as well |
| `MCTcpFileOverrun` | `sendFile()` of a part of a file sends beyond `count`: every round asks for the whole `count` again |
| `MCThreadPoolLostQuit` | `quit_ = false` at the start of `loop()` erases a `quit()`; `join()` never returns, nor does a `~TcpServer` that waits in it |
| `MCBufferOverflow` | `readFd()` appends `n - sizeof(extrabuf)` bytes instead of `n - writeable` |

`MCTcpSendUnwatched` has the sender and the closer on two threads. What it takes is a store of
`kDisconnecting` (line 314) that the test before it does not justify any more. In the shortest
trace `~TcpServer` queues `connectDestroyed()` between the sender's test of `state_` and its
`runInLoop()`; the functor stores `kDisconnected` and removes the channel, `shutdown()` stores
`kDisconnecting` over it, and `sendInLoop()`, next in the queue, passes its test. The store may
also come before `connectDestroyed()`, which then leaves `kDisconnecting` alone. Without
`~TcpServer` a longer trace does the same: the `kDisconnected` that is overwritten is that of
`handleClose()`, and `removeConnectionInLoop()` has queued `connectDestroyed()`.

Other behaviours that the models have, as the code does, and that a reader should know
of. They have no run of their own; the hazards of `PROJECT.json` give their lines.

- A functor queued on the loop's own thread before `loop()` is not woken for: it waits
  for the first event or the timeout. `PromptlyRun` therefore excepts `preLoop`, and
  `ImplementsLiveTaskQueue` shows that the timeout brings it in.
- `disableALL()` on a channel already disabled, or never enabled, adds it to the epoll
  set with no events.
- The half-close from `handleWrite()` overtakes sends the same thread had posted before
  its `shutdown()`: they have not been accepted yet when `ByteStream` ends, and are
  dropped.
- An off-loop `shutdown()` that overtakes `handleClose()` (the race of `MCTcpSendUnwatched`)
  can also make it run a second time and report the connection down twice.
- A file shorter than `count` never ends `sendFileInLoop()`: at its end no round finds
  `remaining = 0`, and the functor queues itself for ever.
- `connectDestroyed()` in `~TcpServer` reports nothing of a connection in `kDisconnecting`,
  and the report of one whose loop leaves first is lost (`NobodyForgotten`).
- The destructor's `quit()` may store into, or write the eventfd of, an `EventLoop` that
  its thread has destroyed (`SetQuit`, `Wakeup`); when a loop has ended by itself the
  destructor may find `loop_` null at its second read (`crashed`), or return while the
  thread is still in `threadFunc()`. `NoLoopLeft` promises no more than that `loop()` is
  over.
- A callback that quits its loop during `start()` may leave `startLoop()` waiting for
  ever; `LoopsAreStarted` excepts it.
- With one thread `getNextLoop()` returns the sub loop, not the base loop.

## 7. What is not modelled

- `InetAddress`, `Timestamp`, `CurrentThread`, `Logger`, `Callbacks`, `noncopyable`, and of
  `Socket` what only configures the kernel (`bind`, socket options): single system calls,
  conversions, logging and type definitions. The effects the other parts depend on (accept,
  half-close, close of a descriptor, whether a call is on the loop's thread) are in the
  modules that use them.
- `ChatServer::onMessage` and `clients_`: a `std::set` shared by threads without a lock has
  no states to enumerate once two insertions overlap. Its `main()`, its `shutdown()` in a
  callback and its way of sending local strings to other loops are in `TcpServer` and
  `TcpConnection`.
- `ConsistenHash`: nothing includes it and it does not compile when instantiated.
- Failure of `epoll_create1`, `eventfd`, `socket`, `bind`, `listen`: `LOG_FATAL` only
  prints and the program runs on with a bad descriptor; the models start after success.
  `listen()` that fails looks like a server nobody connects to.

Abstractions inside the modules: SIGPIPE is taken as ignored, so a write to a reset
connection returns `EPIPE`; other errors of `write` count as `EWOULDBLOCK`, as in the
code; the connection's loop differs from the base loop; user callbacks are registered;
`~TcpServer` runs when the base loop has stopped and every `start()` has returned (a
server destroyed under either is the caller's error); in `TcpConnection` a close that comes
after it stays unserved; in `TcpServer` a functor lets go of its connection when it has run
rather than when its batch ends, and a `quit()` of the base loop before its `loop()`, which
would erase it, is left out; a
functor that runs on a deleted connection is detected, not executed further; user code
on the loop's thread is a separate step between two handlers or functors.

## 8. Plan

Done, in this order: `TaskQueue` and `EventLoop` with proofs; `TcpConnection`; `Poller`
with proofs; `EventLoopThreadPool` with proofs; `Buffer` with proofs; `ConnectionEvents`
and `TcpServer` with proofs; the proofs of `TcpConnection`; `ByteStream`, its refinement
and the proofs about files, reports and pointers (`TcpStream_proofs`); the safety that
the liveness properties of the pool, the connection and the server rest on.

Left: what of the refinement of `ByteStream` remains true with an off-loop `shutdown()`.
`HalfCloseComesLast` and `BytesKeepOrder` do, a single end does not: `ByteStream` would have
to be stated without `over`.

## 9. Running the tools

    tlc -workers 2 -config MCEventLoop.cfg MCEventLoop.tla
    tlc -workers 2 -config MCThreadPool.cfg EventLoopThreadPool.tla
    tlapm EventLoop_proofs.tla

`PROJECT.json` names the module of every configuration.
