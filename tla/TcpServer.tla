------------------------------- MODULE TcpServer -------------------------------
(***************************************************************************)
(* A TcpServer with its Acceptor, its pool of I/O loops and the            *)
(* connections it owns, from start() to its destruction after the base     *)
(* loop has returned: the composition of the other modules.                *)
(*                                                                         *)
(* A loop is what EventLoop implements: handlers of ready channels, then   *)
(* one batch of the functors queued so far, then the test of quit_.  Of a  *)
(* connection (module TcpConnection) there is its state_, its channel, who *)
(* holds a pointer to it and what its user has been told.  Which I/O loop  *)
(* getNextLoop() picks is left open (module EventLoopThreadPool).          *)
(***************************************************************************)
EXTENDS Naturals, Sequences, FiniteSets

CONSTANTS
  MaxThreads,   \* bound on setThreadNum()
  Clients,      \* peers; each connects at most once, so a client is also a connection
  Starters,     \* threads other than the main one that call start()
  Main,         \* the main thread: it runs the base loop and destroys the server
  MaxFds        \* bound on the descriptors the process may have for connections

ASSUME ServerAssumption ==
  /\ MaxThreads \in Nat /\ MaxFds \in Nat \ {0}
  /\ IsFiniteSet(Clients) /\ Main \notin Starters

Base  == 0                        \* loop_
Loops == 0..MaxThreads
Callers == Starters \cup {Main}   \* of start()

VARIABLES
  numThreads,   \* numThreads_
  fdLimit,      \* descriptors the process may have for connections (RLIMIT_NOFILE)
  started,      \* started_
  startPc,      \* where each caller of start() is
  listening,    \* acceptChannel_ is watched
  connections,  \* connections_
  nextConnId,   \* nextConnId_
  mainPc,       \* "serving", then the stages of ~TcpServer, then the end of main()
  phase,        \* of each loop: "init"; "entering", when others have its address and
                \* loop() has not begun; "handle" events; "run" a batch; "done"
  pending,      \* pendingFunctors_ of each loop
  batch,        \* functors of its batch not run yet
  quit,         \* quit_ of each loop
  exiting,      \* I/O loops on which ~EventLoopThread has called quit()
  peer,         \* each client: "away", "here", "gone"
  backlog,      \* clients the kernel has connected and accept() has not returned
  name,         \* each connection: the number in its name ...
  loopOf,       \* ... its loop
  state,        \* ... its state_, "none" before it is created
  registered,   \* connections whose channel is in its loop's poller
  held,         \* connections to which the user keeps a TcpConnectionPtr
  \* What the properties remember of the past.
  told,         \* each connection: what connectionCallback_ was told
  cutOff        \* connections whose connectDestroyed was queued when its loop left

startup == <<numThreads, fdLimit, started, startPc>>
table   == <<connections, nextConnId, name, loopOf>>
conns   == <<state, registered, held, told>>
loops   == <<phase, batch, quit, exiting, cutOff>>
vars == <<startup, listening, table, mainPc, loops, pending, peer, backlog, conns>>

IoLoops == 1..numThreads
Owned   == {connections[n] : n \in DOMAIN connections}
Queue(l) == batch[l] \o pending[l]
Queued(l, f) == \E i \in 1..Len(Queue(l)) : Queue(l)[i] = f

\* Some shared_ptr to the connection exists, so its descriptor is open.
Alive(c) ==
  /\ state[c] # "none"
  /\ \/ c \in Owned \cup held
     \/ \E l \in Loops : \E i \in 1..Len(Queue(l)) : Queue(l)[i][2] = c

Room == Cardinality({c \in Clients : Alive(c)}) < fdLimit

Init ==
  /\ numThreads \in 0..MaxThreads /\ fdLimit \in 1..MaxFds
  /\ started = 0 /\ startPc = [s \in Callers |-> "idle"]
  /\ listening = FALSE
  /\ connections = << >> /\ nextConnId = 1
  /\ mainPc = "serving"
  /\ phase = [l \in Loops |-> "init"]
  /\ pending = [l \in Loops |-> << >>] /\ batch = [l \in Loops |-> << >>]
  /\ quit = [l \in Loops |-> FALSE] /\ exiting = {}
  /\ peer = [c \in Clients |-> "away"] /\ backlog = << >>
  /\ name = [c \in Clients |-> 0] /\ loopOf = [c \in Clients |-> Base]
  /\ state = [c \in Clients |-> "none"]
  /\ registered = {} /\ held = {}
  /\ told = [c \in Clients |-> << >>] /\ cutOff = {}

Posted(l, op, x) == [pending EXCEPT ![l] = Append(@, <<op, x>>)]

-----------------------------------------------------------------------------
\* start(), from any thread.

\* Mutant of StartCall: the Acceptor listens before the pool has its loops.
EagerStartCall(s) ==
  /\ mainPc = "serving" /\ startPc[s] = "idle"
  /\ s = Main => phase[Base] = "init"
  /\ started' = started + 1
  /\ startPc' = [startPc EXCEPT ![s] = IF started = 0 THEN "pool" ELSE "done"]
  /\ pending' = Posted(Base, "listen", "acceptor")
  /\ UNCHANGED <<numThreads, fdLimit, listening, table, mainPc, loops, peer, backlog, conns>>

\* started_.fetch_add(1) == 0; the main thread is in loop() later.
StartCall(s) ==
  /\ mainPc = "serving" /\ startPc[s] = "idle"
  /\ s = Main => phase[Base] = "init"
  /\ started' = started + 1
  /\ startPc' = [startPc EXCEPT ![s] = IF started = 0 THEN "pool" ELSE "done"]
  /\ UNCHANGED <<numThreads, fdLimit, listening, table, mainPc, loops, pending, peer, backlog,
                 conns>>

\* threadPool_->start() returns when every I/O thread has published its loop
\* (LoopsAreStarted), in which loop() need not have begun.
StartPool(s) ==
  /\ startPc[s] = "pool"
  /\ startPc' = [startPc EXCEPT ![s] = "listen"]
  /\ phase' = [l \in Loops |-> IF l \in IoLoops THEN "entering" ELSE phase[l]]
  /\ UNCHANGED <<numThreads, fdLimit, started, listening, table, mainPc, batch, quit, exiting,
                 cutOff, pending, peer, backlog, conns>>

\* Acceptor::listen
Listen == listening' = TRUE

\* loop_->runInLoop(Acceptor::listen)
StartListening(s) ==
  /\ startPc[s] = "listen"
  /\ startPc' = [startPc EXCEPT ![s] = "done"]
  /\ IF s = Main THEN Listen /\ UNCHANGED pending
     ELSE pending' = Posted(Base, "listen", "acceptor") /\ UNCHANGED listening
  /\ UNCHANGED <<numThreads, fdLimit, started, table, mainPc, loops, peer, backlog, conns>>

\* loop() begins with quit_ = false, whoever may have called quit() before.
Begin(l) ==
  /\ phase' = [phase EXCEPT ![l] = "handle"]
  /\ quit' = [quit EXCEPT ![l] = FALSE]
  /\ UNCHANGED <<startup, listening, table, mainPc, batch, exiting, cutOff, pending, peer,
                 backlog, conns>>

\* main() enters loop() of the base loop.
EnterLoop ==
  /\ phase[Base] = "init"
  /\ startPc[Main] \in {"idle", "done"}
  /\ Begin(Base)

\* threadFunc() enters loop() of its I/O loop.
BeginLoop(l) == phase[l] = "entering" /\ Begin(l)

-----------------------------------------------------------------------------
\* What happens to a connection on its loop.

\* The user may keep the pointer its callback is given when the connection is up, and
\* let go of it when it is down.
ConnectEstablished(c) ==
  /\ state' = [state EXCEPT ![c] = "kConnected"]
  /\ registered' = registered \cup {c}
  /\ told' = [told EXCEPT ![c] = Append(@, "up")]
  /\ held' \in {held, held \cup {c}}

\* Mutant of TellDown: connectionCallback_ is not called.
SilentTellDown(c) ==
  /\ state' = [state EXCEPT ![c] = "kDisconnected"]
  /\ UNCHANGED <<held, told>>

TellDown(c) ==
  /\ state' = [state EXCEPT ![c] = "kDisconnected"]
  /\ told' = [told EXCEPT ![c] = Append(@, "down")]
  /\ held' \in {held, held \ {c}}

\* Mutant of ConnectDestroyed: state_ is not tested.
HeedlessConnectDestroyed(c) == TellDown(c) /\ registered' = registered \ {c}

ConnectDestroyed(c) ==
  /\ IF state[c] = "kConnected" THEN TellDown(c) ELSE UNCHANGED <<state, told, held>>
  /\ registered' = registered \ {c}

\* Mutant of Erase: connections_ keeps its entry.
NoErase(n) == UNCHANGED connections

Erase(n) == connections' = [k \in DOMAIN connections \ {n} |-> connections[k]]

\* Mutant of QueueDestroyed: on the base loop.
MisplaceDestroyed(c) == pending' = Posted(Base, "connectDestroyed", c)

QueueDestroyed(c) == pending' = Posted(loopOf[c], "connectDestroyed", c)

RemoveConnectionInLoop(c) == Erase(name[c]) /\ QueueDestroyed(c)

\* getNextLoop(): the base loop as long as the pool has no loop.
NextLoops ==
  LET up == {l \in IoLoops : phase[l] # "init"} IN IF up = {} THEN {Base} ELSE up

\* Mutant of NextName: nextConnId_ is not incremented.
SameName == UNCHANGED nextConnId

NextName == nextConnId' = nextConnId + 1

\* newConnection() for the loop l: runInLoop runs connectEstablished at once on the base
\* loop and queues it for another.
NewConnection(c, l) ==
  /\ loopOf' = [loopOf EXCEPT ![c] = l]
  /\ name' = [name EXCEPT ![c] = nextConnId]
  /\ NextName
  /\ connections' = [n \in DOMAIN connections \cup {nextConnId} |->
                       IF n = nextConnId THEN c ELSE connections[n]]
  /\ IF l = Base THEN ConnectEstablished(c) /\ UNCHANGED pending
     ELSE /\ state' = [state EXCEPT ![c] = "kConnecting"]
          /\ pending' = Posted(l, "connectEstablished", c)
          /\ UNCHANGED <<registered, held, told>>

\* Mutant of Accept: a client for whom there is no descriptor is dropped.
DroppingAccept ==
  /\ phase[Base] = "handle" /\ listening /\ backlog # << >>
  /\ backlog' = Tail(backlog)
  /\ IF Room THEN \E l \in NextLoops : NewConnection(Head(backlog), l)
     ELSE UNCHANGED <<table, pending, conns>>
  /\ UNCHANGED <<startup, listening, mainPc, loops, peer>>

\* Acceptor::handleRead.  Without a descriptor (EMFILE) nothing changes: the client stays
\* in the backlog and the listening socket readable.
Accept ==
  /\ phase[Base] = "handle" /\ listening /\ backlog # << >> /\ Room
  /\ backlog' = Tail(backlog)
  /\ \E l \in NextLoops : NewConnection(Head(backlog), l)
  /\ UNCHANGED <<startup, listening, mainPc, loops, peer>>

\* handleClose(), and removeConnection() through closeCallback_.
HandleClose(c) ==
  /\ phase[loopOf[c]] = "handle"
  /\ c \in registered /\ peer[c] = "gone"
  /\ state[c] \in {"kConnected", "kDisconnecting"}
  /\ TellDown(c)
  /\ IF loopOf[c] = Base THEN RemoveConnectionInLoop(c)
     ELSE pending' = Posted(Base, "removeConnectionInLoop", c) /\ UNCHANGED connections
  /\ UNCHANGED <<startup, listening, nextConnId, name, loopOf, mainPc, loops, peer, backlog,
                 registered>>

\* shutdown() in a callback of the connection.
Shutdown(c) ==
  /\ phase[loopOf[c]] \in {"handle", "run"}
  /\ state[c] = "kConnected"
  /\ state' = [state EXCEPT ![c] = "kDisconnecting"]
  /\ UNCHANGED <<startup, listening, table, mainPc, loops, pending, peer, backlog, registered,
                 held, told>>

-----------------------------------------------------------------------------
\* doPendingFunctors and the loop around it.

\* Mutant of Woken: quit() does not wake the loop.
DeafWoken(l) == pending[l] # << >>

\* queueInLoop() and quit() end the poll (module EventLoop).
Woken(l) == pending[l] # << >> \/ quit[l]

Swap(l) ==
  /\ phase[l] = "handle"
  /\ Woken(l)
  /\ phase' = [phase EXCEPT ![l] = "run"]
  /\ batch' = [batch EXCEPT ![l] = pending[l]]
  /\ pending' = [pending EXCEPT ![l] = << >>]
  /\ UNCHANGED <<startup, listening, table, mainPc, quit, exiting, cutOff, peer, backlog,
                 conns>>

\* The oldest functor of the batch is op, for x.
Runs(l, op, x) ==
  /\ phase[l] = "run" /\ batch[l] # << >>
  /\ Head(batch[l]) = <<op, x>>
  /\ batch' = [batch EXCEPT ![l] = Tail(@)]
  /\ UNCHANGED <<startup, nextConnId, name, loopOf, mainPc, phase, quit, exiting, cutOff,
                 peer, backlog>>

RunFunctor(l) ==
  \/ /\ Runs(l, "listen", "acceptor")
     /\ Listen
     /\ UNCHANGED <<connections, pending, conns>>
  \/ \E c \in Clients :
       /\ \/ Runs(l, "connectEstablished", c) /\ ConnectEstablished(c)
                                              /\ UNCHANGED <<connections, pending>>
          \/ Runs(l, "connectDestroyed", c) /\ ConnectDestroyed(c)
                                            /\ UNCHANGED <<connections, pending>>
          \/ Runs(l, "removeConnectionInLoop", c) /\ RemoveConnectionInLoop(c)
                                                  /\ UNCHANGED conns
       /\ UNCHANGED listening

\* while(!quit_).  What an I/O loop has not run dies with its EventLoop.
EndBatch(l) ==
  /\ phase[l] = "run" /\ batch[l] = << >>
  /\ phase' = [phase EXCEPT ![l] = IF quit[l] THEN "done" ELSE "handle"]
  /\ IF quit[l] /\ l # Base
     THEN /\ cutOff' = cutOff \cup {c \in Clients : Queued(l, <<"connectDestroyed", c>>)}
          /\ pending' = [pending EXCEPT ![l] = << >>]
     ELSE UNCHANGED <<cutOff, pending>>
  /\ UNCHANGED <<startup, listening, table, mainPc, batch, quit, exiting, peer, backlog,
                 conns>>

\* Somebody calls quit() on the base loop while it runs (before, loop() would erase it).
QuitBase ==
  /\ phase[Base] \in {"handle", "run"} /\ ~quit[Base]
  /\ quit' = [quit EXCEPT ![Base] = TRUE]
  /\ UNCHANGED <<startup, listening, table, mainPc, phase, batch, exiting, cutOff, pending,
                 peer, backlog, conns>>

-----------------------------------------------------------------------------
\* The end of main(): ~TcpServer after loop() has returned, then the base EventLoop.

Stage(from, to) ==
  /\ mainPc = from /\ mainPc' = to
  /\ UNCHANGED <<startup, nextConnId, name, loopOf, peer>>

BeginDestroy ==
  /\ phase[Base] = "done"
  /\ \A s \in Callers : startPc[s] \in {"idle", "done"}
  /\ Stage("serving", "connections")
  /\ UNCHANGED <<listening, connections, loops, pending, backlog, conns>>

\* The loop over connections_: item.second.reset(), runInLoop(connectDestroyed).
DestroyConnection(n) ==
  /\ n \in DOMAIN connections
  /\ Stage("connections", "connections")
  /\ Erase(n)
  /\ LET c == connections[n] IN
       IF loopOf[c] = Base THEN ConnectDestroyed(c) /\ UNCHANGED pending
       ELSE QueueDestroyed(c) /\ UNCHANGED conns
  /\ UNCHANGED <<listening, loops, backlog>>

\* Mutant of NoneLeft: the members go before the connections are told.
HastyNoneLeft == TRUE

NoneLeft == DOMAIN connections = {}

ConnectionsDestroyed ==
  /\ NoneLeft
  /\ Stage("connections", "pool")
  /\ UNCHANGED <<listening, connections, loops, pending, backlog, conns>>

\* A thread has published the loop and has not left it.
Running(l) == phase[l] \in {"entering", "handle", "run"}

\* ~EventLoopThread, one after the other: quit(), once, then join().
QuitThread(l) ==
  /\ l \in IoLoops \ exiting /\ Running(l)
  /\ \A k \in exiting : ~Running(k)
  /\ Stage("pool", "pool")
  /\ exiting' = exiting \cup {l}
  /\ quit' = [quit EXCEPT ![l] = TRUE]
  /\ UNCHANGED <<listening, connections, phase, batch, cutOff, pending, backlog, conns>>

\* threadPool_ and then acceptor_ are gone.
MembersDestroyed ==
  /\ \A l \in IoLoops : ~Running(l)
  /\ Stage("pool", "destroyed")
  /\ listening' = FALSE /\ backlog' = << >>
  /\ UNCHANGED <<connections, loops, pending, conns>>

\* ~EventLoop of the base loop, with the functors it has not run.
LoopDestroyed ==
  /\ Stage("destroyed", "ended")
  /\ pending' = [pending EXCEPT ![Base] = << >>]
  /\ UNCHANGED <<listening, connections, loops, backlog, conns>>

-----------------------------------------------------------------------------
\* The clients.

Connect(c) ==
  /\ listening /\ peer[c] = "away"
  /\ peer' = [peer EXCEPT ![c] = "here"]
  /\ backlog' = Append(backlog, c)
  /\ UNCHANGED <<startup, listening, table, mainPc, loops, pending, conns>>

Disconnect(c) ==
  /\ peer[c] = "here"
  /\ peer' = [peer EXCEPT ![c] = "gone"]
  /\ UNCHANGED <<startup, listening, table, mainPc, loops, pending, backlog, conns>>

-----------------------------------------------------------------------------
LoopStep(l) ==
  \/ BeginLoop(l) \/ Swap(l) \/ RunFunctor(l) \/ EndBatch(l)
  \/ l = Base /\ Accept
  \/ \E c \in Clients : loopOf[c] = l /\ HandleClose(c)

StartStep(s) == StartPool(s) \/ StartListening(s)

MainStep ==
  \/ EnterLoop
  \/ BeginDestroy \/ ConnectionsDestroyed \/ MembersDestroyed \/ LoopDestroyed
  \/ \E n \in DOMAIN connections : DestroyConnection(n)
  \/ \E l \in IoLoops : QuitThread(l)

Next ==
  \/ \E s \in Callers : StartCall(s) \/ StartStep(s)
  \/ \E l \in Loops : LoopStep(l)
  \/ \E c \in Clients : Connect(c) \/ Disconnect(c) \/ Shutdown(c)
  \/ QuitBase
  \/ MainStep

Spec == Init /\ [][Next]_vars

\* Every thread is scheduled and callbacks return; main() calls loop(), and returns when
\* loop() does.  Nobody is made to start the server, to connect, to leave or to quit.
FairSpec ==
  /\ Spec
  /\ \A l \in Loops : WF_vars(LoopStep(l))
  /\ \A s \in Callers : WF_vars(StartStep(s))
  /\ WF_vars(MainStep)

-----------------------------------------------------------------------------
\* The functors loop l may be handed: those about its own connections, and on the base
\* loop those about connections_ and the Acceptor.
FunctorsFor(l) ==
  {"connectEstablished", "connectDestroyed"} \X {c \in Clients : loopOf[c] = l}
    \cup IF l = Base THEN {"removeConnectionInLoop"} \X Clients \cup {<<"listen", "acceptor">>}
         ELSE {}

TypeOK ==
  /\ numThreads \in 0..MaxThreads /\ fdLimit \in 1..MaxFds
  /\ started \in Nat /\ startPc \in [Callers -> {"idle", "pool", "listen", "done"}]
  /\ listening \in BOOLEAN
  /\ Owned \subseteq Clients /\ nextConnId \in Nat
  /\ mainPc \in {"serving", "connections", "pool", "destroyed", "ended"}
  /\ phase \in [Loops -> {"init", "entering", "handle", "run", "done"}]
  /\ exiting \subseteq Loops
  /\ \A l \in Loops : batch[l] \in Seq(FunctorsFor(l)) /\ pending[l] \in Seq(FunctorsFor(l))
  /\ quit \in [Loops -> BOOLEAN]
  /\ peer \in [Clients -> {"away", "here", "gone"}]
  /\ \A i \in 1..Len(backlog) : backlog[i] \in Clients
  /\ loopOf \in [Clients -> Loops]
  /\ state \in [Clients -> {"none", "kConnecting", "kConnected", "kDisconnecting",
                            "kDisconnected"}]
  /\ UNION {registered, held, cutOff} \subseteq Clients

\* A channel in the poller of a running loop always has an owner that will take it out:
\* its connection is in connections_, or its connectDestroyed is queued on that loop
\* (newConnection, removeConnectionInLoop, ~TcpServer).  So no poller is left with the
\* channel of a deleted connection.
RegisteredIsOwned ==
  \A c \in registered :
    Running(loopOf[c]) => c \in Owned \/ Queued(loopOf[c], <<"connectDestroyed", c>>)

\* No connection is accepted before the pool has its loops: with I/O threads none is
\* served by the base loop, whoever calls start() and how often (start, getNextLoop).
BaseLoopOnlyAccepts ==
  numThreads > 0 => \A c \in Clients : state[c] # "none" => loopOf[c] # Base

\* When the server is gone, every connection that was reported up has been reported down,
\* except the two kinds the code lets slip: those half-closed by shutdown(), of which
\* connectDestroyed tells nothing, and those whose connectDestroyed was still queued when
\* their loop left on quit() (~TcpServer, connectDestroyed, loop).
NobodyForgotten ==
  mainPc = "destroyed" =>
    \A c \in Clients : told[c] = <<"up">> => state[c] = "kDisconnecting" \/ c \in cutOff

\* A client in the backlog is accepted, as long as descriptors come free again and the
\* base loop is not quit: one accept() per event and a failed one (EMFILE) lose nobody
\* (Acceptor::handleRead).
ClientsAreServed ==
  ([]<>Room) =>
    \A c \in Clients : (peer[c] # "away" /\ state[c] = "none") ~> (state[c] # "none" \/ quit[Base])

\* When a client leaves, the user hears of it, unless the server ends first.
LeavingIsReported ==
  \A c \in Clients : (peer[c] = "gone" /\ told[c] = <<"up">>) ~> (told[c] # <<"up">> \/ quit[Base])

\* The quit() of a destructor came before loop() began, which has erased it: join() waits
\* for ever (JoinReturns of module EventLoopThreadPool).
QuitLost == \E l \in exiting : ~quit[l]

\* The descriptor of a connection that is down is given back, unless the user keeps the
\* pointer: no queue or table holds on to it, also when the base loop stops meanwhile
\* (removeConnectionInLoop, ~TcpServer, ~EventLoop).  A lost quit() can keep it back when
\* it is that of another I/O loop, ahead of the connection's own.
DownIsReleased ==
  \A c \in Clients :
    (told[c] = <<"up", "down">>) ~> (~Alive(c) \/ c \in held \/ QuitLost)

\* The destructor of the server returns and main() ends, whatever is still queued, closing
\* or being accepted when the base loop stops, unless a quit() is lost (~TcpServer,
\* ~EventLoopThread).
DestructionEnds == (phase[Base] = "done") ~> (mainPc = "ended" \/ QuitLost)

-----------------------------------------------------------------------------
\* The server implements the contract of the connection callback.
Abstract == INSTANCE ConnectionEvents WITH
              Connections <- Clients,
              over        <- mainPc \in {"destroyed", "ended"}

ImplementsConnectionEvents == Abstract!Spec
==============================================================================
