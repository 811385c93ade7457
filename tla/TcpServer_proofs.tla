--------------------------- MODULE TcpServer_proofs ---------------------------
(***************************************************************************)
(* What TLAPS proves of TcpServer, for any number of clients, I/O loops,   *)
(* descriptors and callers of start().                                     *)
(***************************************************************************)
EXTENDS TcpServer, QueueLemmas

-----------------------------------------------------------------------------
\* The functors, and what the invariant says of their order in a queue.
Lis == <<"listen", "acceptor">>
Est(c) == <<"connectEstablished", c>>
Des(c) == <<"connectDestroyed", c>>
Rem(c) == <<"removeConnectionInLoop", c>>
Functors == {Lis} \cup UNION {{Est(c), Des(c), Rem(c)} : c \in Clients}

\* f is in the queue q, is there once, and has g somewhere behind it.
Has(q, f) == \E i \in 1..Len(q) : q[i] = f
Once(q, f) == \A i, j \in 1..Len(q) : (q[i] = f /\ q[j] = f) => i = j
Behind(q, f, g) == \A i \in 1..Len(q) : q[i] = f => \E j \in 1..Len(q) : i < j /\ q[j] = g

\* The same of all that loop l has not run.
QueuedOnce(l, f) == Once(Queue(l), f)
Followed(l, f, g) == Behind(Queue(l), f, g)

\* The types, with what a queue holds (FunctorsFor says which of it, see RightLoop).
Shapes ==
  /\ numThreads \in 0..MaxThreads /\ fdLimit \in 1..MaxFds
  /\ started \in Nat /\ nextConnId \in Nat /\ listening \in BOOLEAN
  /\ startPc \in [Callers -> {"idle", "pool", "listen", "done"}]
  /\ mainPc \in {"serving", "connections", "pool", "destroyed", "ended"}
  /\ phase \in [Loops -> {"init", "entering", "handle", "run", "done"}]
  /\ batch \in [Loops -> Seq(Functors)] /\ pending \in [Loops -> Seq(Functors)]
  /\ quit \in [Loops -> BOOLEAN] /\ exiting \subseteq Loops
  /\ peer \in [Clients -> {"away", "here", "gone"}]
  /\ backlog \in Seq(Clients)
  /\ name \in [Clients -> Nat] /\ loopOf \in [Clients -> Loops]
  /\ state \in [Clients -> {"none", "kConnecting", "kConnected", "kDisconnecting",
                            "kDisconnected"}]
  /\ told \in [Clients -> {<< >>, <<"up">>, <<"up", "down">>}]
  /\ registered \subseteq Clients /\ held \subseteq Clients /\ cutOff \subseteq Clients

\* The loops as start() brings them up: nobody listens before the pool is there, and the
\* pool is started once.
PoolFirst ==
  /\ \A s \in Callers : started = 0 => startPc[s] = "idle"
  /\ \A s, t \in Callers :
       (startPc[s] \in {"pool", "listen"} /\ startPc[t] \in {"pool", "listen"}) => s = t
  /\ \A l \in IoLoops :
       /\ started = 0 => phase[l] = "init"
       /\ \A s \in Callers : startPc[s] = "pool" => phase[l] = "init"
       /\ \A s \in Callers : startPc[s] = "listen" => phase[l] # "init"
       /\ (listening \/ Queued(Base, Lis)) => phase[l] # "init"
  /\ \A l \in Loops : numThreads < l => phase[l] = "init"

\* How far the loops are at each stage of main(), and when their queues are empty.
Stages ==
  /\ mainPc # "serving" =>
       phase[Base] = "done" /\ \A s \in Callers : startPc[s] \in {"idle", "done"}
  /\ mainPc \in {"serving", "connections"} =>
       \A l \in Loops : l # Base => ~quit[l] /\ phase[l] # "done"
  /\ mainPc \in {"pool", "destroyed", "ended"} => DOMAIN connections = {}
  /\ mainPc \in {"destroyed", "ended"} => \A l \in Loops : ~Running(l)
  /\ \A l \in Loops : phase[l] # "run" => batch[l] = << >>
  /\ \A l \in Loops : (l # Base /\ phase[l] = "done") => pending[l] = << >>

\* A functor is in a queue of the loop it is for.
RightLoop ==
  \A l \in Loops :
    /\ Queued(l, Lis) => l = Base
    /\ \A c \in Clients :
         /\ (Queued(l, Est(c)) \/ Queued(l, Des(c))) => l = loopOf[c]
         /\ Queued(l, Rem(c)) => l = Base

\* Clients in the backlog are not connections yet.
Waiting ==
  /\ \A i \in 1..Len(backlog) : state[backlog[i]] = "none" /\ peer[backlog[i]] # "away"
  /\ \A i, j \in 1..Len(backlog) : backlog[i] = backlog[j] => i = j
  /\ \A c \in Clients : peer[c] = "away" => state[c] = "none"

\* Names tell the connections apart.
Names ==
  /\ \A c \in Clients : state[c] # "none" => name[c] < nextConnId
  /\ \A c, d \in Clients : (state[c] # "none" /\ state[d] # "none" /\ name[c] = name[d]) => c = d
  /\ \A n \in DOMAIN connections :
       /\ connections[n] \in Clients
       /\ state[connections[n]] # "none" /\ name[connections[n]] = n

\* What is known of a connection in each state.
Lives ==
  \A c \in Clients :
    /\ state[c] = "none" =>
         /\ c \notin registered
         /\ \A l \in Loops : ~Queued(l, Est(c)) /\ ~Queued(l, Des(c)) /\ ~Queued(l, Rem(c))
    /\ state[c] # "none" => phase[loopOf[c]] # "init"
    /\ state[c] \in {"none", "kConnecting"} => told[c] = << >>
    /\ state[c] \in {"kConnected", "kDisconnecting"} => told[c] = <<"up">>
    /\ state[c] = "kDisconnected" => told[c] = <<"up", "down">>
    /\ \A l \in Loops :
         /\ Queued(l, Est(c)) => state[c] = "kConnecting"
         /\ QueuedOnce(l, Est(c))
         /\ Queued(l, Rem(c)) => state[c] = "kDisconnected"
    /\ Queued(Base, Des(c)) => state[c] = "kDisconnected"

\* A connection that is, or is about to be, in the poller of a running loop has an owner,
\* or its connectDestroyed behind it.
Kept ==
  \A c \in Clients : Running(loopOf[c]) =>
    /\ c \in registered => c \in Owned \/ Queued(loopOf[c], Des(c))
    /\ c \in Owned \/ Followed(loopOf[c], Est(c), Des(c))

\* The end of a connected connection is still to come, or was cut off.
EndsLater ==
  mainPc # "ended" =>
    \A c \in Clients : state[c] = "kConnected" =>
      c \in Owned \/ Queued(loopOf[c], Des(c)) \/ c \in cutOff

\* The inductive invariant.
IInv == /\ Shapes /\ PoolFirst /\ Stages /\ RightLoop /\ Waiting
        /\ Names /\ Lives /\ Kept /\ EndsLater /\ BaseLoopOnlyAccepts
-----------------------------------------------------------------------------
\* What appending to a queue, and taking its head, does to the order of its functors.
LEMMA OrderAfterAppend ==
  ASSUME NEW S, NEW q \in Seq(S), NEW e \in S
  PROVE  /\ \A f : Has(Append(q, e), f) <=> Has(q, f) \/ f = e
         /\ \A f : (Once(q, f) /\ (f = e => ~Has(q, f))) => Once(Append(q, e), f)
         /\ \A f, g : (Behind(q, f, g) /\ f # e) => Behind(Append(q, e), f, g)
         /\ \A f : f # e => Behind(Append(q, e), f, e)
<1> DEFINE p == Append(q, e)
<1>1. /\ Len(p) = Len(q) + 1 /\ Len(q) \in Nat
      /\ \A i \in 1..Len(q) : p[i] = q[i]
      /\ p[Len(q) + 1] = e
  BY AppendProperties
<1> HIDE DEF p
<1>2. \A f : Has(p, f) <=> Has(q, f) \/ f = e
  BY <1>1 DEF Has
<1>3. \A f : (Once(q, f) /\ (f = e => ~Has(q, f))) => Once(p, f)
  BY <1>1 DEF Once, Has
<1>4. \A f, g : (Behind(q, f, g) /\ f # e) => Behind(p, f, g)
  BY <1>1 DEF Behind
<1>5. \A f : f # e => Behind(p, f, e)
  BY <1>1 DEF Behind
<1> QED
  BY <1>2, <1>3, <1>4, <1>5 DEF p

\* Taking the head of a queue.
LEMMA OrderAfterTail ==
  ASSUME NEW S, NEW q \in Seq(S), q # << >>
  PROVE  /\ \A f : Has(q, f) <=> f = Head(q) \/ Has(Tail(q), f)
         /\ \A f : Once(q, f) => Once(Tail(q), f) /\ (f = Head(q) => ~Has(Tail(q), f))
         /\ \A f, g : Behind(q, f, g) => Behind(Tail(q), f, g)
         /\ \A f, g : (Behind(q, f, g) /\ f = Head(q)) => Has(Tail(q), g)
<1> DEFINE t == Tail(q)
<1>1. /\ Len(t) = Len(q) - 1 /\ Len(q) \in Nat \ {0}
      /\ \A i \in 1..Len(t) : t[i] = q[i + 1]
      /\ q[1] = Head(q)
  BY HeadTailProperties, EmptySeq
<1> HIDE DEF t
<1>2. \A f : Has(q, f) <=> f = Head(q) \/ Has(t, f)
  <2>1. ASSUME NEW f, NEW i \in 1..Len(q), q[i] = f
        PROVE  f = Head(q) \/ Has(t, f)
    <3>1. CASE i = 1
      BY <1>1, <2>1, <3>1
    <3>2. CASE i # 1
      <4>1. i - 1 \in 1..Len(t) /\ t[i - 1] = f
        BY <1>1, <2>1, <3>2
      <4> QED
        BY <4>1 DEF Has
    <3> QED
      BY <3>1, <3>2
  <2>2. ASSUME NEW f, f = Head(q) \/ Has(t, f)
        PROVE  Has(q, f)
    BY <1>1, <2>2 DEF Has
  <2> QED
    BY <2>1, <2>2 DEF Has
<1>3. \A f : Once(q, f) => Once(t, f) /\ (f = Head(q) => ~Has(t, f))
  BY <1>1 DEF Once, Has
<1>4. ASSUME NEW f, NEW g, Behind(q, f, g)
      PROVE  Behind(t, f, g)
  <2>1. SUFFICES ASSUME NEW i \in 1..Len(t), t[i] = f
                 PROVE  \E j \in 1..Len(t) : i < j /\ t[j] = g
    BY DEF Behind
  <2>2. PICK j \in 1..Len(q) : i + 1 < j /\ q[j] = g
    BY <1>1, <1>4, <2>1 DEF Behind
  <2>3. j - 1 \in 1..Len(t) /\ i < j - 1 /\ t[j - 1] = g
    BY <1>1, <2>2
  <2> QED
    BY <2>3
<1>5. ASSUME NEW f, NEW g, Behind(q, f, g), f = Head(q)
      PROVE  Has(t, g)
  <2>1. PICK j \in 1..Len(q) : 1 < j /\ q[j] = g
    BY <1>1, <1>5 DEF Behind
  <2>2. j - 1 \in 1..Len(t) /\ t[j - 1] = g
    BY <1>1, <2>1
  <2> QED
    BY <2>2 DEF Has
<1> QED
  BY <1>2, <1>3, <1>4, <1>5 DEF t

-----------------------------------------------------------------------------
\* The functors are different from one another.
LEMMA FunctorsDiffer ==
  ASSUME NEW c, NEW d
  PROVE  /\ Lis # Est(c) /\ Lis # Des(c) /\ Lis # Rem(c)
         /\ Est(c) # Des(d) /\ Est(c) # Rem(d) /\ Des(c) # Rem(d)
         /\ (Est(c) = Est(d) \/ Des(c) = Des(d) \/ Rem(c) = Rem(d)) => c = d
BY DEF Lis, Est, Des, Rem

\* The base loop is a loop.
LEMMA BaseIsLoop == Base \in Loops
BY ServerAssumption DEF Base, Loops

\* The I/O loops are others.
LEMMA IoLoopsAreLoops ==
  ASSUME Shapes
  PROVE  \A l \in IoLoops : l \in Loops /\ l # Base
BY ServerAssumption DEF Shapes, IoLoops, Loops, Base

\* The set of functors has them all.
LEMMA FunctorsAreThere ==
  /\ Lis \in Functors
  /\ \A c \in Clients : Est(c) \in Functors /\ Des(c) \in Functors /\ Rem(c) \in Functors
BY DEF Functors

\* queueInLoop() on loop l.
LEMMA Posting ==
  ASSUME Shapes, NEW l \in Loops, NEW f \in Functors,
         pending' = [pending EXCEPT ![l] = Append(@, f)], batch' = batch
  PROVE  /\ pending' \in [Loops -> Seq(Functors)]
         /\ \A k \in Loops : k # l => Queue(k)' = Queue(k)
         /\ Queue(l)' = Append(Queue(l), f)
<1>1. batch[l] \in Seq(Functors) /\ pending[l] \in Seq(Functors)
  BY DEF Shapes
<1>2. pending'[l] = Append(pending[l], f) /\ Append(pending[l], f) \in Seq(Functors)
  BY <1>1, AppendProperties DEF Shapes
<1>3. pending' \in [Loops -> Seq(Functors)]
  BY <1>2 DEF Shapes
<1>4. ASSUME NEW b \in Seq(Functors), NEW p \in Seq(Functors)
      PROVE  b \o Append(p, f) = Append(b \o p, f)
  BY AppendToLastPart
<1>5. Queue(l)' = Append(Queue(l), f)
  BY <1>1, <1>2, <1>4 DEF Queue
<1> QED
  BY <1>3, <1>5 DEF Queue, Shapes

\* doPendingFunctors() on loop l takes the oldest functor.
LEMMA Taking ==
  ASSUME Shapes, NEW l \in Loops, batch[l] # << >>,
         batch' = [batch EXCEPT ![l] = Tail(@)]
  PROVE  /\ batch' \in [Loops -> Seq(Functors)]
         /\ Queue(l) # << >> /\ Queue(l) \in Seq(Functors)
         /\ Head(Queue(l)) = Head(batch[l]) /\ Head(batch[l]) \in Functors
         /\ \A k \in Loops : k # l => batch'[k] = batch[k]
         /\ batch'[l] \o pending[l] = Tail(Queue(l))
<1> DEFINE b == batch[l]
           p == pending[l]
<1>1. b \in Seq(Functors) /\ p \in Seq(Functors) /\ b # << >>
  BY DEF Shapes
<1>2. Head(b) \in Functors /\ Tail(b) \in Seq(Functors)
  BY <1>1, HeadTailProperties
<1>3. batch'[l] = Tail(b) /\ batch' \in [Loops -> Seq(Functors)]
  BY <1>2 DEF Shapes
<1>4. <<Head(b)>> \in Seq(Functors) /\ Tail(b) \o p \in Seq(Functors)
  BY <1>1, <1>2, ConcatProperties
<1> HIDE DEF b, p
<1>5. b \o p = <<Head(b)>> \o (Tail(b) \o p)
  <2>1. b = <<Head(b)>> \o Tail(b)
    BY <1>1, HeadThenTail
  <2>2. (<<Head(b)>> \o Tail(b)) \o p = <<Head(b)>> \o (Tail(b) \o p)
    BY <1>1, <1>2, <1>4, ConcatAssociative
  <2> QED
    BY <2>1, <2>2
<1>6. b \o p # << >> /\ Head(b \o p) = Head(b) /\ Tail(b \o p) = Tail(b) \o p
  BY <1>2, <1>4, <1>5, HeadTailOfPush
<1>7. b \o p \in Seq(Functors)
  BY <1>1, ConcatProperties
<1> QED
  BY <1>2, <1>3, <1>6, <1>7 DEF Queue, Shapes, b, p

\* How a step changes what is queued: f comes to loop l; f, the oldest, leaves it; or f
\* leaves l and e comes to m.
Arrives(l, f) ==
  /\ \A k \in Loops : \A g :
       /\ Queued(k, g)' <=> Queued(k, g) \/ (k = l /\ g = f)
       /\ (QueuedOnce(k, g) /\ ((k = l /\ g = f) => ~Queued(k, g))) => QueuedOnce(k, g)'
       /\ \A h : (Followed(k, g, h) /\ ~(k = l /\ g = f)) => Followed(k, g, h)'
  /\ \A g : g # f => Followed(l, g, f)'

Leaves(l, f) ==
  \A k \in Loops : \A g :
    /\ Queued(k, g) <=> Queued(k, g)' \/ (k = l /\ g = f)
    /\ QueuedOnce(k, g) => QueuedOnce(k, g)' /\ ((k = l /\ g = f) => ~Queued(k, g)')
    /\ \A h : Followed(k, g, h) => Followed(k, g, h)' /\ ((k = l /\ g = f) => Queued(k, h)')

Moves(l, f, m, e) ==
  /\ \A k \in Loops : \A g :
       /\ Queued(k, g)' => Queued(k, g) \/ (k = m /\ g = e)
       /\ Queued(k, g) => Queued(k, g)' \/ (k = l /\ g = f)
       /\ (k = m /\ g = e) => Queued(k, g)'
       /\ (QueuedOnce(k, g) /\ ((k = m /\ g = e) => ~Queued(k, g))) => QueuedOnce(k, g)'
       /\ \A h : (Followed(k, g, h) /\ ~(k = m /\ g = e)) => Followed(k, g, h)'
  /\ \A g : g # e => Followed(m, g, e)'

\* The same in terms of what is queued: nothing moves, a functor comes, the oldest goes,
\* and the oldest goes while another comes.
LEMMA SameQueues ==
  ASSUME \A k \in Loops : Queue(k)' = Queue(k)
  PROVE  \A k \in Loops : \A g :
           /\ Queued(k, g)' <=> Queued(k, g)
           /\ QueuedOnce(k, g)' <=> QueuedOnce(k, g)
           /\ \A h : Followed(k, g, h)' <=> Followed(k, g, h)
BY DEF Queued, QueuedOnce, Followed

\* queueInLoop() in terms of what is queued.
LEMMA Comes ==
  ASSUME Shapes, NEW l \in Loops, NEW f \in Functors,
         pending' = [pending EXCEPT ![l] = Append(@, f)], batch' = batch
  PROVE  pending' \in [Loops -> Seq(Functors)] /\ Arrives(l, f)
<1> DEFINE q == Queue(l)
<1>1. /\ pending' \in [Loops -> Seq(Functors)]
      /\ \A k \in Loops : k # l => Queue(k)' = Queue(k)
      /\ Queue(l)' = Append(q, f)
  BY Posting
<1>2. q \in Seq(Functors)
  BY ConcatProperties DEF Queue, Shapes
<1>3. /\ \A g : Has(Append(q, f), g) <=> Has(q, g) \/ g = f
      /\ \A g : (Once(q, g) /\ (g = f => ~Has(q, g))) => Once(Append(q, f), g)
      /\ \A g, h : (Behind(q, g, h) /\ g # f) => Behind(Append(q, f), g, h)
      /\ \A g : g # f => Behind(Append(q, f), g, f)
  <2> HIDE DEF q
  <2> QED
    BY <1>2, OrderAfterAppend
<1>4. \A k \in Loops : \A g : Queued(k, g) <=> Has(Queue(k), g)
  BY DEF Queued, Has
<1>5. \A k \in Loops : \A g : Queued(k, g)' <=> Has(Queue(k)', g)
  BY DEF Queued, Has
<1> QED
  BY <1>1, <1>3, <1>4, <1>5 DEF QueuedOnce, Followed, Arrives

\* Taking the oldest functor in terms of what is queued.
LEMMA Goes ==
  ASSUME Shapes, NEW l \in Loops, batch[l] # << >>,
         NEW f \in Functors, f = Head(batch[l]),
         batch' = [batch EXCEPT ![l] = Tail(@)], pending' = pending
  PROVE  batch' \in [Loops -> Seq(Functors)] /\ Leaves(l, f)
<1> DEFINE q == Queue(l)
<1>1. /\ batch' \in [Loops -> Seq(Functors)] /\ f \in Functors
      /\ q # << >> /\ q \in Seq(Functors) /\ Head(q) = f
      /\ \A k \in Loops : k # l => batch'[k] = batch[k]
      /\ batch'[l] \o pending[l] = Tail(q)
  BY Taking
<1>2. /\ \A k \in Loops : k # l => Queue(k)' = Queue(k)
      /\ Queue(l)' = Tail(q)
  BY <1>1 DEF Queue
<1>3. /\ \A g : Has(q, g) <=> g = f \/ Has(Tail(q), g)
      /\ \A g : Once(q, g) => Once(Tail(q), g) /\ (g = f => ~Has(Tail(q), g))
      /\ \A g, h : Behind(q, g, h) => Behind(Tail(q), g, h)
      /\ \A g, h : (Behind(q, g, h) /\ g = f) => Has(Tail(q), h)
  <2> HIDE DEF q
  <2> QED
    BY <1>1, OrderAfterTail
<1>4. \A k \in Loops : \A g : Queued(k, g) <=> Has(Queue(k), g)
  BY DEF Queued, Has
<1>5. \A k \in Loops : \A g : Queued(k, g)' <=> Has(Queue(k)', g)
  BY DEF Queued, Has
<1> QED
  BY <1>1, <1>2, <1>3, <1>4, <1>5 DEF QueuedOnce, Followed, Leaves

\* A functor that queues another.
LEMMA GoesAndComes ==
  ASSUME Shapes, NEW l \in Loops, batch[l] # << >>,
         NEW f \in Functors, f = Head(batch[l]),
         NEW m \in Loops, NEW e \in Functors,
         batch' = [batch EXCEPT ![l] = Tail(@)],
         pending' = [pending EXCEPT ![m] = Append(@, e)]
  PROVE  /\ batch' \in [Loops -> Seq(Functors)] /\ pending' \in [Loops -> Seq(Functors)]
         /\ Moves(l, f, m, e)
<1> DEFINE q(k) == Queue(k)
           r(k) == IF k = l THEN Tail(q(k)) ELSE q(k)
<1>1. /\ batch' \in [Loops -> Seq(Functors)] /\ f \in Functors
      /\ q(l) # << >> /\ Head(q(l)) = f
      /\ \A k \in Loops : k # l => batch'[k] = batch[k]
      /\ batch'[l] \o pending[l] = Tail(q(l))
  BY Taking
<1>2. \A k \in Loops : q(k) \in Seq(Functors) /\ r(k) \in Seq(Functors)
  <2>1. \A k \in Loops : q(k) \in Seq(Functors)
    BY ConcatProperties DEF Queue, Shapes
  <2> QED
    BY <1>1, <2>1, HeadTailProperties
<1>3. /\ pending' \in [Loops -> Seq(Functors)]
      /\ \A k \in Loops : pending'[k] = IF k = m THEN Append(pending[k], e) ELSE pending[k]
  BY AppendProperties DEF Shapes
<1>4. \A k \in Loops : Queue(k)' = IF k = m THEN Append(r(k), e) ELSE r(k)
  <2>1. SUFFICES ASSUME NEW k \in Loops
                 PROVE  batch'[k] \o pending'[k] = IF k = m THEN Append(r(k), e) ELSE r(k)
    BY DEF Queue
  <2>2. batch'[k] \o pending[k] = r(k)
    BY <1>1 DEF Queue
  <2>3. ASSUME NEW b \in Seq(Functors), NEW p \in Seq(Functors)
        PROVE  b \o Append(p, e) = Append(b \o p, e)
    BY AppendToLastPart
  <2>4. batch'[k] \in Seq(Functors) /\ pending[k] \in Seq(Functors)
    BY <1>1 DEF Shapes
  <2>5. batch'[k] \o Append(pending[k], e) = Append(batch'[k] \o pending[k], e)
    BY <2>3, <2>4
  <2> HIDE DEF r
  <2> QED
    BY <1>3, <2>2, <2>5
<1>5. \A k \in Loops : \A g :
        /\ Has(q(k), g) <=> (k = l /\ g = f) \/ Has(r(k), g)
        /\ Once(q(k), g) => Once(r(k), g)
        /\ \A h : Behind(q(k), g, h) => Behind(r(k), g, h)
  <2>1. ASSUME NEW k \in Loops, NEW g, k = l
        PROVE  /\ Has(q(k), g) <=> g = f \/ Has(Tail(q(k)), g)
               /\ Once(q(k), g) => Once(Tail(q(k)), g)
               /\ \A h : Behind(q(k), g, h) => Behind(Tail(q(k)), g, h)
    <3>1. q(k) \in Seq(Functors) /\ q(k) # << >> /\ Head(q(k)) = f
      BY <1>1, <1>2, <2>1
    <3> HIDE DEF q
    <3> QED
      BY <3>1, OrderAfterTail
  <2> HIDE DEF q
  <2> QED
    BY <2>1
<1>6. ASSUME NEW s \in Seq(Functors)
      PROVE  /\ \A g : Has(Append(s, e), g) <=> Has(s, g) \/ g = e
             /\ \A g : (Once(s, g) /\ (g = e => ~Has(s, g))) => Once(Append(s, e), g)
             /\ \A g, h : (Behind(s, g, h) /\ g # e) => Behind(Append(s, e), g, h)
             /\ \A g : g # e => Behind(Append(s, e), g, e)
  BY OrderAfterAppend
<1>7. \A k \in Loops : \A g : Queued(k, g) <=> Has(q(k), g)
  BY DEF Queued, Has
<1>8. \A k \in Loops : \A g : Queued(k, g)' <=> Has(Queue(k)', g)
  BY DEF Queued, Has
<1>9. \A k \in Loops : \A g : QueuedOnce(k, g) = Once(q(k), g)
  BY DEF QueuedOnce
<1>10. \A k \in Loops : \A g, h : Followed(k, g, h) = Behind(q(k), g, h)
  BY DEF Followed
<1> HIDE DEF q, r
<1>11. ASSUME NEW k \in Loops, NEW g
       PROVE  /\ Has(Queue(k)', g) <=> Has(r(k), g) \/ (k = m /\ g = e)
              /\ (Once(r(k), g) /\ ((k = m /\ g = e) => ~Has(r(k), g))) => Once(Queue(k)', g)
              /\ \A h : (Behind(r(k), g, h) /\ ~(k = m /\ g = e)) => Behind(Queue(k)', g, h)
  BY <1>2, <1>4, <1>6
<1>12. \A g : g # e => Behind(Queue(m)', g, e)
  BY <1>2, <1>4, <1>6
<1>13. ASSUME NEW k \in Loops, NEW g
       PROVE  /\ Queued(k, g)' => Queued(k, g) \/ (k = m /\ g = e)
              /\ Queued(k, g) => Queued(k, g)' \/ (k = l /\ g = f)
              /\ (k = m /\ g = e) => Queued(k, g)'
  BY <1>5, <1>7, <1>8, <1>11
<1>14. ASSUME NEW k \in Loops, NEW g, QueuedOnce(k, g), (k = m /\ g = e) => ~Queued(k, g)
       PROVE  QueuedOnce(k, g)'
  BY <1>5, <1>7, <1>9, <1>11, <1>14 DEF QueuedOnce
<1>15. ASSUME NEW k \in Loops, NEW g, NEW h, Followed(k, g, h), ~(k = m /\ g = e)
       PROVE  Followed(k, g, h)'
  BY <1>5, <1>10, <1>11, <1>15 DEF Followed
<1>16. \A g : g # e => Followed(m, g, e)'
  BY <1>12 DEF Followed
<1> QED
  BY <1>1, <1>3, <1>13, <1>14, <1>15, <1>16 DEF Moves

-----------------------------------------------------------------------------
\* No functor that is about a connection moves.
QueuesStay ==
  \A k \in Loops :
    /\ Queued(k, Lis)' => Queued(k, Lis) \/ k = Base
    /\ \A c \in Clients :
         /\ Queued(k, Est(c))' <=> Queued(k, Est(c))
         /\ Queued(k, Des(c))' <=> Queued(k, Des(c))
         /\ Queued(k, Rem(c))' <=> Queued(k, Rem(c))
         /\ QueuedOnce(k, Est(c)) => QueuedOnce(k, Est(c))'
         /\ Followed(k, Est(c), Des(c)) => Followed(k, Est(c), Des(c))'

\* Then, if no connection changes either, what is known of the connections stays.
LEMMA ConnectionsStay ==
  ASSUME IInv, QueuesStay,
         UNCHANGED <<numThreads, table, conns, cutOff>>,
         \A k \in Loops : phase[k] # "init" => phase'[k] # "init",
         \A k \in Loops : Running(k)' => Running(k) \/ phase[k] = "init",
         mainPc = "ended" => mainPc' = "ended"
  PROVE  RightLoop' /\ Names' /\ Lives' /\ Kept' /\ EndsLater' /\ BaseLoopOnlyAccepts'
<1> USE DEF table, conns
<1>1. \A c \in Clients : loopOf[c] \in Loops
  BY DEF IInv, Shapes
<1>2. RightLoop'
  BY DEF IInv, RightLoop, QueuesStay
<1>3. Names'
  BY DEF IInv, Names
<1>4. Lives'
  BY <1>1, BaseIsLoop DEF IInv, Lives, QueuesStay
<1>5. Kept'
  <2>1. SUFFICES ASSUME NEW c \in Clients, Running(loopOf[c])'
                 PROVE  /\ c \in registered => c \in Owned \/ Queued(loopOf[c], Des(c))
                        /\ c \in Owned \/ Followed(loopOf[c], Est(c), Des(c))
    BY <1>1 DEF Kept, Owned, QueuesStay
  <2>2. CASE state[c] = "none"
    BY <1>1, <2>2 DEF IInv, Lives, Queued, Followed, Behind
  <2>3. CASE state[c] # "none"
    <3>1. Running(loopOf[c])
      BY <1>1, <2>1, <2>3 DEF IInv, Lives
    <3> QED
      BY <3>1 DEF IInv, Kept
  <2> QED
    BY <2>2, <2>3
<1>6. EndsLater'
  BY <1>1 DEF IInv, EndsLater, Owned, QueuesStay
<1>7. BaseLoopOnlyAccepts'
  BY DEF IInv, BaseLoopOnlyAccepts
<1> QED
  BY <1>2, <1>3, <1>4, <1>5, <1>6, <1>7

\* No queue changes.
LEMMA NothingQueued ==
  ASSUME \A k \in Loops : Queue(k)' = Queue(k)
  PROVE  QueuesStay /\ \A k \in Loops : Queued(k, Lis)' <=> Queued(k, Lis)
BY SameQueues DEF QueuesStay

\* start(): the test of started_, and the pool.
LEMMA StartCallKeeps ==
  ASSUME IInv, NEW s \in Callers, StartCall(s)
  PROVE  IInv'
<1> USE DEF IInv, loops
<1>1. Shapes'
  BY DEF Shapes, StartCall, table, conns
<1>2. QueuesStay /\ \A k \in Loops : Queued(k, Lis)' <=> Queued(k, Lis)
  BY NothingQueued DEF StartCall, Queue
<1>3. PoolFirst'
  BY <1>2, BaseIsLoop DEF PoolFirst, StartCall, IoLoops, Shapes
<1>4. Stages'
  BY DEF Stages, StartCall, table, Running, Shapes
<1>5. Waiting'
  BY DEF Waiting, StartCall, conns
<1> QED
  BY <1>1, <1>2, <1>3, <1>4, <1>5, ConnectionsStay DEF StartCall, Running

\* start(): the loops of the pool are published.
LEMMA StartPoolKeeps ==
  ASSUME IInv, NEW s \in Callers, StartPool(s)
  PROVE  IInv'
<1> USE DEF IInv
<1>1. Shapes'
  BY DEF Shapes, StartPool, table, conns
<1>2. QueuesStay /\ \A k \in Loops : Queued(k, Lis)' <=> Queued(k, Lis)
  BY NothingQueued DEF StartPool, Queue
<1>3. \A l \in IoLoops : l \in Loops /\ phase[l] = "init" /\ phase'[l] = "entering"
  BY IoLoopsAreLoops DEF PoolFirst, StartPool, Shapes
<1>4. \A l \in Loops : l \notin IoLoops => phase'[l] = phase[l]
  BY DEF StartPool, Shapes
<1>5. PoolFirst'
  BY <1>2, <1>3, <1>4, BaseIsLoop DEF PoolFirst, StartPool, IoLoops, Shapes, Loops
<1>6. Stages'
  BY <1>3, <1>4 DEF Stages, StartPool, table, Running, Shapes
<1>7. Waiting'
  BY DEF Waiting, StartPool, conns
<1> QED
  BY <1>1, <1>2, <1>3, <1>4, <1>5, <1>6, <1>7, ConnectionsStay DEF StartPool, Running

\* start(): the Acceptor listens, or will.
LEMMA StartListeningKeeps ==
  ASSUME IInv, NEW s \in Callers, StartListening(s)
  PROVE  IInv'
<1> USE DEF IInv, loops
<1>1. Shapes' /\ QueuesStay
  <2>1. CASE s = Main
    <3>1. QueuesStay
      BY <2>1, NothingQueued DEF StartListening, Queue
    <3> QED
      BY <2>1, <3>1 DEF Shapes, StartListening, Listen, table, conns
  <2>2. CASE s # Main
    <3>1. pending' = [pending EXCEPT ![Base] = Append(@, Lis)] /\ batch' = batch
      BY <2>2 DEF StartListening, Posted, Lis
    <3>2. /\ pending' \in [Loops -> Seq(Functors)]
          /\ Arrives(Base, Lis)
      BY <3>1, BaseIsLoop, FunctorsAreThere, Comes
    <3>3. QueuesStay
      BY <3>2, FunctorsDiffer DEF QueuesStay, Arrives
    <3> QED
      BY <2>2, <3>2, <3>3 DEF Shapes, StartListening, Listen, table, conns
  <2> QED
    BY <2>1, <2>2
<1>2. PoolFirst'
  BY DEF PoolFirst, StartListening, IoLoops, Shapes
<1>3. Stages'
  BY BaseIsLoop DEF Stages, StartListening, Listen, Posted, table, Running, Shapes
<1>4. Waiting'
  BY DEF Waiting, StartListening, conns
<1> QED
  BY <1>1, <1>2, <1>3, <1>4, ConnectionsStay DEF StartListening, Running

\* A thread enters loop(): main() that of the base loop, threadFunc() that of an I/O loop.
LEMMA BeginKeeps ==
  ASSUME IInv, NEW l \in Loops, Begin(l),
         (l = Base /\ phase[l] = "init") \/ phase[l] = "entering"
  PROVE  IInv'
<1> USE DEF IInv, startup
<1>1. /\ UNCHANGED <<startup, listening, table, mainPc, batch, exiting, cutOff, pending, peer,
                     backlog, conns>>
      /\ \A k \in Loops : /\ phase'[k] = IF k = l THEN "handle" ELSE phase[k]
                          /\ quit'[k] => quit[k]
  BY DEF Begin, Shapes
<1>2. Shapes'
  BY DEF Shapes, Begin, table, conns
<1>3. QueuesStay /\ \A k \in Loops : Queued(k, Lis)' <=> Queued(k, Lis)
  BY <1>1, NothingQueued DEF Queue
<1>4. PoolFirst'
  <2>1. IoLoops' = IoLoops /\ \A k \in IoLoops : k \in Loops /\ k # Base
    BY <1>1, IoLoopsAreLoops DEF IoLoops
  <2>2. \A k \in Loops : numThreads < k => k # l
    BY ServerAssumption DEF PoolFirst, Shapes, Base
  <2> QED
    BY <1>1, <1>3, <2>1, <2>2, BaseIsLoop DEF PoolFirst
<1>5. Stages'
  BY <1>1, BaseIsLoop DEF Stages, table, Running
<1>6. Waiting'
  BY <1>1 DEF Waiting, conns
<1> QED
  BY <1>1, <1>2, <1>3, <1>4, <1>5, <1>6, BaseIsLoop, ConnectionsStay DEF Running

\* The loop takes what is pending as its next batch.
LEMMA SwapKeeps ==
  ASSUME IInv, NEW l \in Loops, Swap(l)
  PROVE  IInv'
<1> USE DEF IInv
<1>1. batch[l] = << >> /\ pending[l] \in Seq(Functors)
  BY DEF Stages, Shapes, Swap
<1>2. \A k \in Loops : Queue(k)' = Queue(k)
  <2>1. << >> \o pending[l] = pending[l] /\ pending[l] \o << >> = pending[l]
    BY <1>1, ConcatEmptySeq
  <2> QED
    BY <1>1, <2>1 DEF Swap, Queue, Shapes
<1>3. QueuesStay /\ \A k \in Loops : Queued(k, Lis)' <=> Queued(k, Lis)
  BY <1>2, NothingQueued
<1>4. Shapes'
  BY <1>1, EmptySeq DEF Shapes, Swap, startup, table, conns
<1>5. PoolFirst'
  BY <1>3, BaseIsLoop, IoLoopsAreLoops DEF PoolFirst, Swap, startup, IoLoops, Shapes
<1>6. Stages'
  BY DEF Stages, Swap, startup, table, Running, Shapes
<1>7. Waiting'
  BY DEF Waiting, Swap, conns
<1> QED
  BY <1>3, <1>4, <1>5, <1>6, <1>7, ConnectionsStay DEF Swap, Running, Shapes, startup

\* A queue that is dropped is empty.
LEMMA Dropped ==
  ASSUME Shapes, NEW l \in Loops, batch[l] = << >>,
         pending' = [pending EXCEPT ![l] = << >>], batch' = batch
  PROVE  /\ pending' \in [Loops -> Seq(Functors)]
         /\ \A f : ~Queued(l, f)' /\ QueuedOnce(l, f)'
         /\ \A k \in Loops : k # l =>
              \A g : /\ Queued(k, g)' <=> Queued(k, g)
                     /\ QueuedOnce(k, g)' <=> QueuedOnce(k, g)
                     /\ \A h : Followed(k, g, h)' <=> Followed(k, g, h)
<1>1. << >> \in Seq(Functors) /\ Len(<< >>) = 0 /\ << >> \o << >> = << >>
  BY EmptySeq, ConcatEmptySeq
<1>2. Queue(l)' = << >> /\ \A k \in Loops : k # l => Queue(k)' = Queue(k)
  BY <1>1 DEF Queue, Shapes
<1> QED
  BY <1>1, <1>2 DEF Shapes, Queued, QueuedOnce, Followed, Once

\* The test of quit_ after a batch.
LEMMA EndBatchKeeps ==
  ASSUME IInv, NEW l \in Loops, EndBatch(l)
  PROVE  IInv'
<1> USE DEF IInv
<1>1. CASE quit[l] /\ l # Base
  <2>1. batch[l] = << >> /\ pending' = [pending EXCEPT ![l] = << >>] /\ batch' = batch
    BY <1>1 DEF EndBatch
  <2>2. cutOff' = cutOff \cup {c \in Clients : Queued(l, Des(c))}
    BY <1>1 DEF EndBatch, Des
  <2>3. phase[l] = "run" /\ phase' = [phase EXCEPT ![l] = "done"]
    BY <1>1 DEF EndBatch
  <2>4. mainPc \notin {"serving", "connections", "destroyed", "ended"}
    BY <1>1, <2>3 DEF Stages, Running
  <2>5. /\ pending' \in [Loops -> Seq(Functors)]
        /\ \A f : ~Queued(l, f)' /\ QueuedOnce(l, f)'
        /\ \A k \in Loops : k # l =>
             \A g : /\ Queued(k, g)' <=> Queued(k, g)
                    /\ QueuedOnce(k, g)' <=> QueuedOnce(k, g)
                    /\ \A h : Followed(k, g, h)' <=> Followed(k, g, h)
    BY <2>1, Dropped
  <2>6. Shapes'
    BY <2>1, <2>2, <2>3, <2>5 DEF Shapes, EndBatch, startup, table, conns
  <2>7. PoolFirst'
    <3>1. /\ UNCHANGED <<numThreads, started, startPc, listening>>
          /\ Queued(Base, Lis)' <=> Queued(Base, Lis)
          /\ \A k \in Loops : phase'[k] = IF k = l THEN "done" ELSE phase[k]
      BY <1>1, <2>3, <2>5, BaseIsLoop DEF EndBatch, startup, Shapes
    <3>2. IoLoops' = IoLoops /\ \A k \in IoLoops : k \in Loops
      BY <3>1, IoLoopsAreLoops DEF IoLoops
    <3> QED
      BY <2>3, <3>1, <3>2 DEF PoolFirst
  <2>8. Stages'
    BY <1>1, <2>1, <2>3, <2>4 DEF Stages, EndBatch, startup, table, Running, Shapes
  <2>9. RightLoop' /\ Names' /\ Waiting' /\ BaseLoopOnlyAccepts'
    BY <2>5 DEF RightLoop, Names, Waiting, BaseLoopOnlyAccepts, EndBatch, startup, table, conns
  <2>10. /\ UNCHANGED <<registered, loopOf, state, told, connections>>
         /\ \A k \in Loops : phase'[k] = IF k = l THEN "done" ELSE phase[k]
         /\ \A c \in Clients : loopOf[c] \in Loops
    BY <2>3 DEF EndBatch, table, conns, Shapes
  <2>11. Lives'
    <3>1. \A k \in Loops : \A g : /\ Queued(k, g)' => Queued(k, g)
                                  /\ QueuedOnce(k, g) => QueuedOnce(k, g)'
      BY <2>5
    <3> QED
      BY <2>10, <3>1, BaseIsLoop DEF Lives
  <2>12. Kept'
    BY <2>5, <2>10 DEF Kept, Running, Owned
  <2>13. EndsLater'
    BY <2>2, <2>4, <2>5, <2>10 DEF EndsLater, Owned
  <2> QED
    BY <2>6, <2>7, <2>8, <2>9, <2>11, <2>12, <2>13
<1>2. CASE ~(quit[l] /\ l # Base)
  <2>1. /\ UNCHANGED <<pending, batch, cutOff, quit, exiting, startup, listening, table, mainPc,
                       peer, backlog, conns>>
        /\ batch[l] = << >> /\ phase[l] = "run"
        /\ phase' = [phase EXCEPT ![l] = IF quit[l] THEN "done" ELSE "handle"]
    BY <1>2 DEF EndBatch
  <2>2. QueuesStay /\ \A k \in Loops : Queued(k, Lis)' <=> Queued(k, Lis)
    BY <2>1, NothingQueued DEF Queue
  <2>3. Shapes'
    BY <2>1 DEF Shapes, startup, table, conns
  <2>4. PoolFirst'
    BY <2>1, <2>2, BaseIsLoop, IoLoopsAreLoops DEF PoolFirst, startup, IoLoops, Shapes
  <2>5. Stages'
    BY <1>2, <2>1 DEF Stages, startup, table, Running, Shapes
  <2>6. Waiting'
    BY <2>1 DEF Waiting, conns
  <2> QED
    BY <2>1, <2>2, <2>3, <2>4, <2>5, <2>6, ConnectionsStay DEF Running, Shapes, startup
<1> QED
  BY <1>1, <1>2

\* quit() of the base loop; ~EventLoopThread's of an I/O loop.
LEMMA QuitKeeps ==
  ASSUME IInv, QuitBase \/ \E l \in IoLoops : QuitThread(l)
  PROVE  IInv'
<1> USE DEF IInv, Stage
<1>1. /\ UNCHANGED <<startup, listening, table, mainPc, phase, batch, cutOff, pending, peer,
                     backlog, conns>>
      /\ quit' \in [Loops -> BOOLEAN] /\ exiting' \subseteq Loops
      /\ mainPc \in {"serving", "connections"} => \A l \in Loops : l # Base => quit'[l] = quit[l]
  BY BaseIsLoop, IoLoopsAreLoops DEF QuitBase, QuitThread, Shapes, table
<1>2. QueuesStay /\ \A k \in Loops : Queued(k, Lis)' <=> Queued(k, Lis)
  BY <1>1, NothingQueued DEF Queue
<1>3. Shapes'
  BY <1>1 DEF Shapes, startup, table, conns
<1>4. PoolFirst'
  BY <1>1, <1>2, BaseIsLoop DEF PoolFirst, startup, IoLoops
<1>5. Stages'
  BY <1>1 DEF Stages, startup, table, Running
<1>6. Waiting'
  BY <1>1 DEF Waiting, conns
<1> QED
  BY <1>1, <1>2, <1>3, <1>4, <1>5, <1>6, ConnectionsStay DEF Running, startup

\* The stages of ~TcpServer and of main() that touch no connection.
LEMMA BeginDestroyKeeps ==
  ASSUME IInv, BeginDestroy \/ ConnectionsDestroyed
  PROVE  IInv'
<1> USE DEF IInv, Stage, BeginDestroy, ConnectionsDestroyed
<1>1. /\ UNCHANGED <<startup, listening, nextConnId, name, loopOf, connections, loops, pending,
                     peer, backlog, conns>>
      /\ \/ /\ mainPc = "serving" /\ mainPc' = "connections" /\ phase[Base] = "done"
            /\ \A s \in Callers : startPc[s] \in {"idle", "done"}
         \/ mainPc = "connections" /\ mainPc' = "pool" /\ DOMAIN connections = {}
  BY DEF NoneLeft
<1>2. QueuesStay /\ \A k \in Loops : Queued(k, Lis)' <=> Queued(k, Lis)
  BY <1>1, NothingQueued DEF Queue, loops
<1>3. Shapes'
  BY <1>1 DEF Shapes, startup, loops, conns
<1>4. PoolFirst'
  BY <1>1, <1>2, BaseIsLoop DEF PoolFirst, startup, loops, IoLoops
<1>5. Stages'
  BY <1>1 DEF Stages, startup, loops, Running
<1>6. Waiting'
  BY <1>1 DEF Waiting, conns
<1>7. UNCHANGED <<numThreads, table, conns, cutOff, phase>> /\ mainPc # "ended"
  BY <1>1 DEF startup, loops, table
<1> QED
  BY <1>2, <1>3, <1>4, <1>5, <1>6, <1>7, ConnectionsStay DEF Running

\* The pool and the Acceptor are gone.
LEMMA MembersDestroyedKeeps ==
  ASSUME IInv, MembersDestroyed
  PROVE  IInv'
<1> USE DEF IInv, Stage, MembersDestroyed
<1>1. /\ UNCHANGED <<startup, nextConnId, name, loopOf, connections, loops, pending, peer, conns>>
      /\ listening' = FALSE /\ backlog' = << >>
      /\ mainPc = "pool" /\ mainPc' = "destroyed"
  OBVIOUS
<1>2. QueuesStay /\ \A k \in Loops : Queued(k, Lis)' <=> Queued(k, Lis)
  BY <1>1, NothingQueued DEF Queue, loops
<1>3. Shapes'
  BY <1>1, EmptySeq DEF Shapes, startup, loops, conns
<1>4. PoolFirst'
  BY <1>1, <1>2, BaseIsLoop DEF PoolFirst, startup, loops, IoLoops
<1>5. \A l \in Loops : ~Running(l)
  <2>1. SUFFICES ASSUME NEW l \in Loops
                 PROVE  ~Running(l)
    OBVIOUS
  <2>2. CASE l = Base
    BY <1>1, <2>2 DEF Stages, Running
  <2>3. CASE l \in IoLoops
    BY <2>3
  <2>4. CASE l # Base /\ l \notin IoLoops
    BY <2>4, ServerAssumption DEF PoolFirst, IoLoops, Shapes, Loops, Base, Running
  <2> QED
    BY <2>2, <2>3, <2>4
<1>6. Stages'
  BY <1>1, <1>5 DEF Stages, startup, loops, Running
<1>7. Waiting'
  BY <1>1 DEF Waiting, conns
<1>8. UNCHANGED <<numThreads, table, conns, cutOff, phase>> /\ mainPc # "ended"
  BY <1>1 DEF startup, loops, table
<1> QED
  BY <1>2, <1>3, <1>4, <1>6, <1>7, <1>8, ConnectionsStay DEF Running

\* ~EventLoop of the base loop.
LEMMA LoopDestroyedKeeps ==
  ASSUME IInv, LoopDestroyed
  PROVE  IInv'
<1> USE DEF IInv, Stage, LoopDestroyed
<1>1. /\ UNCHANGED <<startup, listening, nextConnId, name, loopOf, connections, loops, peer,
                     backlog, conns>>
      /\ pending' = [pending EXCEPT ![Base] = << >>]
      /\ mainPc = "destroyed" /\ mainPc' = "ended"
  OBVIOUS
<1>2. batch[Base] = << >> /\ \A l \in Loops : ~Running(l)
  BY <1>1, BaseIsLoop DEF Stages, Running
<1>3. /\ pending' \in [Loops -> Seq(Functors)]
      /\ \A f : ~Queued(Base, f)' /\ QueuedOnce(Base, f)'
      /\ \A k \in Loops : k # Base =>
           \A g : /\ Queued(k, g)' <=> Queued(k, g)
                  /\ QueuedOnce(k, g)' <=> QueuedOnce(k, g)
                  /\ \A h : Followed(k, g, h)' <=> Followed(k, g, h)
  BY <1>1, <1>2, BaseIsLoop, Dropped DEF loops
<1>4. \A k \in Loops : \A g : /\ Queued(k, g)' => Queued(k, g)
                              /\ QueuedOnce(k, g) => QueuedOnce(k, g)'
  BY <1>3
<1>5. Shapes'
  BY <1>1, <1>3 DEF Shapes, startup, loops, conns
<1>6. PoolFirst'
  BY <1>1, <1>4, BaseIsLoop DEF PoolFirst, startup, loops, IoLoops
<1>7. Stages'
  BY <1>1, <1>2 DEF Stages, startup, loops, Running, Shapes
<1>8. Waiting' /\ Names' /\ RightLoop' /\ BaseLoopOnlyAccepts'
  BY <1>1, <1>4 DEF Waiting, Names, RightLoop, BaseLoopOnlyAccepts, conns, startup
<1>9. \A c \in Clients : loopOf[c] \in Loops
  BY DEF Shapes
<1>10. Lives'
  BY <1>1, <1>4, <1>9, BaseIsLoop DEF Lives, conns, loops
<1>11. Kept'
  BY <1>1, <1>2, <1>9 DEF Kept, Running, loops
<1>12. EndsLater'
  BY <1>1 DEF EndsLater
<1> QED
  BY <1>5, <1>6, <1>7, <1>8, <1>10, <1>11, <1>12

\* A client connects or leaves.
LEMMA ClientKeeps ==
  ASSUME IInv, NEW c \in Clients, Connect(c) \/ Disconnect(c)
  PROVE  IInv'
<1> USE DEF IInv
<1>1. /\ UNCHANGED <<startup, listening, table, mainPc, loops, pending, conns>>
      /\ \/ /\ peer[c] = "away" /\ peer' = [peer EXCEPT ![c] = "here"]
            /\ backlog' = Append(backlog, c)
         \/ /\ peer[c] = "here" /\ peer' = [peer EXCEPT ![c] = "gone"]
            /\ backlog' = backlog
  BY DEF Connect, Disconnect
<1>2. QueuesStay /\ \A k \in Loops : Queued(k, Lis)' <=> Queued(k, Lis)
  BY <1>1, NothingQueued DEF Queue, loops
<1>3. Shapes'
  <2>1. Append(backlog, c) \in Seq(Clients)
    BY AppendProperties DEF Shapes
  <2> QED
    BY <1>1, <2>1 DEF Shapes, startup, table, loops, conns
<1>4. PoolFirst'
  BY <1>1, <1>2, BaseIsLoop DEF PoolFirst, startup, loops, IoLoops
<1>5. Stages'
  BY <1>1 DEF Stages, startup, table, loops, Running
<1>6. Waiting'
  <2>1. /\ backlog \in Seq(Clients)
        /\ \A i \in 1..Len(backlog) : backlog[i] \in Clients
    BY DEF Shapes
  <2>2. CASE peer[c] = "away" /\ backlog' = Append(backlog, c)
    <3>1. \A i \in 1..Len(backlog) : backlog[i] # c
      BY <2>2 DEF Waiting
    <3>2. /\ Len(backlog') = Len(backlog) + 1 /\ Len(backlog) \in Nat
          /\ \A i \in 1..Len(backlog) : backlog'[i] = backlog[i]
          /\ backlog'[Len(backlog) + 1] = c
      BY <2>1, <2>2, AppendProperties
    <3>3. /\ state' = state /\ state[c] = "none"
          /\ \A d \in Clients : peer'[d] = IF d = c THEN "here" ELSE peer[d]
      BY <1>1, <2>2 DEF Waiting, conns, Shapes
    <3>4. \A i \in 1..Len(backlog') :
            /\ i \in 1..Len(backlog) \/ i = Len(backlog) + 1
            /\ state'[backlog'[i]] = "none" /\ peer'[backlog'[i]] # "away"
      BY <2>1, <3>2, <3>3 DEF Waiting
    <3>5. \A i, j \in 1..Len(backlog') : backlog'[i] = backlog'[j] => i = j
      BY <3>1, <3>2, <3>4 DEF Waiting
    <3> QED
      BY <3>3, <3>4, <3>5 DEF Waiting
  <2>3. CASE peer[c] = "here" /\ backlog' = backlog
    <3>1. /\ state' = state /\ backlog' = backlog
          /\ \A d \in Clients : peer'[d] = IF d = c THEN "gone" ELSE peer[d]
      BY <1>1, <2>3 DEF conns, Shapes
    <3>2. \A i \in 1..Len(backlog) : state[backlog[i]] = "none" /\ peer'[backlog[i]] # "away"
      BY <2>1, <3>1 DEF Waiting
    <3>3. \A d \in Clients : peer'[d] = "away" => state[d] = "none"
      BY <3>1 DEF Waiting
    <3>4. \A i, j \in 1..Len(backlog) : backlog[i] = backlog[j] => i = j
      BY DEF Waiting
    <3> QED
      BY <3>1, <3>2, <3>3, <3>4 DEF Waiting
  <2> QED
    BY <1>1, <2>2, <2>3
<1>7. UNCHANGED <<numThreads, table, conns, cutOff, phase, mainPc>>
  BY <1>1 DEF startup, loops
<1> QED
  BY <1>2, <1>3, <1>4, <1>5, <1>6, <1>7, ConnectionsStay DEF Running

-----------------------------------------------------------------------------
\* Steps of a connection.  What they all leave alone:
Elsewhere ==
  UNCHANGED <<numThreads, fdLimit, started, startPc, mainPc, phase, quit, exiting, cutOff, peer>>

\* erase() takes one connection out of the table and leaves the others.
LEMMA Erased ==
  ASSUME IInv, NEW c \in Clients, state[c] # "none", Erase(name[c])
  PROVE  /\ Owned' \subseteq Owned
         /\ \A d \in Clients : (d # c /\ d \in Owned) => d \in Owned'
         /\ \A n \in DOMAIN connections' : n \in DOMAIN connections /\ connections'[n] = connections[n]
<1>1. /\ DOMAIN connections' = DOMAIN connections \ {name[c]}
      /\ \A n \in DOMAIN connections' : n \in DOMAIN connections /\ connections'[n] = connections[n]
  BY DEF Erase
<1>2. ASSUME NEW d \in Clients, d # c, d \in Owned
      PROVE  d \in Owned'
  <2>1. PICK n \in DOMAIN connections : connections[n] = d
    BY <1>2 DEF Owned
  <2>2. n # name[c]
    BY <1>2, <2>1 DEF IInv, Names
  <2> QED
    BY <1>1, <2>1, <2>2 DEF Owned
<1> QED
  BY <1>1, <1>2 DEF Owned

\* shutdown() in a callback.
LEMMA ShutdownKeeps ==
  ASSUME IInv, NEW c \in Clients, Shutdown(c)
  PROVE  IInv'
<1> USE DEF IInv
<1>1. /\ UNCHANGED <<startup, listening, table, mainPc, loops, pending, peer, backlog,
                     registered, held, told>>
      /\ state[c] = "kConnected" /\ state' = [state EXCEPT ![c] = "kDisconnecting"]
  BY DEF Shutdown
<1>2. \A k \in Loops : \A g :
        /\ Queued(k, g)' <=> Queued(k, g)
        /\ QueuedOnce(k, g)' <=> QueuedOnce(k, g)
        /\ \A h : Followed(k, g, h)' <=> Followed(k, g, h)
  BY <1>1, SameQueues DEF Queue, loops
<1>3. \A d \in Clients : state'[d] = IF d = c THEN "kDisconnecting" ELSE state[d]
  BY <1>1 DEF Shapes
<1>4. \A d \in Clients : loopOf[d] \in Loops
  BY DEF Shapes
<1>5. Shapes'
  BY <1>1 DEF Shapes, startup, table, loops
<1>6. PoolFirst'
  BY <1>1, <1>2, BaseIsLoop DEF PoolFirst, startup, loops, IoLoops
<1>7. Stages' /\ RightLoop'
  BY <1>1, <1>2 DEF Stages, RightLoop, startup, table, loops, Running
<1>8. Waiting'
  <2>1. \A i \in 1..Len(backlog) : backlog[i] \in Clients
    BY DEF Shapes
  <2> QED
    BY <1>1, <1>3, <2>1 DEF Waiting
<1>9. Names'
  BY <1>1, <1>3 DEF Names, table
<1>10. Lives'
  BY <1>1, <1>2, <1>3, <1>4, BaseIsLoop DEF Lives, table, loops
<1>11. Kept'
  BY <1>1, <1>2, <1>4 DEF Kept, Owned, Running, table, loops
<1>12. EndsLater'
  BY <1>1, <1>2, <1>3, <1>4 DEF EndsLater, Owned, table, loops
<1>13. BaseLoopOnlyAccepts'
  BY <1>1, <1>3 DEF BaseLoopOnlyAccepts, startup, table
<1> QED
  BY <1>5, <1>6, <1>7, <1>8, <1>9, <1>10, <1>11, <1>12, <1>13

\* What start() has done stays done.
LEMMA PoolStays ==
  ASSUME IInv, Elsewhere, listening' = listening,
         Queued(Base, Lis)' => Queued(Base, Lis)
  PROVE  PoolFirst'
BY DEF IInv, PoolFirst, Elsewhere, IoLoops

\* The user is told of the end of a connection.
LEMMA ToldDown ==
  ASSUME IInv, NEW c \in Clients, state[c] \in {"kConnected", "kDisconnecting"}, TellDown(c)
  PROVE  /\ state' = [state EXCEPT ![c] = "kDisconnected"]
         /\ told' = [told EXCEPT ![c] = <<"up", "down">>]
         /\ held' \subseteq Clients
<1>1. told[c] = <<"up">>
  BY DEF IInv, Lives
<1>2. Append(<<"up">>, "down") = <<"up", "down">>
  <2> DEFINE S == {"up", "down"}
             a == Append(<<"up">>, "down")
             b == <<"up", "down">>
  <2>1. <<"up">> \in Seq(S) /\ Len(<<"up">>) = 1 /\ <<"up">>[1] = "up"
    OBVIOUS
  <2>2. b \in Seq(S) /\ Len(b) = 2 /\ b[1] = "up" /\ b[2] = "down"
    OBVIOUS
  <2>3. /\ a \in Seq(S) /\ Len(a) = Len(<<"up">>) + 1
        /\ \A i \in 1..Len(<<"up">>) : a[i] = <<"up">>[i]
        /\ a[Len(<<"up">>) + 1] = "down"
    BY <2>1, AppendProperties
  <2>4. Len(a) = 2 /\ a[1] = "up" /\ a[2] = "down"
    BY <2>1, <2>3
  <2>5. a \in Seq(S) /\ b \in Seq(S) /\ Len(a) = Len(b) /\ \A i \in 1..Len(a) : a[i] = b[i]
    BY <2>2, <2>3, <2>4
  <2> HIDE DEF a, b, S
  <2> QED
    BY <2>5, SeqEqual DEF a, b
<1> QED
  BY <1>1, <1>2 DEF TellDown, IInv, Shapes

\* connectDestroyed() tells it only of a connected one.
LEMMA ConnectDestroyedTells ==
  ASSUME IInv, NEW c \in Clients, ConnectDestroyed(c)
  PROVE  /\ registered' = registered \ {c} /\ held' \subseteq Clients
         /\ state' = [state EXCEPT ![c] = IF @ = "kConnected" THEN "kDisconnected" ELSE @]
         /\ told' = [told EXCEPT ![c] =
                       IF state[c] = "kConnected" THEN <<"up", "down">> ELSE @]
<1>1. CASE state[c] = "kConnected"
  BY <1>1, ToldDown DEF ConnectDestroyed
<1>2. CASE state[c] # "kConnected"
  BY <1>2 DEF ConnectDestroyed, IInv, Shapes
<1> QED
  BY <1>1, <1>2

\* connectDestroyed(), as long as somebody still has to erase the connection or nobody
\* runs its loop any more.
LEMMA DestroyKeeps ==
  ASSUME IInv, NEW c \in Clients, ConnectDestroyed(c), Elsewhere,
         Shapes', Stages', PoolFirst',
         UNCHANGED <<loopOf, name, nextConnId, backlog>>,
         state[c] # "none",
         connections' = connections \/ (Erase(name[c]) /\ ~Running(loopOf[c])),
         \A k \in Loops : \A g :
           /\ Queued(k, g)' => Queued(k, g)
           /\ (g # Des(c) /\ g # Lis) => (Queued(k, g)' <=> Queued(k, g))
           /\ QueuedOnce(k, g) => QueuedOnce(k, g)'
           /\ \A h : Followed(k, g, h) => Followed(k, g, h)'
  PROVE  IInv'
<1> USE DEF IInv
<1>1. /\ registered' = registered \ {c}
      /\ \A d \in Clients :
           /\ state'[d] = IF d = c /\ state[c] = "kConnected" THEN "kDisconnected" ELSE state[d]
           /\ told'[d] = IF d = c /\ state[c] = "kConnected" THEN <<"up", "down">> ELSE told[d]
  <2>1. /\ registered' = registered \ {c}
        /\ state' = [state EXCEPT ![c] = IF @ = "kConnected" THEN "kDisconnected" ELSE @]
        /\ told' = [told EXCEPT ![c] = IF state[c] = "kConnected" THEN <<"up", "down">> ELSE @]
    BY ConnectDestroyedTells
  <2>2. DOMAIN state = Clients /\ DOMAIN told = Clients
    BY DEF Shapes
  <2> QED
    BY <2>1, <2>2
<1>2. /\ \A d \in Clients : loopOf[d] \in Loops
      /\ \A i \in 1..Len(backlog) : backlog[i] \in Clients
      /\ Base \in Loops
  <2>1. loopOf \in [Clients -> Loops] /\ backlog \in Seq(Clients)
    BY DEF Shapes
  <2> QED
    BY <2>1, BaseIsLoop
<1>3. /\ \A d \in Clients : (d # c /\ d \in Owned) => d \in Owned'
      /\ Running(loopOf[c]) => Owned' = Owned
      /\ \A n \in DOMAIN connections' : n \in DOMAIN connections /\ connections'[n] = connections[n]
  <2>1. CASE connections' = connections
    BY <2>1 DEF Owned
  <2>2. CASE Erase(name[c]) /\ ~Running(loopOf[c])
    BY <2>2, Erased
  <2> QED
    BY <2>1, <2>2
<1>4. RightLoop'
  BY DEF RightLoop
<1>5. Waiting'
  BY <1>1, <1>2 DEF Waiting, Elsewhere
<1>6. Names'
  BY <1>1, <1>3 DEF Names
<1>7. Lives'
  BY <1>1, <1>2 DEF Lives, Elsewhere
<1>8. Kept'
  <2>1. SUFFICES ASSUME NEW d \in Clients, Running(loopOf[d])
                 PROVE  /\ d \in registered' => d \in Owned' \/ Queued(loopOf[d], Des(d))'
                        /\ d \in Owned' \/ Followed(loopOf[d], Est(d), Des(d))'
    BY DEF Kept, Elsewhere, Running
  <2>2. /\ d \in registered => d \in Owned \/ Queued(loopOf[d], Des(d))
        /\ d \in Owned \/ Followed(loopOf[d], Est(d), Des(d))
    BY <2>1 DEF Kept
  <2>3. d # c => Des(d) # Des(c) /\ Des(d) # Lis
    BY FunctorsDiffer
  <2> QED
    BY <1>1, <1>2, <1>3, <2>1, <2>2, <2>3
<1>9. EndsLater'
  <2>1. \A d \in Clients : d # c => Des(d) # Des(c) /\ Des(d) # Lis
    BY FunctorsDiffer
  <2> QED
    BY <1>1, <1>2, <1>3, <2>1 DEF EndsLater, Elsewhere
<1>10. BaseLoopOnlyAccepts'
  BY <1>1 DEF BaseLoopOnlyAccepts, Elsewhere
<1> QED
  BY <1>4, <1>5, <1>6, <1>7, <1>8, <1>9, <1>10

\* The connection leaves the table, and its connectDestroyed is queued on its loop.
LEMMA RemoveKeeps ==
  ASSUME IInv, NEW c \in Clients, state[c] # "none", Erase(name[c]), Elsewhere,
         Shapes', Stages', PoolFirst',
         UNCHANGED <<loopOf, name, nextConnId, backlog, registered>>,
         \A d \in Clients : \/ state'[d] = state[d] /\ told'[d] = told[d]
                            \/ /\ d = c /\ state[c] \in {"kConnected", "kDisconnecting"}
                               /\ state'[c] = "kDisconnected" /\ told'[c] = <<"up", "down">>,
         loopOf[c] = Base => state'[c] = "kDisconnected",
         \A k \in Loops : \A g :
           Queued(k, g)' => Queued(k, g) \/ (k = loopOf[c] /\ g = Des(c)),
         Queued(loopOf[c], Des(c))' /\ Followed(loopOf[c], Est(c), Des(c))',
         \A k \in Loops : \A d \in Clients :
           /\ Queued(k, Des(d)) => Queued(k, Des(d))'
           /\ QueuedOnce(k, Est(d)) => QueuedOnce(k, Est(d))'
           /\ Followed(k, Est(d), Des(d)) => Followed(k, Est(d), Des(d))'
  PROVE  IInv'
<1> USE DEF IInv
<1>1. /\ \A d \in Clients : loopOf[d] \in Loops
      /\ \A i \in 1..Len(backlog) : backlog[i] \in Clients
      /\ Base \in Loops
  <2>1. loopOf \in [Clients -> Loops] /\ backlog \in Seq(Clients)
    BY DEF Shapes
  <2> QED
    BY <2>1, BaseIsLoop
<1>2. /\ \A d \in Clients : (d # c /\ d \in Owned) => d \in Owned'
      /\ \A n \in DOMAIN connections' : n \in DOMAIN connections /\ connections'[n] = connections[n]
  BY Erased
<1>3. \A k \in Loops : \A d \in Clients :
        /\ Queued(k, Lis)' => Queued(k, Lis)
        /\ Queued(k, Est(d))' => Queued(k, Est(d))
        /\ Queued(k, Rem(d))' => Queued(k, Rem(d))
        /\ Queued(k, Des(d))' => Queued(k, Des(d)) \/ (k = loopOf[c] /\ d = c)
  BY FunctorsDiffer
<1>4. RightLoop'
  BY <1>3 DEF RightLoop
<1>5. Waiting'
  BY <1>1 DEF Waiting, Elsewhere
<1>6. Names'
  BY <1>2 DEF Names
<1>7. Lives'
  <2>1. SUFFICES ASSUME NEW d \in Clients
                 PROVE  /\ state'[d] = "none" =>
                             /\ d \notin registered
                             /\ \A l \in Loops : ~Queued(l, Est(d))' /\ ~Queued(l, Des(d))'
                                                   /\ ~Queued(l, Rem(d))'
                        /\ state'[d] # "none" => phase[loopOf[d]] # "init"
                        /\ state'[d] \in {"none", "kConnecting"} => told'[d] = << >>
                        /\ state'[d] \in {"kConnected", "kDisconnecting"} => told'[d] = <<"up">>
                        /\ state'[d] = "kDisconnected" => told'[d] = <<"up", "down">>
                        /\ \A l \in Loops :
                             /\ Queued(l, Est(d))' => state'[d] = "kConnecting"
                             /\ QueuedOnce(l, Est(d))'
                             /\ Queued(l, Rem(d))' => state'[d] = "kDisconnected"
                        /\ Queued(Base, Des(d))' => state'[d] = "kDisconnected"
    BY DEF Lives, Elsewhere
  <2> QED
    BY <1>1, <1>3 DEF Lives
<1>8. Kept'
  BY <1>1, <1>2 DEF Kept, Elsewhere, Running
<1>9. EndsLater'
  BY <1>1, <1>2 DEF EndsLater, Elsewhere
<1>10. BaseLoopOnlyAccepts'
  BY DEF BaseLoopOnlyAccepts, Elsewhere
<1> QED
  BY <1>4, <1>5, <1>6, <1>7, <1>8, <1>9, <1>10

\* ~TcpServer goes through connections_.
LEMMA DestroyConnectionKeeps ==
  ASSUME IInv, NEW n, DestroyConnection(n)
  PROVE  IInv'
<1>1. /\ UNCHANGED <<startup, nextConnId, name, loopOf, peer, listening, loops, backlog>>
      /\ mainPc = "connections" /\ mainPc' = mainPc
      /\ n \in DOMAIN connections /\ Erase(n)
  BY DEF DestroyConnection, Stage
<1>2. PICK c \in Clients : c = connections[n] /\ state[c] # "none" /\ name[c] = n
  BY <1>1 DEF IInv, Names
<1>3. Elsewhere
  BY <1>1 DEF Elsewhere, startup, loops
<1>4. PICK l \in Loops : l = loopOf[c] /\ l = loopOf'[c]
  BY <1>1, <1>2 DEF IInv, Shapes
<1>5. CASE loopOf[c] = Base
  <2>1. ConnectDestroyed(c) /\ pending' = pending
    BY <1>2, <1>5 DEF DestroyConnection
  <2>2. \A k \in Loops : \A g :
          /\ Queued(k, g)' <=> Queued(k, g)
          /\ QueuedOnce(k, g)' <=> QueuedOnce(k, g)
          /\ \A h : Followed(k, g, h)' <=> Followed(k, g, h)
    BY <1>1, <2>1, SameQueues DEF Queue, loops
  <2>3. Shapes'
    <3>1. /\ registered' = registered \ {c} /\ held' \subseteq Clients
          /\ state' = [state EXCEPT ![c] = IF @ = "kConnected" THEN "kDisconnected" ELSE @]
          /\ told' = [told EXCEPT ![c] =
                        IF state[c] = "kConnected" THEN <<"up", "down">> ELSE @]
      BY <2>1, ConnectDestroyedTells
    <3> QED
      BY <1>1, <2>1, <3>1 DEF IInv, Shapes, startup, loops
  <2>4. PoolFirst'
    BY <1>1, <1>3, <2>2, BaseIsLoop, PoolStays
  <2>5. Stages'
    BY <1>1, <2>1 DEF IInv, Stages, startup, loops, Running
  <2>6. ~Running(loopOf[c])
    BY <1>1, <1>5 DEF IInv, Stages, Running
  <2> QED
    BY <1>1, <1>2, <1>3, <2>1, <2>2, <2>3, <2>4, <2>5, <2>6, DestroyKeeps
<1>6. CASE loopOf[c] # Base
  <2>1. /\ pending' = [pending EXCEPT ![l] = Append(@, Des(c))]
        /\ UNCHANGED conns
    BY <1>2, <1>4, <1>6 DEF DestroyConnection, QueueDestroyed, Posted, Des
  <2>2. Des(c) \in Functors
    BY <1>2, FunctorsAreThere
  <2>3. /\ pending' \in [Loops -> Seq(Functors)]
        /\ Arrives(l, Des(c))
    BY <1>1, <2>1, <2>2, Comes DEF IInv, loops
  <2>4. Shapes'
    BY <1>1, <2>1, <2>3 DEF IInv, Shapes, startup, loops, conns
  <2>5. PoolFirst'
    BY <1>1, <1>3, <2>3, BaseIsLoop, FunctorsDiffer, PoolStays DEF Arrives
  <2>6. Stages'
    BY <1>1, <1>4, <2>1 DEF IInv, Stages, startup, loops, Running, Shapes
  <2>7. \A k \in Loops : \A d \in Clients :
           /\ Queued(k, Des(d)) => Queued(k, Des(d))'
           /\ QueuedOnce(k, Est(d)) => QueuedOnce(k, Est(d))'
           /\ Followed(k, Est(d), Des(d)) => Followed(k, Est(d), Des(d))'
    BY <2>3, FunctorsDiffer DEF Arrives
  <2>8. Queued(l, Des(c))' /\ Followed(l, Est(c), Des(c))'
    BY <1>4, <2>3, FunctorsDiffer DEF Arrives
  <2>9. \A d \in Clients : state'[d] = state[d] /\ told'[d] = told[d]
    BY <2>1 DEF conns
  <2> QED
    BY <1>1, <1>2, <1>3, <1>4, <1>6, <2>1, <2>3, <2>4, <2>5, <2>6, <2>7, <2>8, <2>9, RemoveKeeps
    DEF conns, Arrives
<1> QED
  BY <1>5, <1>6

\* handleClose().
LEMMA HandleCloseKeeps ==
  ASSUME IInv, NEW c \in Clients, HandleClose(c)
  PROVE  IInv'
<1> USE DEF IInv
<1>1. /\ UNCHANGED <<startup, listening, nextConnId, name, loopOf, mainPc, loops, peer, backlog,
                     registered>>
      /\ phase[loopOf[c]] = "handle"
      /\ state[c] \in {"kConnected", "kDisconnecting"}
      /\ state' = [state EXCEPT ![c] = "kDisconnected"]
      /\ told' = [told EXCEPT ![c] = <<"up", "down">>]
      /\ held' \subseteq Clients
  BY ToldDown DEF HandleClose
<1>2. PICK l \in Loops : l = loopOf[c] /\ l = loopOf'[c]
  BY <1>1 DEF Shapes
<1>3. Elsewhere
  BY <1>1 DEF Elsewhere, startup, loops
<1>4. \A d \in Clients :
        /\ state'[d] = IF d = c THEN "kDisconnected" ELSE state[d]
        /\ told'[d] = IF d = c THEN <<"up", "down">> ELSE told[d]
  BY <1>1 DEF Shapes
<1>5. CASE l = Base
  <2>1. Erase(name[c]) /\ pending' = [pending EXCEPT ![l] = Append(@, Des(c))]
    BY <1>2, <1>5 DEF HandleClose, RemoveConnectionInLoop, QueueDestroyed, Posted, Des
  <2>2. /\ pending' \in [Loops -> Seq(Functors)]
        /\ Arrives(l, Des(c))
    BY <1>1, <2>1, FunctorsAreThere, Comes DEF loops
  <2>3. Shapes'
    BY <1>1, <2>2 DEF Shapes, startup, loops
  <2>4. PoolFirst'
    BY <1>1, <1>3, <2>2, BaseIsLoop, FunctorsDiffer, PoolStays DEF Arrives
  <2>5. Stages'
    BY <1>1, <1>2, <1>5, <2>1 DEF Stages, startup, loops, Running, Shapes
  <2>6. \A k \in Loops : \A d \in Clients :
           /\ Queued(k, Des(d)) => Queued(k, Des(d))'
           /\ QueuedOnce(k, Est(d)) => QueuedOnce(k, Est(d))'
           /\ Followed(k, Est(d), Des(d)) => Followed(k, Est(d), Des(d))'
    BY <2>2, FunctorsDiffer DEF Arrives
  <2>7. Queued(l, Des(c))' /\ Followed(l, Est(c), Des(c))'
    BY <2>2, FunctorsDiffer DEF Arrives
  <2> QED
    BY <1>1, <1>2, <1>3, <1>4, <2>1, <2>2, <2>3, <2>4, <2>5, <2>6, <2>7, RemoveKeeps
    DEF Arrives
<1>6. CASE l # Base
  <2>1. /\ pending' = [pending EXCEPT ![Base] = Append(@, Rem(c))]
        /\ connections' = connections
    BY <1>2, <1>6 DEF HandleClose, Posted, Rem
  <2>2. /\ pending' \in [Loops -> Seq(Functors)]
        /\ Arrives(Base, Rem(c))
    BY <1>1, <2>1, BaseIsLoop, FunctorsAreThere, Comes DEF loops
  <2>3. \A k \in Loops : \A d \in Clients :
          /\ Queued(k, Lis)' <=> Queued(k, Lis)
          /\ Queued(k, Est(d))' <=> Queued(k, Est(d))
          /\ Queued(k, Des(d))' <=> Queued(k, Des(d))
          /\ Queued(k, Rem(d))' => Queued(k, Rem(d)) \/ (k = Base /\ d = c)
          /\ QueuedOnce(k, Est(d)) => QueuedOnce(k, Est(d))'
          /\ Followed(k, Est(d), Des(d)) => Followed(k, Est(d), Des(d))'
    BY <2>2, FunctorsDiffer DEF Arrives
  <2>4. Shapes'
    BY <1>1, <2>1, <2>2 DEF Shapes, startup, loops
  <2>5. PoolFirst'
    BY <1>1, <1>3, <2>3, BaseIsLoop, PoolStays
  <2>6. Stages'
    BY <1>1, <2>1, BaseIsLoop DEF Stages, startup, loops, Running, Shapes
  <2>7. /\ \A d \in Clients : loopOf[d] \in Loops
        /\ \A i \in 1..Len(backlog) : backlog[i] \in Clients
    BY DEF Shapes
  <2>8. RightLoop'
    BY <1>1, <2>3 DEF RightLoop
  <2>9. Waiting'
    BY <1>1, <1>4, <2>7 DEF Waiting
  <2>10. Names'
    BY <1>1, <1>4, <2>1 DEF Names
  <2>11. Lives'
    BY <1>1, <1>3, <1>4, <2>3, <2>7, BaseIsLoop DEF Lives, Elsewhere
  <2>12. Kept'
    BY <1>1, <1>3, <2>1, <2>3, <2>7 DEF Kept, Owned, Elsewhere, Running
  <2>13. EndsLater'
    BY <1>1, <1>3, <1>4, <2>1, <2>3, <2>7 DEF EndsLater, Owned, Elsewhere
  <2>14. BaseLoopOnlyAccepts'
    BY <1>1, <1>3, <1>4 DEF BaseLoopOnlyAccepts, Elsewhere
  <2> QED
    BY <2>4, <2>5, <2>6, <2>8, <2>9, <2>10, <2>11, <2>12, <2>13, <2>14
<1> QED
  BY <1>5, <1>6

-----------------------------------------------------------------------------
\* The functors, when the loop runs them.
LEMMA TakesHead ==
  ASSUME IInv, NEW l \in Loops, NEW op, NEW x, Runs(l, op, x)
  PROVE  /\ batch[l] # << >> /\ Head(batch[l]) = <<op, x>> /\ phase[l] = "run"
         /\ batch' = [batch EXCEPT ![l] = Tail(@)]
         /\ Elsewhere /\ UNCHANGED <<nextConnId, name, loopOf, backlog>>
BY DEF Runs, Elsewhere, startup

\* The queued Acceptor::listen.
LEMMA RunListenKeeps ==
  ASSUME IInv, NEW l \in Loops, Runs(l, "listen", "acceptor"), Listen,
         UNCHANGED <<connections, pending, conns>>
  PROVE  IInv'
<1> USE DEF IInv
<1>1. /\ batch[l] # << >> /\ Head(batch[l]) = Lis /\ phase[l] = "run"
      /\ batch' = [batch EXCEPT ![l] = Tail(@)]
      /\ Elsewhere /\ UNCHANGED <<nextConnId, name, loopOf, backlog>>
  BY TakesHead DEF Lis
<1>2. /\ batch' \in [Loops -> Seq(Functors)]
      /\ Leaves(l, Lis)
  BY <1>1, FunctorsAreThere, Goes
<1>3. QueuesStay
  BY <1>2, FunctorsDiffer DEF QueuesStay, Leaves
<1>4. Shapes'
  BY <1>1, <1>2 DEF Shapes, Elsewhere, Listen, conns
<1>5. l = Base /\ Queued(Base, Lis)
  BY <1>2, BaseIsLoop DEF RightLoop, Leaves
<1>6. PoolFirst'
  BY <1>1, <1>5 DEF PoolFirst, Elsewhere, IoLoops
<1>7. Stages'
  BY <1>1 DEF Stages, Elsewhere, Running, Shapes
<1>8. Waiting'
  BY <1>1 DEF Waiting, Elsewhere, conns
<1> QED
  BY <1>1, <1>3, <1>4, <1>6, <1>7, <1>8, ConnectionsStay DEF Elsewhere, Running, table

\* The queued connectDestroyed().
LEMMA RunDestroyedKeeps ==
  ASSUME IInv, NEW l \in Loops, NEW c \in Clients, Runs(l, "connectDestroyed", c),
         ConnectDestroyed(c), UNCHANGED <<connections, pending, listening>>
  PROVE  IInv'
<1>1. /\ batch[l] # << >> /\ Head(batch[l]) = Des(c) /\ phase[l] = "run"
      /\ batch' = [batch EXCEPT ![l] = Tail(@)]
      /\ Elsewhere /\ UNCHANGED <<nextConnId, name, loopOf, backlog>>
  BY TakesHead DEF Des
<1>2. /\ batch' \in [Loops -> Seq(Functors)]
      /\ Leaves(l, Des(c))
  BY <1>1, FunctorsAreThere, Goes DEF IInv
<1>3. /\ registered' = registered \ {c} /\ held' \subseteq Clients
      /\ state' = [state EXCEPT ![c] = IF @ = "kConnected" THEN "kDisconnected" ELSE @]
      /\ told' = [told EXCEPT ![c] = IF state[c] = "kConnected" THEN <<"up", "down">> ELSE @]
  BY ConnectDestroyedTells
<1>4. Shapes'
  BY <1>1, <1>2, <1>3 DEF IInv, Shapes, Elsewhere
<1>5. PoolFirst'
  BY <1>1, <1>2, BaseIsLoop, PoolStays DEF Leaves
<1>6. Stages'
  BY <1>1 DEF IInv, Stages, Elsewhere, Running, Shapes
<1>7. state[c] # "none"
  BY <1>2 DEF IInv, Lives, Leaves
<1> QED
  BY <1>1, <1>2, <1>4, <1>5, <1>6, <1>7, DestroyKeeps
  DEF Leaves

\* The queued removeConnectionInLoop().
LEMMA RunRemoveKeeps ==
  ASSUME IInv, NEW l \in Loops, NEW c \in Clients, Runs(l, "removeConnectionInLoop", c),
         RemoveConnectionInLoop(c), UNCHANGED <<conns, listening>>
  PROVE  IInv'
<1>1. /\ batch[l] # << >> /\ Head(batch[l]) = Rem(c) /\ phase[l] = "run"
      /\ batch' = [batch EXCEPT ![l] = Tail(@)]
      /\ Elsewhere /\ UNCHANGED <<nextConnId, name, loopOf, backlog>>
  BY TakesHead DEF Rem
<1>2. PICK m \in Loops : m = loopOf[c] /\ m = loopOf'[c]
  BY <1>1 DEF IInv, Shapes
<1>3. Erase(name[c]) /\ pending' = [pending EXCEPT ![m] = Append(@, Des(c))]
  BY <1>2 DEF RemoveConnectionInLoop, QueueDestroyed, Posted, Des
<1>4. /\ batch' \in [Loops -> Seq(Functors)] /\ pending' \in [Loops -> Seq(Functors)]
      /\ Moves(l, Rem(c), m, Des(c))
  <2>1. Shapes /\ Des(c) \in Functors /\ Rem(c) \in Functors /\ Rem(c) = Head(batch[l])
    BY <1>1, FunctorsAreThere DEF IInv
  <2> QED
    BY <1>1, <1>3, <2>1, GoesAndComes
<1>5. Queued(l, Rem(c))
  <2>1. Queue(l) # << >> /\ Queue(l) \in Seq(Functors) /\ Head(Queue(l)) = Rem(c)
    BY <1>1, Taking DEF IInv
  <2>2. \A g : Has(Queue(l), g) <=> g = Head(Queue(l)) \/ Has(Tail(Queue(l)), g)
    BY <2>1, OrderAfterTail
  <2> QED
    BY <2>1, <2>2 DEF Has, Queued
<1>6. l = Base /\ state[c] = "kDisconnected" /\ mainPc = "serving"
  BY <1>1, <1>5 DEF IInv, RightLoop, Lives, Stages
<1>7. Shapes'
  BY <1>1, <1>4 DEF IInv, Shapes, Elsewhere, conns
<1>8. PoolFirst'
  BY <1>1, <1>4, BaseIsLoop, FunctorsDiffer, PoolStays DEF Moves
<1>9. Stages'
  BY <1>1, <1>3, <1>6 DEF IInv, Stages, Elsewhere, Running, Shapes
<1>10. \A k \in Loops : \A d \in Clients :
         /\ Queued(k, Des(d)) => Queued(k, Des(d))'
         /\ QueuedOnce(k, Est(d)) => QueuedOnce(k, Est(d))'
         /\ Followed(k, Est(d), Des(d)) => Followed(k, Est(d), Des(d))'
  BY <1>4, FunctorsDiffer DEF Moves
<1>11. Queued(m, Des(c))' /\ Followed(m, Est(c), Des(c))'
  BY <1>4, FunctorsDiffer DEF Moves
<1>12. /\ state' = state /\ registered' = registered
       /\ \A d \in Clients : state'[d] = state[d] /\ told'[d] = told[d]
  BY DEF conns
<1> QED
  BY <1>1, <1>2, <1>3, <1>4, <1>6, <1>7, <1>8, <1>9, <1>10, <1>11, <1>12, RemoveKeeps
  DEF Moves
\* The user is told that a connection is up.
LEMMA ToldUp ==
  ASSUME IInv, NEW c \in Clients, state[c] \in {"none", "kConnecting"}, ConnectEstablished(c)
  PROVE  /\ state' = [state EXCEPT ![c] = "kConnected"]
         /\ told' = [told EXCEPT ![c] = <<"up">>]
         /\ registered' = registered \cup {c} /\ held' \subseteq Clients
<1>1. told[c] = << >>
  BY DEF IInv, Lives
<1>2. Append(<< >>, "up") = <<"up">>
  OBVIOUS
<1> QED
  BY <1>1, <1>2 DEF ConnectEstablished, IInv, Shapes

\* connectEstablished() on the connection's own loop.
LEMMA RunEstablishedKeeps ==
  ASSUME IInv, NEW l \in Loops, NEW c \in Clients, Runs(l, "connectEstablished", c),
         ConnectEstablished(c), UNCHANGED <<connections, pending, listening>>
  PROVE  IInv'
<1> USE DEF IInv
<1>1. /\ batch[l] # << >> /\ Head(batch[l]) = Est(c) /\ phase[l] = "run"
      /\ batch' = [batch EXCEPT ![l] = Tail(@)]
      /\ Elsewhere /\ UNCHANGED <<nextConnId, name, loopOf, backlog>>
  BY TakesHead DEF Est
<1>2. batch' \in [Loops -> Seq(Functors)] /\ Leaves(l, Est(c))
  BY <1>1, FunctorsAreThere, Goes
<1>3. /\ Queued(l, Est(c)) /\ ~Queued(l, Est(c))'
      /\ l = loopOf[c] /\ state[c] = "kConnecting"
  BY <1>2 DEF Leaves, Lives, RightLoop
<1>4. /\ state' = [state EXCEPT ![c] = "kConnected"]
      /\ told' = [told EXCEPT ![c] = <<"up">>]
      /\ registered' = registered \cup {c} /\ held' \subseteq Clients
  BY <1>3, ToldUp
<1>5. Shapes'
  BY <1>1, <1>2, <1>4 DEF Shapes, Elsewhere
<1>6. \A d \in Clients :
        /\ state'[d] = IF d = c THEN "kConnected" ELSE state[d]
        /\ told'[d] = IF d = c THEN <<"up">> ELSE told[d]
  BY <1>4 DEF Shapes
<1>7. \A k \in Loops : \A d \in Clients :
        /\ Queued(k, Lis)' <=> Queued(k, Lis)
        /\ Queued(k, Est(d))' <=> Queued(k, Est(d)) /\ d # c
        /\ Queued(k, Des(d))' <=> Queued(k, Des(d))
        /\ Queued(k, Rem(d))' <=> Queued(k, Rem(d))
        /\ QueuedOnce(k, Est(d)) => QueuedOnce(k, Est(d))'
        /\ Followed(k, Est(d), Des(d)) => Followed(k, Est(d), Des(d))'
  BY <1>2, <1>3, FunctorsDiffer DEF Leaves, RightLoop
<1>8. /\ \A d \in Clients : loopOf[d] \in Loops
      /\ \A i \in 1..Len(backlog) : backlog[i] \in Clients
  BY DEF Shapes
<1>9. PoolFirst'
  BY <1>1, <1>7, BaseIsLoop, PoolStays
<1>10. Stages'
  BY <1>1 DEF Stages, Elsewhere, Running, Shapes
<1>11. RightLoop'
  BY <1>1, <1>7 DEF RightLoop
<1>12. Waiting'
  BY <1>1, <1>3, <1>6, <1>8 DEF Waiting, Elsewhere
<1>13. Names'
  BY <1>1, <1>3, <1>6 DEF Names
<1>14. Lives'
  BY <1>1, <1>3, <1>4, <1>6, <1>7, BaseIsLoop DEF Lives, Elsewhere
<1>15. c \in Owned \/ Queued(l, Des(c))'
  BY <1>1, <1>2, <1>3 DEF Kept, Running, Leaves
<1>16. Kept'
  BY <1>1, <1>3, <1>4, <1>7, <1>8, <1>15 DEF Kept, Owned, Elsewhere, Running
<1>17. EndsLater'
  BY <1>1, <1>3, <1>6, <1>7, <1>8, <1>15 DEF EndsLater, Owned, Elsewhere
<1>18. BaseLoopOnlyAccepts'
  BY <1>1, <1>3, <1>6 DEF BaseLoopOnlyAccepts, Elsewhere
<1> QED
  BY <1>5, <1>9, <1>10, <1>11, <1>12, <1>13, <1>14, <1>16, <1>17, <1>18

\* Any functor.
LEMMA RunFunctorKeeps ==
  ASSUME IInv, NEW l \in Loops, RunFunctor(l)
  PROVE  IInv'
BY RunListenKeeps, RunEstablishedKeeps, RunDestroyedKeeps, RunRemoveKeeps DEF RunFunctor

-----------------------------------------------------------------------------
\* Which loop a new connection may be given: with I/O threads never the base loop, because
\* whoever listens has started the pool.
LEMMA NextLoopsAreUp ==
  ASSUME IInv, listening, phase[Base] = "handle", NEW m \in NextLoops
  PROVE  /\ m \in Loops /\ phase[m] # "init"
         /\ numThreads > 0 => m # Base
<1> DEFINE up == {l \in IoLoops : phase[l] # "init"}
<1>1. up = IoLoops
  BY DEF IInv, PoolFirst
<1>2. CASE up = {}
  <2>1. m = Base
    BY <1>2 DEF NextLoops
  <2>2. ~(numThreads > 0)
    <3>1. numThreads \in Nat /\ (numThreads > 0 => 1 \in IoLoops)
      BY ServerAssumption DEF IInv, Shapes, IoLoops
    <3> QED
      BY <1>1, <1>2, <3>1
  <2> QED
    BY <2>1, <2>2, BaseIsLoop
<1>3. CASE up # {}
  <2>1. m \in up
    BY <1>3 DEF NextLoops
  <2> QED
    BY <2>1, IoLoopsAreLoops DEF IInv
<1> QED
  BY <1>2, <1>3

\* newConnection(): the table gets a new name, whatever else happens to the connection.
LEMMA Entered ==
  ASSUME IInv, NEW c \in Clients, state[c] = "none", NEW m \in Loops, NewConnection(c, m)
  PROVE  /\ nextConnId' = nextConnId + 1
         /\ \A d \in Clients : /\ loopOf'[d] = IF d = c THEN m ELSE loopOf[d]
                               /\ name'[d] = IF d = c THEN nextConnId ELSE name[d]
         /\ \A n \in DOMAIN connections' :
              \/ n = nextConnId /\ connections'[n] = c
              \/ n \in DOMAIN connections /\ connections'[n] = connections[n]
         /\ c \in Owned' /\ Owned \subseteq Owned'
         /\ name' \in [Clients -> Nat] /\ loopOf' \in [Clients -> Loops]
<1>1. /\ nextConnId' = nextConnId + 1 /\ nextConnId \in Nat
      /\ name' = [name EXCEPT ![c] = nextConnId] /\ name \in [Clients -> Nat]
      /\ loopOf' = [loopOf EXCEPT ![c] = m] /\ loopOf \in [Clients -> Loops]
      /\ connections' = [n \in DOMAIN connections \cup {nextConnId} |->
                           IF n = nextConnId THEN c ELSE connections[n]]
  BY DEF NewConnection, NextName, IInv, Shapes
<1>2. nextConnId \notin DOMAIN connections
  BY <1>1 DEF IInv, Names
<1>3. c \in Owned' /\ Owned \subseteq Owned'
  BY <1>1, <1>2 DEF Owned
<1> QED
  BY <1>1, <1>3

\* Acceptor::handleRead().
LEMMA AcceptKeeps ==
  ASSUME IInv, Accept
  PROVE  IInv'
<1> USE DEF IInv
<1>1. /\ phase[Base] = "handle" /\ listening /\ backlog # << >> /\ backlog' = Tail(backlog)
      /\ UNCHANGED <<startup, listening, mainPc, loops, peer>>
  BY DEF Accept
<1>2. /\ backlog \in Seq(Clients) /\ Len(backlog) \in Nat \ {0}
      /\ Len(backlog') = Len(backlog) - 1 /\ backlog' \in Seq(Clients)
      /\ \A i \in 1..Len(backlog') : backlog'[i] = backlog[i + 1]
      /\ Head(backlog) = backlog[1]
  BY <1>1, HeadTailProperties, EmptySeq DEF Shapes
<1>3. PICK c \in Clients : c = Head(backlog) /\ c = backlog[1]
  BY <1>2
<1>4. PICK m \in NextLoops : NewConnection(c, m)
  BY <1>3 DEF Accept
<1>5. m \in Loops /\ phase[m] # "init" /\ (numThreads > 0 => m # Base)
  BY <1>1, NextLoopsAreUp
<1>6. /\ state[c] = "none" /\ peer[c] # "away" /\ told[c] = << >> /\ c \notin registered
      /\ \A l \in Loops : ~Queued(l, Est(c)) /\ ~Queued(l, Des(c)) /\ ~Queued(l, Rem(c))
  BY <1>2, <1>3 DEF Waiting, Lives
<1>7. Elsewhere /\ batch' = batch /\ listening' = listening
  BY <1>1 DEF Elsewhere, startup, loops
<1>8. /\ nextConnId' = nextConnId + 1
      /\ \A d \in Clients : /\ loopOf'[d] = IF d = c THEN m ELSE loopOf[d]
                            /\ name'[d] = IF d = c THEN nextConnId ELSE name[d]
      /\ \A n \in DOMAIN connections' :
           \/ n = nextConnId /\ connections'[n] = c
           \/ n \in DOMAIN connections /\ connections'[n] = connections[n]
      /\ c \in Owned' /\ Owned \subseteq Owned'
      /\ name' \in [Clients -> Nat] /\ loopOf' \in [Clients -> Loops]
  BY <1>4, <1>5, <1>6, Entered
\* What becomes of the connection: up at once on the base loop, or about to be on another.
<1>9. /\ \A d \in Clients : d # c => state'[d] = state[d] /\ told'[d] = told[d]
      /\ \/ state'[c] = "kConnected" /\ told'[c] = <<"up">> /\ registered' = registered \cup {c}
         \/ state'[c] = "kConnecting" /\ told'[c] = << >> /\ registered' = registered
      /\ held' \subseteq Clients /\ pending' \in [Loops -> Seq(Functors)]
      /\ state' \in [Clients -> {"none", "kConnecting", "kConnected", "kDisconnecting",
                                 "kDisconnected"}]
      /\ told' \in [Clients -> {<< >>, <<"up">>, <<"up", "down">>}]
      /\ \A k \in Loops : k # m => pending'[k] = pending[k]
      /\ \A k \in Loops : \A d \in Clients :
           /\ Queued(k, Lis)' <=> Queued(k, Lis)
           /\ Queued(k, Est(d))' => Queued(k, Est(d)) \/ (k = m /\ d = c /\ state'[c] = "kConnecting")
           /\ Queued(k, Des(d))' <=> Queued(k, Des(d))
           /\ Queued(k, Rem(d))' <=> Queued(k, Rem(d))
           /\ QueuedOnce(k, Est(d)) => QueuedOnce(k, Est(d))'
           /\ (d # c /\ Followed(k, Est(d), Des(d))) => Followed(k, Est(d), Des(d))'
  <2>1. CASE m = Base
    <3>1. ConnectEstablished(c) /\ pending' = pending
      BY <1>4, <2>1 DEF NewConnection
    <3>2. /\ state' = [state EXCEPT ![c] = "kConnected"]
          /\ told' = [told EXCEPT ![c] = <<"up">>]
          /\ registered' = registered \cup {c} /\ held' \subseteq Clients
      BY <1>6, <3>1, ToldUp
    <3>3. \A k \in Loops : \A g :
            /\ Queued(k, g)' <=> Queued(k, g)
            /\ QueuedOnce(k, g)' <=> QueuedOnce(k, g)
            /\ \A h : Followed(k, g, h)' <=> Followed(k, g, h)
      BY <1>7, <3>1, SameQueues DEF Queue
    <3> QED
      BY <3>1, <3>2, <3>3 DEF Shapes
  <2>2. CASE m # Base
    <3>1. /\ pending' = [pending EXCEPT ![m] = Append(@, Est(c))]
          /\ state' = [state EXCEPT ![c] = "kConnecting"]
          /\ UNCHANGED <<registered, held, told>>
      BY <1>4, <2>2 DEF NewConnection, Posted, Est
    <3>2. pending' \in [Loops -> Seq(Functors)] /\ Arrives(m, Est(c))
      BY <1>5, <1>7, <3>1, FunctorsAreThere, Comes
    <3>3. \A k \in Loops : \A d \in Clients :
           /\ Queued(k, Lis)' <=> Queued(k, Lis)
           /\ Queued(k, Est(d))' => Queued(k, Est(d)) \/ (k = m /\ d = c)
           /\ Queued(k, Des(d))' <=> Queued(k, Des(d))
           /\ Queued(k, Rem(d))' <=> Queued(k, Rem(d))
           /\ QueuedOnce(k, Est(d)) => QueuedOnce(k, Est(d))'
           /\ (d # c /\ Followed(k, Est(d), Des(d))) => Followed(k, Est(d), Des(d))'
      BY <1>6, <3>2, FunctorsDiffer DEF Arrives
    <3> QED
      BY <1>6, <3>1, <3>2, <3>3 DEF Shapes
  <2> QED
    BY <2>1, <2>2
<1>10. Shapes'
  <2>1. /\ batch' \in [Loops -> Seq(Functors)] /\ registered' \subseteq Clients
        /\ nextConnId' \in Nat
    BY <1>7, <1>8, <1>9 DEF Shapes
  <2> QED
    BY <1>2, <1>7, <1>8, <1>9, <2>1 DEF Shapes, Elsewhere
<1>11. PoolFirst'
  BY <1>7, <1>9, BaseIsLoop, PoolStays
<1>12. mainPc = "serving"
  BY <1>1 DEF Stages, Shapes
<1>13. Stages'
  BY <1>5, <1>7, <1>9, <1>12 DEF Stages, Elsewhere, Running
<1>14. \A d \in Clients : loopOf[d] \in Loops
  BY DEF Shapes
<1>15. RightLoop'
  BY <1>6, <1>8, <1>9 DEF RightLoop
<1>16. Waiting'
  <2>1. \A i \in 1..Len(backlog') : backlog'[i] \in Clients /\ backlog'[i] # c
    BY <1>2, <1>3 DEF Waiting
  <2>2. \A i, j \in 1..Len(backlog') : backlog'[i] = backlog'[j] => i = j
    BY <1>2 DEF Waiting
  <2>3. \A i \in 1..Len(backlog') : state[backlog'[i]] = "none" /\ peer[backlog'[i]] # "away"
    BY <1>2 DEF Waiting
  <2> QED
    BY <1>6, <1>7, <1>9, <2>1, <2>2, <2>3 DEF Waiting, Elsewhere
<1>17. Names'
  <2>1. nextConnId \in Nat /\ \A d \in Clients : name[d] \in Nat
    BY DEF Shapes
  <2>2. ASSUME NEW d \in Clients, state'[d] # "none"
        PROVE  name'[d] < nextConnId'
    <3>1. CASE d = c
      BY <1>8, <2>1, <3>1
    <3>2. CASE d # c
      <4>1. name[d] < nextConnId /\ name'[d] = name[d]
        BY <1>8, <1>9, <2>2, <3>2 DEF Names
      <4> QED
        BY <1>8, <2>1, <4>1
    <3> QED
      BY <3>1, <3>2
  <2>3. \A d \in Clients : (d # c /\ state[d] # "none") => name[d] # nextConnId
    BY <2>1 DEF Names
  <2>4. \A d, e \in Clients :
          (state'[d] # "none" /\ state'[e] # "none" /\ name'[d] = name'[e]) => d = e
    <3>1. \A d \in Clients :
            /\ d = c => name'[d] = nextConnId
            /\ d # c => name'[d] = name[d] /\ state'[d] = state[d]
      BY <1>8, <1>9
    <3>2. \A d, e \in Clients :
            (state[d] # "none" /\ state[e] # "none" /\ name[d] = name[e]) => d = e
      BY DEF Names
    <3> HIDE DEF IInv
    <3> QED
      BY <2>3, <3>1, <3>2
  <2>5. \A n \in DOMAIN connections' :
          /\ connections'[n] \in Clients
          /\ state'[connections'[n]] # "none" /\ name'[connections'[n]] = n
    <3>1. SUFFICES ASSUME NEW n \in DOMAIN connections'
                   PROVE  /\ connections'[n] \in Clients
                          /\ state'[connections'[n]] # "none" /\ name'[connections'[n]] = n
      OBVIOUS
    <3>2. CASE n = nextConnId /\ connections'[n] = c
      BY <1>8, <1>9, <3>2
    <3>3. CASE n \in DOMAIN connections /\ connections'[n] = connections[n]
      <4>1. connections[n] \in Clients /\ state[connections[n]] # "none" /\ name[connections[n]] = n
        BY <3>3 DEF Names
      <4> QED
        BY <1>6, <1>8, <1>9, <3>3, <4>1
    <3> QED
      BY <1>8, <3>1, <3>2, <3>3
  <2> QED
    BY <2>2, <2>4, <2>5 DEF Names
<1>18. Lives'
  <2>1. SUFFICES ASSUME NEW d \in Clients
                 PROVE  /\ state'[d] = "none" =>
                             /\ d \notin registered'
                             /\ \A l \in Loops : ~Queued(l, Est(d))' /\ ~Queued(l, Des(d))'
                                                   /\ ~Queued(l, Rem(d))'
                        /\ state'[d] # "none" => phase[loopOf'[d]] # "init"
                        /\ state'[d] \in {"none", "kConnecting"} => told'[d] = << >>
                        /\ state'[d] \in {"kConnected", "kDisconnecting"} => told'[d] = <<"up">>
                        /\ state'[d] = "kDisconnected" => told'[d] = <<"up", "down">>
                        /\ \A l \in Loops :
                             /\ Queued(l, Est(d))' => state'[d] = "kConnecting"
                             /\ QueuedOnce(l, Est(d))'
                             /\ Queued(l, Rem(d))' => state'[d] = "kDisconnected"
                        /\ Queued(Base, Des(d))' => state'[d] = "kDisconnected"
    BY <1>7 DEF Lives, Elsewhere
  <2>2. \A l \in Loops : QueuedOnce(l, Est(d))'
    BY <1>9 DEF Lives
  <2>3. CASE d = c
    BY <1>5, <1>6, <1>8, <1>9, <2>2, <2>3, BaseIsLoop
  <2>4. CASE d # c
    <3>1. /\ state'[d] = state[d] /\ told'[d] = told[d] /\ loopOf'[d] = loopOf[d]
          /\ d \in registered' => d \in registered
          /\ \A l \in Loops : /\ Queued(l, Est(d))' => Queued(l, Est(d))
                              /\ Queued(l, Des(d))' => Queued(l, Des(d))
                              /\ Queued(l, Rem(d))' => Queued(l, Rem(d))
      BY <1>8, <1>9, <2>4
    <3>2. /\ state[d] = "none" =>
               /\ d \notin registered
               /\ \A l \in Loops : ~Queued(l, Est(d)) /\ ~Queued(l, Des(d)) /\ ~Queued(l, Rem(d))
          /\ state[d] # "none" => phase[loopOf[d]] # "init"
          /\ state[d] \in {"none", "kConnecting"} => told[d] = << >>
          /\ state[d] \in {"kConnected", "kDisconnecting"} => told[d] = <<"up">>
          /\ state[d] = "kDisconnected" => told[d] = <<"up", "down">>
          /\ \A l \in Loops :
               /\ Queued(l, Est(d)) => state[d] = "kConnecting"
               /\ Queued(l, Rem(d)) => state[d] = "kDisconnected"
          /\ Queued(Base, Des(d)) => state[d] = "kDisconnected"
      BY DEF Lives
    <3> HIDE DEF IInv
    <3> QED
      BY <2>2, <3>1, <3>2, BaseIsLoop
  <2> QED
    BY <2>3, <2>4
<1>19. Kept'
  <2>1. SUFFICES ASSUME NEW d \in Clients, Running(loopOf[d])'
                 PROVE  /\ d \in registered' => d \in Owned' \/ Queued(loopOf[d], Des(d))'
                        /\ d \in Owned' \/ Followed(loopOf[d], Est(d), Des(d))'
    BY DEF Kept
  <2>2. CASE d = c
    BY <1>8, <2>2
  <2>3. CASE d # c
    <3>1. PICK k \in Loops : k = loopOf[d] /\ k = loopOf'[d]
      BY <1>8, <1>14, <2>3
    <3>2. Running(k) /\ (d \in registered' => d \in registered)
      BY <1>7, <1>9, <2>1, <2>3, <3>1 DEF Running, Elsewhere
    <3>3. /\ d \in registered => d \in Owned \/ Queued(k, Des(d))
          /\ d \in Owned \/ Followed(k, Est(d), Des(d))
      BY <3>1, <3>2 DEF Kept
    <3>4. /\ d \in registered' => d \in Owned' \/ Queued(k, Des(d))'
          /\ d \in Owned' \/ Followed(k, Est(d), Des(d))'
      BY <1>8, <1>9, <2>3, <3>2, <3>3
    <3> QED
      BY <3>1, <3>4
  <2> QED
    BY <2>2, <2>3
<1>20. EndsLater'
  BY <1>7, <1>8, <1>9, <1>14 DEF EndsLater, Elsewhere
<1>21. BaseLoopOnlyAccepts'
  BY <1>5, <1>7, <1>8, <1>9 DEF BaseLoopOnlyAccepts, Elsewhere
<1> QED
  BY <1>10, <1>11, <1>13, <1>15, <1>16, <1>17, <1>18, <1>19, <1>20, <1>21
-----------------------------------------------------------------------------
\* The invariant holds initially and is kept by every step.
LEMMA InitKeeps ==
  ASSUME Init
  PROVE  IInv
<1> USE DEF Init
<1>1. << >> \in Seq(Functors) /\ << >> \in Seq(Clients) /\ Len(<< >>) = 0 /\ << >> \o << >> = << >>
  BY EmptySeq, ConcatEmptySeq
<1>2. \A l \in Loops : Queue(l) = << >>
  BY <1>1 DEF Queue
<1>3. \A l \in Loops : \A f : ~Queued(l, f) /\ QueuedOnce(l, f)
  BY <1>1, <1>2 DEF Queued, QueuedOnce, Once
<1>4. DOMAIN connections = {} /\ Owned = {}
  BY DEF Owned
<1>5. Shapes
  BY <1>1, ServerAssumption, BaseIsLoop DEF Shapes
<1>6. PoolFirst
  BY <1>3, <1>5, BaseIsLoop, IoLoopsAreLoops DEF PoolFirst
<1>7. Stages
  BY <1>1 DEF Stages, Running
<1>8. RightLoop /\ Kept
  BY <1>3, BaseIsLoop DEF RightLoop, Kept, Running
<1>9. Waiting
  BY <1>1 DEF Waiting
<1>10. Names
  BY <1>4 DEF Names
<1>11. Lives
  BY <1>3, BaseIsLoop DEF Lives
<1>12. EndsLater /\ BaseLoopOnlyAccepts
  BY DEF EndsLater, BaseLoopOnlyAccepts
<1> QED
  BY <1>5, <1>6, <1>7, <1>8, <1>9, <1>10, <1>11, <1>12 DEF IInv

\* Every step.
LEMMA NextKeeps ==
  ASSUME IInv, [Next]_vars
  PROVE  IInv'
<1>1. ASSUME NEW s \in Callers, StartCall(s) \/ StartStep(s)
      PROVE  IInv'
  BY <1>1, StartCallKeeps, StartPoolKeeps, StartListeningKeeps DEF StartStep
<1>2. ASSUME NEW l \in Loops, LoopStep(l)
      PROVE  IInv'
  BY <1>2, BeginKeeps, SwapKeeps, RunFunctorKeeps, EndBatchKeeps, AcceptKeeps, HandleCloseKeeps
     DEF LoopStep, BeginLoop
<1>3. ASSUME NEW c \in Clients, Connect(c) \/ Disconnect(c) \/ Shutdown(c)
      PROVE  IInv'
  BY <1>3, ClientKeeps, ShutdownKeeps
<1>4. CASE QuitBase
  BY <1>4, QuitKeeps
<1>5. CASE MainStep
  BY <1>5, BaseIsLoop, BeginKeeps, BeginDestroyKeeps, MembersDestroyedKeeps,
     LoopDestroyedKeeps, DestroyConnectionKeeps, QuitKeeps DEF MainStep, EnterLoop
<1>6. CASE UNCHANGED vars
  <2>1. QueuesStay /\ \A k \in Loops : Queued(k, Lis)' <=> Queued(k, Lis)
    BY <1>6, NothingQueued DEF vars, loops, Queue
  <2>2. Shapes' /\ Stages' /\ Waiting'
    BY <1>6 DEF IInv, Shapes, Stages, Waiting, Running, vars, startup, table, loops, conns
  <2>3. PoolFirst'
    BY <1>6, <2>1, BaseIsLoop DEF IInv, PoolFirst, IoLoops, vars, startup, loops
  <2> QED
    BY <1>6, <2>1, <2>2, <2>3, ConnectionsStay DEF IInv, Running, vars, startup, loops
<1> QED
  BY <1>1, <1>2, <1>3, <1>4, <1>5, <1>6 DEF Next

\* So it always holds.
LEMMA Invariance == Spec => []IInv
<1>1. Init => IInv
  BY InitKeeps
<1>2. IInv /\ [Next]_vars => IInv'
  BY NextKeeps
<1> QED
  BY <1>1, <1>2, PTL DEF Spec

-----------------------------------------------------------------------------
\* RegisteredIsOwned: no poller of a running loop is left with the channel of a connection
\* that nobody will take out (newConnection, removeConnectionInLoop, ~TcpServer).
THEOREM ChannelsAreOwned == Spec => []RegisteredIsOwned
<1>1. IInv => RegisteredIsOwned
  BY DEF IInv, Shapes, Kept, RegisteredIsOwned, Des
<1> QED
  BY <1>1, Invariance, PTL

\* BaseLoopOnlyAccepts: with I/O threads no connection is served by the base loop, whoever
\* calls start() and however often (start, newConnection, getNextLoop).
THEOREM BaseServesNobody == Spec => []BaseLoopOnlyAccepts
<1>1. IInv => BaseLoopOnlyAccepts
  BY DEF IInv
<1> QED
  BY <1>1, Invariance, PTL

\* NobodyForgotten: when the server is gone, every connection reported up has been reported
\* down, except the half-closed ones and those cut off in the queue of a loop that left
\* (~TcpServer, connectDestroyed, loop).
THEOREM EverybodyIsTold == Spec => []NobodyForgotten
<1>1. IInv => NobodyForgotten
  <2>1. SUFFICES ASSUME IInv, mainPc = "destroyed", NEW c \in Clients, told[c] = <<"up">>,
                        state[c] # "kDisconnecting"
                 PROVE  c \in cutOff
    BY DEF NobodyForgotten
  <2>2. state[c] = "kConnected"
    <3>1. <<"up">> # << >> /\ <<"up">> # <<"up", "down">>
      OBVIOUS
    <3> QED
      BY <2>1, <3>1 DEF IInv, Lives, Shapes
  <2>3. c \in Owned \/ Queued(loopOf[c], Des(c)) \/ c \in cutOff
    BY <2>1, <2>2 DEF IInv, EndsLater
  <2>4. c \notin Owned
    BY <2>1 DEF IInv, Stages, Owned
  <2>5. ~Queued(loopOf[c], Des(c))
    <3>1. PICK l \in Loops : l = loopOf[c]
      BY <2>1 DEF IInv, Shapes
    <3>2. CASE l = Base
      BY <2>1, <2>2, <3>1, <3>2 DEF IInv, Lives
    <3>3. CASE l # Base
      <4>1. phase[l] = "done"
        BY <2>1, <2>2, <3>1 DEF IInv, Lives, Stages, Shapes, Running
      <4>2. batch[l] = << >> /\ pending[l] = << >>
        BY <2>1, <3>3, <4>1 DEF IInv, Stages
      <4>3. << >> \o << >> = << >> /\ Len(<< >>) = 0
        BY EmptySeq, ConcatEmptySeq
      <4> QED
        BY <3>1, <4>2, <4>3 DEF Queued, Queue
    <3> QED
      BY <3>2, <3>3
  <2> QED
    BY <2>3, <2>4, <2>5
<1> QED
  BY <1>1, Invariance, PTL
\* A sequence of functors all of which are for loop l.
LEMMA QueueIsFor ==
  ASSUME NEW S, NEW T, NEW s \in Seq(S), \A i \in 1..Len(s) : s[i] \in T
  PROVE  s \in Seq(T)
<1>1. s \in [1..Len(s) -> S] /\ Len(s) \in Nat
  BY LenProperties
<1>2. s \in [1..Len(s) -> T]
  BY <1>1
<1> QED
  BY <1>1, <1>2, SeqDef

\* TypeOK, with what a queue may hold: a loop is handed only functors about its own
\* connections, and only the base loop those about connections_ and the Acceptor
\* (newConnection, removeConnection, removeConnectionInLoop, start).
THEOREM Typing == Spec => []TypeOK
<1>1. IInv => TypeOK
  <2>1. SUFFICES ASSUME IInv
                 PROVE  TypeOK
    OBVIOUS
  <2>2. ASSUME NEW l \in Loops, NEW f \in Functors, Queued(l, f)
        PROVE  f \in FunctorsFor(l)
    <3>1. CASE f = Lis
      BY <2>1, <2>2, <3>1 DEF IInv, RightLoop, Lis, FunctorsFor
    <3>2. ASSUME NEW c \in Clients, f \in {Est(c), Des(c), Rem(c)}
          PROVE  f \in FunctorsFor(l)
      <4>1. CASE f = Rem(c)
        <5>1. l = Base
          BY <2>1, <2>2, <4>1 DEF IInv, RightLoop
        <5> QED
          BY <4>1, <5>1 DEF Rem, FunctorsFor
      <4>2. CASE f = Est(c) \/ f = Des(c)
        <5>1. c \in {d \in Clients : loopOf[d] = l}
          BY <2>1, <2>2, <4>2 DEF IInv, RightLoop
        <5> QED
          BY <4>2, <5>1 DEF Est, Des, FunctorsFor
      <4> QED
        BY <3>2, <4>1, <4>2
    <3> QED
      BY <3>1, <3>2 DEF Functors
  <2>3. ASSUME NEW l \in Loops
        PROVE  batch[l] \in Seq(FunctorsFor(l)) /\ pending[l] \in Seq(FunctorsFor(l))
    <3>1. batch[l] \in Seq(Functors) /\ pending[l] \in Seq(Functors)
      BY <2>1 DEF IInv, Shapes
    <3>2. \A i \in 1..Len(batch[l]) : batch[l][i] \in Functors /\ Queued(l, batch[l][i])
      <4>1. \A i \in 1..Len(batch[l]) : i \in 1..Len(Queue(l)) /\ Queue(l)[i] = batch[l][i]
        <5>1. ASSUME NEW b \in Seq(Functors), NEW p \in Seq(Functors), NEW i \in 1..Len(b)
              PROVE  i \in 1..Len(b \o p) /\ (b \o p)[i] = b[i]
          <6>1. Len(b) \in Nat /\ Len(p) \in Nat
            BY LenProperties
          <6> QED
            BY <6>1, ConcatProperties
        <5> QED
          BY <3>1, <5>1 DEF Queue
      <4> QED
        BY <3>1, <4>1 DEF Queued
    <3>3. \A i \in 1..Len(pending[l]) : pending[l][i] \in Functors /\ Queued(l, pending[l][i])
      <4>1. \A i \in 1..Len(pending[l]) :
              /\ Len(batch[l]) + i \in 1..Len(Queue(l))
              /\ Queue(l)[Len(batch[l]) + i] = pending[l][i]
        <5>1. ASSUME NEW b \in Seq(Functors), NEW p \in Seq(Functors), NEW i \in 1..Len(p)
              PROVE  Len(b) + i \in 1..Len(b \o p) /\ (b \o p)[Len(b) + i] = p[i]
          <6>1. Len(b) \in Nat /\ Len(p) \in Nat
            BY LenProperties
          <6> QED
            BY <6>1, ConcatProperties
        <5> QED
          BY <3>1, <5>1 DEF Queue
      <4> QED
        BY <3>1, <4>1 DEF Queued
    <3>4. /\ \A i \in 1..Len(batch[l]) : batch[l][i] \in FunctorsFor(l)
          /\ \A i \in 1..Len(pending[l]) : pending[l][i] \in FunctorsFor(l)
      BY <2>2, <3>2, <3>3
    <3> QED
      BY <3>1, <3>4, QueueIsFor
  <2>4. Owned \subseteq Clients /\ \A i \in 1..Len(backlog) : backlog[i] \in Clients
    BY <2>1 DEF IInv, Shapes, Names, Owned
  <2> QED
    BY <2>1, <2>3, <2>4 DEF IInv, Shapes, TypeOK
<1> QED
  BY <1>1, Invariance, PTL

-----------------------------------------------------------------------------
\* The steps at which the user is told something, as steps of the contract.
LEMMA AbstractUp ==
  ASSUME IInv, NEW c \in Clients, state[c] \in {"none", "kConnecting"}, ConnectEstablished(c),
         mainPc \notin {"destroyed", "ended"}, mainPc' = mainPc
  PROVE  Abstract!Next
<1>1. told[c] = << >> /\ told' = [told EXCEPT ![c] = <<"up">>]
  BY ToldUp DEF IInv, Lives
<1> QED
  BY <1>1 DEF Abstract!Next, Abstract!Up

\* The end of a connection, as a step of the contract.
LEMMA AbstractDown ==
  ASSUME IInv, NEW c \in Clients, state[c] \in {"kConnected", "kDisconnecting"}, TellDown(c),
         mainPc \notin {"destroyed", "ended"}, mainPc' = mainPc
  PROVE  Abstract!Next
<1>1. told[c] = <<"up">> /\ told' = [told EXCEPT ![c] = <<"up", "down">>]
  BY ToldDown DEF IInv, Lives
<1> QED
  BY <1>1 DEF Abstract!Next, Abstract!Down

\* A step of the contract, or none.
Promised == Abstract!Next \/ UNCHANGED Abstract!cevars

\* While a loop runs, the server is not over.
LEMMA RunningIsNotOver ==
  ASSUME IInv, NEW l \in Loops, phase[l] \in {"handle", "run"}
  PROVE  mainPc \notin {"destroyed", "ended"}
BY DEF IInv, Stages, Running

\* Every step is one of the contract, or none.
LEMMA AbstractStep ==
  ASSUME IInv, [Next]_vars
  PROVE  Promised
<1>1. (told' = told /\ mainPc' = mainPc) => Promised
  BY DEF Promised, Abstract!cevars
<1>2. Abstract!Next => Promised
  BY DEF Promised
<1>3. CASE Accept
  <2>1. PICK m \in NextLoops : NewConnection(Head(backlog), m)
    BY <1>3 DEF Accept
  <2>2. mainPc' = mainPc /\ mainPc \notin {"destroyed", "ended"}
    BY <1>3, BaseIsLoop, RunningIsNotOver DEF Accept
  <2>3. Head(backlog) \in Clients /\ state[Head(backlog)] = "none"
    <3>1. /\ backlog \in Seq(Clients) /\ backlog # << >> /\ Len(backlog) \in Nat \ {0}
          /\ Head(backlog) = backlog[1]
      BY <1>3, HeadTailProperties, EmptySeq DEF Accept, IInv, Shapes
    <3> QED
      BY <3>1 DEF IInv, Waiting
  <2>4. ConnectEstablished(Head(backlog)) \/ told' = told
    BY <2>1 DEF NewConnection
  <2> QED
    BY <1>1, <2>2, <2>3, <2>4, <1>2, AbstractUp
<1>4. ASSUME NEW c \in Clients, HandleClose(c)
      PROVE  Promised
  <2>1. loopOf[c] \in Loops
    BY DEF IInv, Shapes
  <2> QED
    BY <1>4, <2>1, RunningIsNotOver, <1>2, AbstractDown DEF HandleClose
<1>5. ASSUME NEW l \in Loops, RunFunctor(l)
      PROVE  Promised
  <2>1. mainPc' = mainPc /\ mainPc \notin {"destroyed", "ended"}
    BY <1>5, RunningIsNotOver DEF RunFunctor, Runs
  <2>2. CASE told' = told
    BY <1>1, <2>1, <2>2
  <2>3. ASSUME NEW c \in Clients, Runs(l, "connectEstablished", c), ConnectEstablished(c),
               pending' = pending
        PROVE  Promised
    <3>1. batch[l] # << >> /\ Est(c) = Head(batch[l]) /\ batch' = [batch EXCEPT ![l] = Tail(@)]
      BY <2>3, TakesHead DEF Est
    <3>2. Leaves(l, Est(c))
      BY <2>3, <3>1, FunctorsAreThere, Goes DEF IInv
    <3>3. state[c] = "kConnecting"
      BY <3>2 DEF Leaves, IInv, Lives
    <3> QED
      BY <2>1, <2>3, <3>3, <1>2, AbstractUp
  <2>4. ASSUME NEW c \in Clients, ConnectDestroyed(c)
        PROVE  Promised
    BY <2>1, <2>2, <2>4, <1>2, AbstractDown DEF ConnectDestroyed
  <2> QED
    BY <1>5, <2>2, <2>3, <2>4 DEF RunFunctor, conns
<1>6. ASSUME NEW n, DestroyConnection(n)
      PROVE  Promised
  <2>1. mainPc' = mainPc /\ mainPc \notin {"destroyed", "ended"} /\ connections[n] \in Clients
    BY <1>6 DEF DestroyConnection, Stage, IInv, Names
  <2>2. ConnectDestroyed(connections[n]) \/ told' = told
    BY <1>6 DEF DestroyConnection, conns
  <2> QED
    BY <1>1, <2>1, <2>2, <1>2, AbstractDown DEF ConnectDestroyed
<1>7. CASE MembersDestroyed \/ LoopDestroyed
  BY <1>7 DEF MembersDestroyed, LoopDestroyed, Stage, conns, Promised, Abstract!Next, Abstract!End
<1>8. CASE BeginDestroy \/ ConnectionsDestroyed
  BY <1>8 DEF BeginDestroy, ConnectionsDestroyed, Stage, conns, Promised, Abstract!cevars
<1>9. CASE EnterLoop \/ QuitBase \/ \E l \in IoLoops : QuitThread(l)
  BY <1>1, <1>9 DEF EnterLoop, Begin, QuitBase, QuitThread, Stage, conns
<1>10. ASSUME NEW s \in Callers, StartCall(s) \/ StartStep(s)
      PROVE  Promised
  BY <1>1, <1>10 DEF StartCall, StartStep, StartPool, StartListening, conns
<1>11. ASSUME NEW l \in Loops, BeginLoop(l) \/ Swap(l) \/ EndBatch(l)
       PROVE  Promised
  BY <1>1, <1>11 DEF BeginLoop, Begin, Swap, EndBatch, conns
<1>12. ASSUME NEW c \in Clients, Connect(c) \/ Disconnect(c) \/ Shutdown(c)
       PROVE  Promised
  BY <1>1, <1>12 DEF Connect, Disconnect, Shutdown, conns
<1>13. CASE UNCHANGED vars
  BY <1>1, <1>13 DEF vars, conns
<1>14. ASSUME NEW l \in Loops, LoopStep(l)
       PROVE  Promised
  BY <1>3, <1>4, <1>5, <1>11, <1>14 DEF LoopStep
<1>15. CASE MainStep
  <2>1. CASE MembersDestroyed \/ LoopDestroyed
    BY <1>7, <2>1
  <2>2. CASE BeginDestroy \/ ConnectionsDestroyed
    BY <1>8, <2>2
  <2>3. CASE EnterLoop \/ \E l \in IoLoops : QuitThread(l)
    BY <1>9, <2>3
  <2> QED
    BY <1>6, <1>15, <2>1, <2>2, <2>3 DEF MainStep
<1> QED
  BY <1>9, <1>10, <1>12, <1>13, <1>14, <1>15 DEF Next

\* ImplementsConnectionEvents: each connection is reported up once and then down at most
\* once, on whatever loops and through whatever queues the calls pass, and nothing after
\* ~TcpServer has returned (connectEstablished, handleClose, connectDestroyed).
THEOREM Refinement == Spec => ImplementsConnectionEvents
<1>1. Init => Abstract!Init
  BY DEF Init, Abstract!Init
<1>2. IInv /\ [Next]_vars => [Abstract!Next]_(Abstract!cevars)
  BY AbstractStep DEF Promised
<1> QED
  BY <1>1, <1>2, Invariance, PTL DEF Spec, ImplementsConnectionEvents, Abstract!Spec
-----------------------------------------------------------------------------
\* What DownIsReleased rests on, without fairness: whoever still holds a connection that is
\* over is about to let go of it.

\* As long as the server is up, a connection in connections_ that is down has its removal
\* queued on the base loop, and one whose connectDestroyed is queued is in connections_ no
\* more (handleClose, removeConnectionInLoop).
RemovalIsDue ==
  \A c \in Clients : c \in Owned =>
    /\ \A l \in Loops : ~Queued(l, Des(c))
    /\ (mainPc = "serving" /\ state[c] = "kDisconnected") => Queued(Base, Rem(c))

\* A step that brings nobody into the table, reports nobody in it down, queues no
\* connectDestroyed and takes no removal out of the queue.
LEMMA DueStays ==
  ASSUME RemovalIsDue,
         mainPc' = "serving" => mainPc = "serving",
         \A c \in Clients : c \in Owned' =>
           /\ c \in Owned
           /\ state'[c] = "kDisconnected" => state[c] = "kDisconnected"
           /\ \A l \in Loops : Queued(l, Des(c))' => Queued(l, Des(c))
           /\ Queued(Base, Rem(c)) => Queued(Base, Rem(c))'
  PROVE  RemovalIsDue'
BY DEF RemovalIsDue

\* And one that leaves the queues alone.
LEMMA DueStaysQuiet ==
  ASSUME RemovalIsDue, UNCHANGED <<connections, state>>,
         mainPc' = "serving" => mainPc = "serving",
         \A k \in Loops : Queue(k)' = Queue(k)
  PROVE  RemovalIsDue'
<1>1. \A k \in Loops : \A g : Queued(k, g)' <=> Queued(k, g)
  BY SameQueues
<1> QED
  BY <1>1, BaseIsLoop, DueStays DEF Owned

\* erase() takes the connection out of the table.
LEMMA ErasedIsOut ==
  ASSUME IInv, NEW c \in Clients, state[c] # "none", Erase(name[c])
  PROVE  c \notin Owned' /\ Owned' \subseteq Owned
<1>1. /\ DOMAIN connections' = DOMAIN connections \ {name[c]}
      /\ \A n \in DOMAIN connections' : n \in DOMAIN connections /\ connections'[n] = connections[n]
  BY DEF Erase
<1>2. \A n \in DOMAIN connections : connections[n] = c => n = name[c]
  BY DEF IInv, Names
<1> QED
  BY <1>1, <1>2 DEF Owned

\* When nobody is in the table, nothing is due.
LEMMA NobodyInTable ==
  ASSUME DOMAIN connections' = {}
  PROVE  RemovalIsDue'
BY DEF RemovalIsDue, Owned

\* start(), the clients, shutdown(), quit() and what main() does without the table.
LEMMA CallsKeepDue ==
  ASSUME IInv, RemovalIsDue,
         \/ \E s \in Callers : StartCall(s) \/ StartStep(s)
         \/ \E c \in Clients : Connect(c) \/ Disconnect(c) \/ Shutdown(c)
         \/ EnterLoop \/ QuitBase \/ BeginDestroy \/ ConnectionsDestroyed
         \/ MembersDestroyed \/ LoopDestroyed \/ \E l \in IoLoops : QuitThread(l)
  PROVE  RemovalIsDue'
<1>1. ASSUME NEW s \in Callers, StartCall(s) \/ StartPool(s)
      PROVE  RemovalIsDue'
  BY <1>1, DueStaysQuiet DEF StartCall, StartPool, Queue, table, loops, conns
<1>2. ASSUME NEW s \in Callers, StartListening(s)
      PROVE  RemovalIsDue'
  <2>1. UNCHANGED <<connections, state, mainPc, batch>>
    BY <1>2 DEF StartListening, table, loops, conns
  <2>2. CASE pending' = pending
    BY <2>1, <2>2, DueStaysQuiet DEF Queue
  <2>3. CASE pending' = Posted(Base, "listen", "acceptor")
    <3>1. pending' = [pending EXCEPT ![Base] = Append(@, Lis)]
      BY <2>3 DEF Posted, Lis
    <3>2. Arrives(Base, Lis)
      BY <2>1, <3>1, BaseIsLoop, FunctorsAreThere, Comes DEF IInv
    <3> QED
      BY <2>1, <3>2, BaseIsLoop, FunctorsDiffer, DueStays DEF Arrives, Owned
  <2> QED
    BY <1>2, <2>2, <2>3 DEF StartListening
<1>3. ASSUME NEW c \in Clients, Connect(c) \/ Disconnect(c)
      PROVE  RemovalIsDue'
  BY <1>3, DueStaysQuiet DEF Connect, Disconnect, Queue, table, loops, conns
<1>4. ASSUME NEW c \in Clients, Shutdown(c)
      PROVE  RemovalIsDue'
  <2>1. \A d \in Clients : state'[d] = "kDisconnected" => state[d] = "kDisconnected"
    BY <1>4 DEF Shutdown, IInv, Shapes
  <2>2. \A k \in Loops : \A g : Queued(k, g)' <=> Queued(k, g)
    BY <1>4, SameQueues DEF Shutdown, Queue, loops
  <2>3. mainPc' = mainPc /\ connections' = connections
    BY <1>4 DEF Shutdown, table
  <2> QED
    BY <2>1, <2>2, <2>3, BaseIsLoop, DueStays DEF Owned
<1>5. CASE EnterLoop \/ QuitBase \/ BeginDestroy \/ \E l \in IoLoops : QuitThread(l)
  BY <1>5, DueStaysQuiet DEF EnterLoop, Begin, QuitBase, BeginDestroy, QuitThread, Stage, Queue,
                             table, loops, conns
<1>6. CASE ConnectionsDestroyed
  BY <1>6, NobodyInTable DEF ConnectionsDestroyed, NoneLeft
<1>7. CASE MembersDestroyed \/ LoopDestroyed
  <2>1. DOMAIN connections = {}
    BY <1>7 DEF MembersDestroyed, LoopDestroyed, Stage, IInv, Stages
  <2> QED
    BY <1>7, <2>1, NobodyInTable DEF MembersDestroyed, LoopDestroyed
<1> QED
  BY <1>1, <1>2, <1>3, <1>4, <1>5, <1>6, <1>7 DEF StartStep

\* ~TcpServer takes a connection out of the table before it queues its connectDestroyed.
LEMMA DestroyKeepsDue ==
  ASSUME IInv, RemovalIsDue, NEW n, DestroyConnection(n)
  PROVE  RemovalIsDue'
<1>1. /\ UNCHANGED <<loopOf, loops>> /\ mainPc' = "connections"
      /\ n \in DOMAIN connections /\ Erase(n)
  BY DEF DestroyConnection, Stage
<1>2. PICK c \in Clients : c = connections[n] /\ state[c] # "none" /\ name[c] = n
  BY <1>1 DEF IInv, Names
<1>3. c \notin Owned' /\ Owned' \subseteq Owned
  BY <1>1, <1>2, ErasedIsOut
<1>4. \A d \in Clients : d # c => \A l \in Loops : Queued(l, Des(d))' => Queued(l, Des(d))
  <2>1. CASE pending' = pending
    BY <1>1, <2>1, SameQueues DEF Queue, loops
  <2>2. CASE pending' = Posted(loopOf[c], "connectDestroyed", c)
    <3>1. loopOf[c] \in Loops /\ pending' = [pending EXCEPT ![loopOf[c]] = Append(@, Des(c))]
      BY <1>2, <2>2 DEF Posted, Des, IInv, Shapes
    <3>2. Arrives(loopOf[c], Des(c))
      BY <1>1, <1>2, <3>1, FunctorsAreThere, Comes DEF IInv, loops
    <3> QED
      BY <3>2, FunctorsDiffer DEF Arrives
  <2> QED
    BY <1>2, <2>1, <2>2 DEF DestroyConnection, QueueDestroyed
<1> QED
  BY <1>1, <1>3, <1>4 DEF RemovalIsDue

\* handleClose(): the report is followed by the removal, or by its request.
LEMMA CloseKeepsDue ==
  ASSUME IInv, RemovalIsDue, NEW c \in Clients, HandleClose(c)
  PROVE  RemovalIsDue'
<1>1. /\ UNCHANGED <<loopOf, mainPc, batch>>
      /\ state[c] \in {"kConnected", "kDisconnecting"}
      /\ state' = [state EXCEPT ![c] = "kDisconnected"]
  BY DEF HandleClose, TellDown, loops
<1>2. /\ loopOf[c] \in Loops
      /\ \A d \in Clients : d # c => state'[d] = state[d]
  BY <1>1 DEF IInv, Shapes
<1>3. CASE loopOf[c] = Base
  <2>1. Erase(name[c]) /\ pending' = [pending EXCEPT ![Base] = Append(@, Des(c))]
    BY <1>3 DEF HandleClose, RemoveConnectionInLoop, QueueDestroyed, Posted, Des
  <2>2. Arrives(Base, Des(c))
    BY <1>1, <2>1, BaseIsLoop, FunctorsAreThere, Comes DEF IInv
  <2>3. c \notin Owned' /\ Owned' \subseteq Owned
    BY <1>1, <2>1, ErasedIsOut
  <2>4. \A d \in Clients : d # c =>
          /\ \A l \in Loops : Queued(l, Des(d))' => Queued(l, Des(d))
          /\ Queued(Base, Rem(d)) => Queued(Base, Rem(d))'
    BY <2>2, BaseIsLoop, FunctorsDiffer DEF Arrives
  <2> QED
    BY <1>1, <1>2, <2>3, <2>4, DueStays
<1>4. CASE loopOf[c] # Base
  <2>1. connections' = connections /\ pending' = [pending EXCEPT ![Base] = Append(@, Rem(c))]
    BY <1>4 DEF HandleClose, Posted, Rem
  <2>2. Arrives(Base, Rem(c))
    BY <1>1, <2>1, BaseIsLoop, FunctorsAreThere, Comes DEF IInv
  <2>3. /\ \A d \in Clients : \A l \in Loops : Queued(l, Des(d))' => Queued(l, Des(d))
        /\ \A d \in Clients : Queued(Base, Rem(d)) => Queued(Base, Rem(d))'
        /\ Queued(Base, Rem(c))'
    BY <2>2, BaseIsLoop, FunctorsDiffer DEF Arrives
  <2> QED
    BY <1>1, <1>2, <2>1, <2>3 DEF RemovalIsDue, Owned
<1> QED
  BY <1>3, <1>4

\* newConnection(): the table gets a connection that is up, or about to be.
LEMMA AcceptKeepsDue ==
  ASSUME IInv, RemovalIsDue, Accept
  PROVE  RemovalIsDue'
<1>1. /\ backlog # << >> /\ UNCHANGED <<mainPc, batch>>
      /\ phase[Base] = "handle" /\ listening
  BY DEF Accept, loops
<1>2. PICK c \in Clients : c = Head(backlog) /\ state[c] = "none"
  <2>1. /\ Head(backlog) = backlog[1] /\ Len(backlog) \in Nat \ {0} /\ backlog[1] \in Clients
    BY <1>1, HeadTailProperties, EmptySeq DEF IInv, Shapes
  <2> QED
    BY <2>1 DEF IInv, Waiting
<1>3. PICK m \in NextLoops : NewConnection(c, m)
  BY <1>2 DEF Accept
<1>4. m \in Loops
  BY <1>1, NextLoopsAreUp
<1>5. \A d \in Clients : d # c => (d \in Owned' => d \in Owned)
  <2>1. \A n \in DOMAIN connections' :
          \/ connections'[n] = c
          \/ n \in DOMAIN connections /\ connections'[n] = connections[n]
    BY <1>2, <1>3, <1>4, Entered
  <2> QED
    BY <2>1 DEF Owned
<1>6. /\ state'[c] # "kDisconnected"
      /\ \A d \in Clients : d # c => state'[d] = state[d]
  BY <1>3 DEF NewConnection, ConnectEstablished, IInv, Shapes
<1>7. /\ \A d \in Clients : \A l \in Loops : Queued(l, Des(d))' => Queued(l, Des(d))
      /\ \A d \in Clients : Queued(Base, Rem(d)) => Queued(Base, Rem(d))'
  <2>1. CASE pending' = pending
    BY <1>1, <2>1, BaseIsLoop, SameQueues DEF Queue
  <2>2. CASE pending' = Posted(m, "connectEstablished", c)
    <3>1. pending' = [pending EXCEPT ![m] = Append(@, Est(c))]
      BY <2>2 DEF Posted, Est
    <3>2. Arrives(m, Est(c))
      BY <1>1, <1>2, <1>4, <3>1, FunctorsAreThere, Comes DEF IInv
    <3> QED
      BY <3>2, BaseIsLoop, FunctorsDiffer DEF Arrives
  <2> QED
    BY <1>3, <2>1, <2>2 DEF NewConnection
<1>8. \A l \in Loops : ~Queued(l, Des(c))
  BY <1>2 DEF IInv, Lives
<1> QED
  BY <1>1, <1>5, <1>6, <1>7, <1>8 DEF RemovalIsDue

\* The functors: a removal that runs takes its connection out of the table.
LEMMA FunctorsKeepDue ==
  ASSUME IInv, RemovalIsDue, NEW l \in Loops, RunFunctor(l)
  PROVE  RemovalIsDue'
<1>1. ASSUME NEW f \in Functors, NEW op, NEW x, f = <<op, x>>, Runs(l, op, x), pending' = pending
      PROVE  Leaves(l, f) /\ mainPc' = mainPc
  BY <1>1, TakesHead, Goes DEF IInv, Elsewhere
<1>2. CASE Runs(l, "listen", "acceptor") /\ UNCHANGED <<connections, pending, conns>>
  <2>1. Leaves(l, Lis) /\ mainPc' = mainPc
    BY <1>1, <1>2, FunctorsAreThere DEF Lis
  <2> QED
    BY <1>2, <2>1, BaseIsLoop, FunctorsDiffer, DueStays DEF Leaves, conns, Owned
<1>3. ASSUME NEW c \in Clients, Runs(l, "connectEstablished", c), ConnectEstablished(c),
             UNCHANGED <<connections, pending>>
      PROVE  RemovalIsDue'
  <2>1. Leaves(l, Est(c)) /\ mainPc' = mainPc
    BY <1>1, <1>3, FunctorsAreThere DEF Est
  <2>2. \A d \in Clients : state'[d] = "kDisconnected" => state[d] = "kDisconnected"
    BY <1>3 DEF ConnectEstablished, IInv, Shapes
  <2> QED
    BY <1>3, <2>1, <2>2, BaseIsLoop, FunctorsDiffer, DueStays DEF Leaves, Owned
<1>4. ASSUME NEW c \in Clients, Runs(l, "connectDestroyed", c), ConnectDestroyed(c),
             UNCHANGED <<connections, pending>>
      PROVE  RemovalIsDue'
  <2>1. Leaves(l, Des(c)) /\ mainPc' = mainPc
    BY <1>1, <1>4, FunctorsAreThere DEF Des
  <2>2. c \notin Owned
    BY <2>1 DEF Leaves, RemovalIsDue
  <2>3. \A d \in Clients : d # c => state'[d] = state[d]
    BY <1>4 DEF ConnectDestroyed, TellDown, IInv, Shapes
  <2> QED
    BY <1>4, <2>1, <2>2, <2>3, BaseIsLoop, FunctorsDiffer, DueStays DEF Leaves, Owned
<1>5. ASSUME NEW c \in Clients, Runs(l, "removeConnectionInLoop", c), RemoveConnectionInLoop(c),
             UNCHANGED conns
      PROVE  RemovalIsDue'
  <2>1. /\ batch[l] # << >> /\ Head(batch[l]) = Rem(c)
        /\ batch' = [batch EXCEPT ![l] = Tail(@)] /\ mainPc' = mainPc
    BY <1>5, TakesHead DEF Rem, Elsewhere
  <2>2. PICK m \in Loops : m = loopOf[c]
    BY DEF IInv, Shapes
  <2>3. Erase(name[c]) /\ pending' = [pending EXCEPT ![m] = Append(@, Des(c))]
    BY <1>5, <2>2 DEF RemoveConnectionInLoop, QueueDestroyed, Posted, Des
  <2>4. Moves(l, Rem(c), m, Des(c))
    BY <2>1, <2>3, FunctorsAreThere, GoesAndComes DEF IInv
  <2>5. state[c] # "none"
    <3>1. Queue(l) # << >> /\ Queue(l) \in Seq(Functors) /\ Head(Queue(l)) = Rem(c)
      BY <2>1, Taking DEF IInv
    <3>2. Has(Queue(l), Rem(c))
      BY <3>1, OrderAfterTail
    <3> QED
      BY <3>2 DEF Has, Queued, IInv, Lives
  <2>6. c \notin Owned' /\ Owned' \subseteq Owned
    BY <2>3, <2>5, ErasedIsOut
  <2>7. \A d \in Clients : d # c =>
          /\ \A k \in Loops : Queued(k, Des(d))' => Queued(k, Des(d))
          /\ Queued(Base, Rem(d)) => Queued(Base, Rem(d))'
    BY <2>4, BaseIsLoop, FunctorsDiffer DEF Moves
  <2> QED
    BY <1>5, <2>1, <2>6, <2>7, DueStays DEF conns
<1> QED
  BY <1>2, <1>3, <1>4, <1>5 DEF RunFunctor

\* The start of loop(), the swap, and the test of quit_ after a batch: the base loop keeps its functors.
LEMMA BatchesKeepDue ==
  ASSUME IInv, RemovalIsDue, NEW l \in Loops, BeginLoop(l) \/ Swap(l) \/ EndBatch(l)
  PROVE  RemovalIsDue'
<1>1. UNCHANGED <<connections, state, mainPc>>
  BY DEF BeginLoop, Begin, Swap, EndBatch, table, conns
<1>2. CASE Swap(l)
  <2>1. batch[l] = << >> /\ pending[l] \in Seq(Functors)
    BY <1>2 DEF IInv, Stages, Shapes, Swap
  <2>2. << >> \o pending[l] = pending[l] /\ pending[l] \o << >> = pending[l]
    BY <2>1, ConcatEmptySeq
  <2>3. \A k \in Loops : Queue(k)' = Queue(k)
    BY <1>2, <2>1, <2>2 DEF Swap, Queue, IInv, Shapes
  <2> QED
    BY <1>1, <2>3, DueStaysQuiet
<1>3. CASE EndBatch(l) /\ quit[l] /\ l # Base
  <2>1. batch[l] = << >> /\ pending' = [pending EXCEPT ![l] = << >>] /\ batch' = batch
    BY <1>3 DEF EndBatch
  <2>2. /\ \A f : ~Queued(l, f)'
        /\ \A k \in Loops : k # l => \A g : Queued(k, g)' <=> Queued(k, g)
    BY <2>1, Dropped DEF IInv
  <2> QED
    BY <1>1, <1>3, <2>2, BaseIsLoop, DueStays DEF Owned
<1>4. CASE EndBatch(l) /\ ~(quit[l] /\ l # Base)
  BY <1>1, <1>4, DueStaysQuiet DEF EndBatch, Queue
<1>5. CASE BeginLoop(l)
  BY <1>1, <1>5, DueStaysQuiet DEF BeginLoop, Begin, Queue
<1> QED
  BY <1>2, <1>3, <1>4, <1>5

\* No request for removal is lost between the loops: while the server is up, a connection
\* that is down leaves connections_ when the base loop comes to it (handleClose,
\* removeConnection, removeConnectionInLoop).
THEOREM RemovalNeverForgotten == Spec => []RemovalIsDue
<1>1. Init => RemovalIsDue
  BY DEF Init, RemovalIsDue, Owned
<1>2. ASSUME IInv, RemovalIsDue, [Next]_vars
      PROVE  RemovalIsDue'
  <2>1. ASSUME NEW l \in Loops, LoopStep(l)
        PROVE  RemovalIsDue'
    BY <1>2, <2>1, AcceptKeepsDue, CloseKeepsDue, FunctorsKeepDue, BatchesKeepDue DEF LoopStep
  <2>2. CASE UNCHANGED vars
    BY <1>2, <2>2, DueStaysQuiet DEF vars, table, loops, conns, Queue
  <2> QED
    BY <1>2, <2>1, <2>2, CallsKeepDue, DestroyKeepsDue DEF Next, MainStep
<1> QED
  BY <1>1, <1>2, Invariance, PTL DEF Spec

\* When main() has ended, only the user's own pointers keep connections: no table, no
\* queue of any loop, nothing that was cut off.
NothingLeft == mainPc = "ended" => \A c \in Clients : Alive(c) => c \in held

\* Nothing comes to the base loop once it is gone.
BaseIsEmpty == mainPc = "ended" => pending[Base] = << >>

LEMMA EndIsQuiet ==
  ASSUME IInv, BaseIsEmpty, [Next]_vars
  PROVE  BaseIsEmpty'
<1>1. CASE mainPc # "ended" /\ LoopDestroyed
  BY <1>1, BaseIsLoop DEF LoopDestroyed, BaseIsEmpty, IInv, Shapes
<1>2. CASE mainPc # "ended" /\ ~LoopDestroyed
  <2>1. mainPc' # "ended"
    BY <1>2 DEF Next, LoopStep, MainStep, StartStep, StartCall, StartPool, StartListening,
                BeginLoop, Begin, Swap, RunFunctor, Runs, EndBatch, Accept, HandleClose, Connect,
                Disconnect, Shutdown, QuitBase, EnterLoop, BeginDestroy, ConnectionsDestroyed, MembersDestroyed,
                DestroyConnection, QuitThread, Stage, vars
  <2> QED
    BY <2>1 DEF BaseIsEmpty
<1>3. CASE mainPc = "ended"
  <2>1. /\ \A l \in Loops : phase[l] \notin {"entering", "handle", "run"}
        /\ \A s \in Callers : startPc[s] \in {"idle", "done"}
    BY <1>3 DEF IInv, Stages, Running
  <2>2. \A c \in Clients : loopOf[c] \in Loops
    BY DEF IInv, Shapes
  <2>3. pending' = pending
    <3>1. ASSUME NEW l \in Loops PROVE ~LoopStep(l)
      BY <2>1, <2>2, <3>1, BaseIsLoop
         DEF LoopStep, BeginLoop, Swap, RunFunctor, Runs, EndBatch, Accept, HandleClose
    <3>2. ASSUME MainStep PROVE pending' = pending
      BY <1>3, <3>2 DEF MainStep, EnterLoop, Begin, BeginDestroy, ConnectionsDestroyed,
                        MembersDestroyed, LoopDestroyed, DestroyConnection, QuitThread, Stage
    <3>3. ASSUME NEW s \in Callers, StartCall(s) \/ StartStep(s) PROVE pending' = pending
      BY <1>3, <2>1, <3>3 DEF StartCall, StartStep, StartPool, StartListening
    <3>4. ASSUME QuitBase \/ \E c \in Clients : Connect(c) \/ Disconnect(c) \/ Shutdown(c)
          PROVE  pending' = pending
      BY <3>4 DEF QuitBase, Connect, Disconnect, Shutdown
    <3> QED
      BY <3>1, <3>2, <3>3, <3>4 DEF Next, vars
  <2> QED
    BY <1>3, <2>3 DEF BaseIsEmpty
<1> QED
  BY <1>1, <1>2, <1>3

\* NothingLeft: at the end of main() the descriptor of every connection is given back but
\* of those the user keeps (~TcpServer, ~EventLoopThreadPool, ~EventLoop).
THEOREM NothingIsLeft == Spec => []NothingLeft
<1>1. ASSUME IInv, BaseIsEmpty, mainPc = "ended", NEW c \in Clients, Alive(c)
      PROVE  c \in held
  <2>1. Owned = {}
    BY <1>1 DEF IInv, Stages, Owned
  <2>2. ASSUME NEW l \in Loops, NEW i \in 1..Len(Queue(l)), Queue(l)[i][2] = c
        PROVE  FALSE
    <3>1. batch[l] = << >> /\ pending[l] \in Seq(Functors)
          /\ phase[l] \notin {"entering", "handle", "run"}
      BY <1>1 DEF IInv, Stages, Running, Shapes
    <3>2. Queue(l) = pending[l] /\ Queue(l) \in Seq(Functors) /\ Len(Queue(l)) \in Nat
      BY <3>1, ConcatEmptySeq DEF Queue
    <3>3. pending[l] # << >> /\ Queue(l)[i] \in Functors /\ Queued(l, Queue(l)[i])
      BY <2>2, <3>2, EmptySeq DEF Queued
    <3>4. phase[l] \in {"init", "done"} /\ l # Base
      BY <1>1, <3>1, <3>3 DEF IInv, Shapes, BaseIsEmpty
    <3>5. phase[l] = "init"
      BY <1>1, <3>3, <3>4 DEF IInv, Stages
    <3>6. PICK d \in Clients : Queue(l)[i] = Est(d) \/ Queue(l)[i] = Des(d)
      BY <1>1, <3>3, <3>4 DEF Functors, IInv, RightLoop
    <3>7. l = loopOf[d] /\ state[d] # "none"
      BY <1>1, <3>3, <3>6 DEF IInv, RightLoop, Lives
    <3> QED
      BY <1>1, <3>5, <3>7 DEF IInv, Lives
  <2> QED
    BY <1>1, <2>1, <2>2 DEF Alive
<1>2. Init => BaseIsEmpty
  BY DEF Init, BaseIsEmpty
<1>3. IInv /\ BaseIsEmpty => NothingLeft
  BY <1>1 DEF NothingLeft
<1> QED
  BY <1>2, <1>3, EndIsQuiet, Invariance, PTL DEF Spec
-----------------------------------------------------------------------------
\* What LeavingIsReported and ClientsAreServed rest on, without fairness.

\* The client is in the backlog of the listening socket.
Waits(c) == \E i \in 1..Len(backlog) : backlog[i] = c

\* What a client does next, some loop gets to know of: it waits in the backlog until it is
\* a connection, the connection's connectEstablished is queued until its channel is
\* registered, and the channel stays registered until the connection is reported down.
Seen(c) ==
  /\ (peer[c] # "away" /\ state[c] = "none") => listening /\ Waits(c)
  /\ state[c] = "kConnecting" => Queued(loopOf[c], Est(c))
  /\ state[c] \in {"kConnected", "kDisconnecting"} => c \in registered
  /\ \A l \in Loops : Queued(l, Des(c)) => state[c] = "kDisconnected"

EverybodyIsSeen == mainPc = "serving" => \A c \in Clients : Seen(c)

\* A client that the step is not about.
LEMMA SeenStays ==
  ASSUME NEW c \in Clients, Seen(c),
         listening => listening', Waits(c) => Waits(c)', c \in registered => c \in registered',
         peer'[c] = peer[c], state'[c] = state[c], loopOf'[c] = loopOf[c],
         \A k \in Loops : /\ Queued(k, Est(c)) => Queued(k, Est(c))'
                          /\ Queued(k, Des(c))' => Queued(k, Des(c)),
         loopOf[c] \in Loops
  PROVE  Seen(c)'
BY DEF Seen

\* A step that leaves the queues and the connections alone.
LEMMA QuietlySeen ==
  ASSUME IInv, EverybodyIsSeen, mainPc' = "serving" => mainPc = "serving",
         UNCHANGED <<listening, backlog, peer, state, loopOf, registered>>,
         \A k \in Loops : Queue(k)' = Queue(k)
  PROVE  EverybodyIsSeen'
<1>1. \A k \in Loops : \A g : Queued(k, g)' <=> Queued(k, g)
  BY SameQueues
<1>2. \A c \in Clients : loopOf[c] \in Loops
  BY DEF IInv, Shapes
<1>3. \A c \in Clients : Waits(c)' = Waits(c)
  BY DEF Waits
<1> QED
  BY <1>1, <1>2, <1>3, SeenStays DEF EverybodyIsSeen

\* start(), the clients, shutdown(), quit() and the end of the base loop.
LEMMA CallsKeepSeen ==
  ASSUME IInv, EverybodyIsSeen,
         \/ \E s \in Callers : StartCall(s) \/ StartStep(s)
         \/ \E c \in Clients : Connect(c) \/ Disconnect(c) \/ Shutdown(c)
         \/ MainStep \/ QuitBase
  PROVE  EverybodyIsSeen'
<1>1. ASSUME NEW s \in Callers, StartCall(s) \/ StartPool(s)
      PROVE  EverybodyIsSeen'
  BY <1>1, QuietlySeen DEF StartCall, StartPool, Queue, table, loops, conns
<1>2. ASSUME NEW s \in Callers, StartListening(s)
      PROVE  EverybodyIsSeen'
  <2>1. /\ UNCHANGED <<state, registered, loopOf, peer, backlog, mainPc, batch>>
        /\ listening => listening'
    BY <1>2 DEF StartListening, Listen, table, loops, conns
  <2>2. \A k \in Loops : \A c \in Clients : /\ Queued(k, Est(c))' <=> Queued(k, Est(c))
                                            /\ Queued(k, Des(c))' <=> Queued(k, Des(c))
    <3>1. CASE pending' = pending
      BY <2>1, <3>1, SameQueues DEF Queue
    <3>2. CASE pending' = Posted(Base, "listen", "acceptor")
      <4>1. pending' = [pending EXCEPT ![Base] = Append(@, Lis)]
        BY <3>2 DEF Posted, Lis
      <4>2. Arrives(Base, Lis)
        BY <2>1, <4>1, BaseIsLoop, FunctorsAreThere, Comes DEF IInv
      <4> QED
        BY <4>2, FunctorsDiffer DEF Arrives
    <3> QED
      BY <1>2, <3>1, <3>2 DEF StartListening
  <2>3. \A c \in Clients : loopOf[c] \in Loops
    BY DEF IInv, Shapes
  <2> QED
    BY <2>1, <2>2, <2>3, SeenStays DEF EverybodyIsSeen, Waits
<1>3. ASSUME NEW c \in Clients, Connect(c)
      PROVE  EverybodyIsSeen'
  <2>1. /\ UNCHANGED <<listening, state, registered, loopOf, mainPc, batch, pending>>
        /\ listening /\ peer' = [peer EXCEPT ![c] = "here"] /\ backlog' = Append(backlog, c)
    BY <1>3 DEF Connect, table, loops, conns
  <2>2. /\ Len(backlog') = Len(backlog) + 1 /\ Len(backlog) \in Nat
        /\ \A i \in 1..Len(backlog) : backlog'[i] = backlog[i]
        /\ backlog'[Len(backlog) + 1] = c
    BY <2>1, AppendProperties DEF IInv, Shapes
  <2>3. Waits(c)' /\ \A d \in Clients : Waits(d) => Waits(d)'
    BY <2>2 DEF Waits
  <2>4. \A d \in Clients : loopOf[d] \in Loops /\ (d # c => peer'[d] = peer[d])
    BY <2>1 DEF IInv, Shapes
  <2>5. \A k \in Loops : \A g : Queued(k, g)' <=> Queued(k, g)
    BY <2>1, SameQueues DEF Queue
  <2>6. ASSUME mainPc = "serving" PROVE Seen(c)'
    BY <2>1, <2>3, <2>4, <2>5, <2>6 DEF EverybodyIsSeen, Seen
  <2>7. ASSUME NEW d \in Clients, d # c, mainPc = "serving" PROVE Seen(d)'
    BY <2>1, <2>3, <2>4, <2>5, <2>7, SeenStays DEF EverybodyIsSeen
  <2> QED
    BY <2>1, <2>6, <2>7 DEF EverybodyIsSeen
<1>4. ASSUME NEW c \in Clients, Disconnect(c)
      PROVE  EverybodyIsSeen'
  <2>1. /\ UNCHANGED <<listening, backlog, state, registered, loopOf, mainPc, batch, pending>>
        /\ \A d \in Clients : peer'[d] # "away" => peer[d] # "away"
    BY <1>4 DEF Disconnect, table, loops, conns, IInv, Shapes
  <2>2. \A k \in Loops : \A g : Queued(k, g)' <=> Queued(k, g)
    BY <2>1, SameQueues DEF Queue
  <2>3. \A d \in Clients : loopOf[d] \in Loops
    BY DEF IInv, Shapes
  <2> QED
    BY <2>1, <2>2, <2>3 DEF EverybodyIsSeen, Seen, Waits
<1>5. ASSUME NEW c \in Clients, Shutdown(c)
      PROVE  EverybodyIsSeen'
  <2>1. /\ UNCHANGED <<listening, backlog, peer, registered, loopOf, mainPc, batch, pending>>
        /\ state[c] = "kConnected"
        /\ \A d \in Clients : state'[d] = IF d = c THEN "kDisconnecting" ELSE state[d]
    BY <1>5 DEF Shutdown, table, loops, IInv, Shapes
  <2>2. \A k \in Loops : \A g : Queued(k, g)' <=> Queued(k, g)
    BY <2>1, SameQueues DEF Queue
  <2>3. \A d \in Clients : loopOf[d] \in Loops
    BY DEF IInv, Shapes
  <2> QED
    BY <2>1, <2>2, <2>3 DEF EverybodyIsSeen, Seen, Waits
<1>6. CASE EnterLoop \/ QuitBase
  BY <1>6, QuietlySeen DEF EnterLoop, Begin, QuitBase, Queue, table, loops, conns
<1>7. CASE MainStep /\ ~EnterLoop
  <2>1. mainPc' # "serving"
    BY <1>7 DEF MainStep, BeginDestroy, ConnectionsDestroyed, MembersDestroyed, LoopDestroyed,
                DestroyConnection, QuitThread, Stage
  <2> QED
    BY <2>1 DEF EverybodyIsSeen
<1> QED
  BY <1>1, <1>2, <1>3, <1>4, <1>5, <1>6, <1>7 DEF StartStep

\* handleClose(): the connection's report down is its last.
LEMMA CloseKeepsSeen ==
  ASSUME IInv, EverybodyIsSeen, NEW c \in Clients, HandleClose(c)
  PROVE  EverybodyIsSeen'
<1>1. /\ UNCHANGED <<listening, backlog, peer, registered, loopOf, mainPc, batch>>
      /\ \A d \in Clients : state'[d] = IF d = c THEN "kDisconnected" ELSE state[d]
  BY DEF HandleClose, TellDown, loops, IInv, Shapes
<1>2. \A d \in Clients : loopOf[d] \in Loops
  BY DEF IInv, Shapes
<1>3. \A k \in Loops : \A d \in Clients :
        /\ Queued(k, Est(d)) => Queued(k, Est(d))'
        /\ d # c => (Queued(k, Des(d))' => Queued(k, Des(d)))
  <2>1. CASE pending' = Posted(loopOf[c], "connectDestroyed", c)
    <3>1. pending' = [pending EXCEPT ![loopOf[c]] = Append(@, Des(c))]
      BY <2>1 DEF Posted, Des
    <3>2. Arrives(loopOf[c], Des(c))
      BY <1>1, <1>2, <3>1, FunctorsAreThere, Comes DEF IInv
    <3> QED
      BY <3>2, FunctorsDiffer DEF Arrives
  <2>2. CASE pending' = Posted(Base, "removeConnectionInLoop", c)
    <3>1. pending' = [pending EXCEPT ![Base] = Append(@, Rem(c))]
      BY <2>2 DEF Posted, Rem
    <3>2. Arrives(Base, Rem(c))
      BY <1>1, <3>1, BaseIsLoop, FunctorsAreThere, Comes DEF IInv
    <3> QED
      BY <3>2, FunctorsDiffer DEF Arrives
  <2> QED
    BY <2>1, <2>2 DEF HandleClose, RemoveConnectionInLoop, QueueDestroyed
<1>4. Seen(c)'
  BY <1>1 DEF Seen
<1>5. ASSUME NEW d \in Clients, d # c, mainPc = "serving" PROVE Seen(d)'
  <2>1. Waits(d)' = Waits(d)
    BY <1>1 DEF Waits
  <2> QED
    BY <1>1, <1>2, <1>3, <1>5, <2>1, SeenStays DEF EverybodyIsSeen
<1> QED
  BY <1>1, <1>4, <1>5 DEF EverybodyIsSeen

\* newConnection(): the client leaves the backlog as a connection that is registered, or
\* that has its connectEstablished queued.
LEMMA AcceptKeepsSeen ==
  ASSUME IInv, EverybodyIsSeen, Accept
  PROVE  EverybodyIsSeen'
<1>1. /\ backlog # << >> /\ backlog' = Tail(backlog)
      /\ UNCHANGED <<mainPc, batch, listening, peer>>
      /\ phase[Base] = "handle" /\ listening
  BY DEF Accept, loops
<1>2. /\ Len(backlog) \in Nat \ {0} /\ Head(backlog) = backlog[1] /\ backlog[1] \in Clients
      /\ Len(backlog') = Len(backlog) - 1
      /\ \A i \in 1..Len(backlog') : backlog'[i] = backlog[i + 1]
  BY <1>1, HeadTailProperties, EmptySeq DEF IInv, Shapes
<1>3. PICK c \in Clients : c = Head(backlog) /\ state[c] = "none"
  BY <1>2 DEF IInv, Waiting
<1>4. \A d \in Clients : d # c => (Waits(d) => Waits(d)')
  <2>1. SUFFICES ASSUME NEW d \in Clients, d # c, NEW i \in 1..Len(backlog), backlog[i] = d
                 PROVE  \E j \in 1..Len(backlog') : backlog'[j] = d
    BY DEF Waits
  <2>2. i # 1
    BY <1>2, <1>3, <2>1
  <2>3. i - 1 \in 1..Len(backlog') /\ backlog'[i - 1] = d
    BY <1>2, <2>1, <2>2
  <2> QED
    BY <2>3
<1>5. PICK m \in NextLoops : NewConnection(c, m)
  BY <1>3 DEF Accept
<1>6. m \in Loops
  BY <1>1, NextLoopsAreUp
<1>7. \A d \in Clients : loopOf[d] \in Loops /\ loopOf'[d] = IF d = c THEN m ELSE loopOf[d]
  BY <1>3, <1>5, <1>6, Entered DEF IInv, Shapes
<1>8. \A k \in Loops : ~Queued(k, Des(c))
  BY <1>3 DEF IInv, Lives
<1>9. ASSUME NEW to \in {"kConnected", "kConnecting"}, state' = [state EXCEPT ![c] = to],
             registered \subseteq registered', mainPc = "serving",
             \A k \in Loops : \A d \in Clients :
               /\ Queued(k, Est(d)) => Queued(k, Est(d))'
               /\ Queued(k, Des(d))' => Queued(k, Des(d)),
             to = "kConnected" => c \in registered',
             to = "kConnecting" => Queued(m, Est(c))'
      PROVE  EverybodyIsSeen'
  <2>1. \A d \in Clients : state'[d] = IF d = c THEN to ELSE state[d]
    BY <1>9 DEF IInv, Shapes
  <2>2. Seen(c)'
    BY <1>7, <1>8, <1>9, <2>1 DEF Seen
  <2>3. ASSUME NEW d \in Clients, d # c PROVE Seen(d)'
    BY <1>1, <1>4, <1>7, <1>9, <2>1, <2>3, SeenStays DEF EverybodyIsSeen
  <2> QED
    BY <2>2, <2>3 DEF EverybodyIsSeen
<1>10. CASE m = Base
  <2>1. /\ pending' = pending /\ state' = [state EXCEPT ![c] = "kConnected"]
        /\ registered' = registered \cup {c}
    BY <1>5, <1>10 DEF NewConnection, ConnectEstablished
  <2>2. \A k \in Loops : \A g : Queued(k, g)' <=> Queued(k, g)
    BY <1>1, <2>1, SameQueues DEF Queue
  <2>3. ASSUME mainPc = "serving" PROVE EverybodyIsSeen'
    <3>1. /\ registered \subseteq registered' /\ c \in registered'
      BY <2>1
    <3>2. \A k \in Loops : \A d \in Clients : /\ Queued(k, Est(d)) => Queued(k, Est(d))'
                                              /\ Queued(k, Des(d))' => Queued(k, Des(d))
      BY <2>2
    <3> QED
      BY <1>9, <2>1, <2>3, <3>1, <3>2
  <2> QED
    BY <1>1, <2>3 DEF EverybodyIsSeen
<1>11. CASE m # Base
  <2>1. /\ pending' = [pending EXCEPT ![m] = Append(@, Est(c))]
        /\ state' = [state EXCEPT ![c] = "kConnecting"] /\ registered' = registered
    BY <1>5, <1>11 DEF NewConnection, Posted, Est
  <2>2. Arrives(m, Est(c))
    BY <1>1, <1>6, <2>1, FunctorsAreThere, Comes DEF IInv
  <2>3. /\ Queued(m, Est(c))'
        /\ \A k \in Loops : \A d \in Clients :
             /\ Queued(k, Est(d)) => Queued(k, Est(d))'
             /\ Queued(k, Des(d))' => Queued(k, Des(d))
    BY <1>6, <2>2, FunctorsDiffer DEF Arrives
  <2>4. ASSUME mainPc = "serving" PROVE EverybodyIsSeen'
    <3>1. registered \subseteq registered'
      BY <2>1
    <3> QED
      BY <1>9, <2>1, <2>3, <2>4, <3>1
  <2> QED
    BY <1>1, <2>4 DEF EverybodyIsSeen
<1> QED
  BY <1>10, <1>11

\* The functors: connectDestroyed finds a connection that was reported down.
LEMMA FunctorsKeepSeen ==
  ASSUME IInv, EverybodyIsSeen, NEW l \in Loops, RunFunctor(l)
  PROVE  EverybodyIsSeen'
<1>1. \A c \in Clients : loopOf[c] \in Loops
  BY DEF IInv, Shapes
<1>2. /\ UNCHANGED <<mainPc, loopOf, peer, backlog>>
      /\ \A c \in Clients : Waits(c)' = Waits(c)
  BY DEF RunFunctor, Runs, Waits
<1>3. ASSUME NEW f \in Functors, NEW op, NEW x, f = <<op, x>>, Runs(l, op, x), pending' = pending
      PROVE  Leaves(l, f)
  BY <1>3, TakesHead, Goes DEF IInv
<1>4. CASE Runs(l, "listen", "acceptor") /\ Listen /\ UNCHANGED <<connections, pending, conns>>
  <2>1. Leaves(l, Lis)
    BY <1>3, <1>4, FunctorsAreThere DEF Lis
  <2>2. \A k \in Loops : \A c \in Clients : /\ Queued(k, Est(c))' <=> Queued(k, Est(c))
                                            /\ Queued(k, Des(c))' <=> Queued(k, Des(c))
    BY <2>1, FunctorsDiffer DEF Leaves
  <2> QED
    BY <1>1, <1>2, <1>4, <2>2, SeenStays DEF EverybodyIsSeen, Listen, conns
<1>5. ASSUME NEW c \in Clients, Runs(l, "connectEstablished", c), ConnectEstablished(c),
             UNCHANGED <<connections, pending, listening>>
      PROVE  EverybodyIsSeen'
  <2>1. Leaves(l, Est(c))
    BY <1>3, <1>5, FunctorsAreThere DEF Est
  <2>2. /\ registered' = registered \cup {c}
        /\ \A d \in Clients : state'[d] = IF d = c THEN "kConnected" ELSE state[d]
    BY <1>5 DEF ConnectEstablished, IInv, Shapes
  <2>3. state[c] = "kConnecting"
    BY <2>1 DEF Leaves, IInv, Lives
  <2>4. \A k \in Loops : \A d \in Clients :
          /\ Queued(k, Des(d))' <=> Queued(k, Des(d))
          /\ d # c => (Queued(k, Est(d))' <=> Queued(k, Est(d)))
    BY <2>1, FunctorsDiffer DEF Leaves
  <2>5. ASSUME mainPc = "serving" PROVE Seen(c)'
    BY <2>2, <2>3, <2>4, <2>5 DEF Seen, EverybodyIsSeen
  <2>6. ASSUME NEW d \in Clients, d # c, mainPc = "serving" PROVE Seen(d)'
    BY <1>1, <1>2, <1>5, <2>2, <2>4, <2>6, SeenStays DEF EverybodyIsSeen
  <2> QED
    BY <1>2, <2>5, <2>6 DEF EverybodyIsSeen
<1>6. ASSUME NEW c \in Clients, Runs(l, "connectDestroyed", c), ConnectDestroyed(c),
             UNCHANGED <<connections, pending, listening>>
      PROVE  EverybodyIsSeen'
  <2>1. Leaves(l, Des(c))
    BY <1>3, <1>6, FunctorsAreThere DEF Des
  <2>2. /\ registered' = registered \ {c}
        /\ \A d \in Clients : d # c => state'[d] = state[d]
        /\ state[c] = "kDisconnected" => state' = state
    BY <1>6 DEF ConnectDestroyed, TellDown, IInv, Shapes
  <2>3. ASSUME mainPc = "serving" PROVE state[c] = "kDisconnected"
    BY <2>1, <2>3 DEF Leaves, EverybodyIsSeen, Seen
  <2>4. \A k \in Loops : \A d \in Clients :
          /\ Queued(k, Est(d))' <=> Queued(k, Est(d))
          /\ Queued(k, Des(d))' => Queued(k, Des(d))
    BY <2>1, FunctorsDiffer DEF Leaves
  <2>5. ASSUME mainPc = "serving" PROVE Seen(c)'
    BY <2>2, <2>3, <2>5 DEF Seen
  <2>6. ASSUME NEW d \in Clients, d # c, mainPc = "serving" PROVE Seen(d)'
    BY <1>1, <1>2, <1>6, <2>2, <2>4, <2>6, SeenStays DEF EverybodyIsSeen
  <2> QED
    BY <1>2, <2>5, <2>6 DEF EverybodyIsSeen
<1>7. ASSUME NEW c \in Clients, Runs(l, "removeConnectionInLoop", c), RemoveConnectionInLoop(c),
             UNCHANGED <<conns, listening>>
      PROVE  EverybodyIsSeen'
  <2>1. /\ batch[l] # << >> /\ Head(batch[l]) = Rem(c) /\ batch' = [batch EXCEPT ![l] = Tail(@)]
    BY <1>7, TakesHead DEF Rem
  <2>2. PICK m \in Loops : m = loopOf[c]
    BY <1>1
  <2>3. pending' = [pending EXCEPT ![m] = Append(@, Des(c))]
    BY <1>7, <2>2 DEF RemoveConnectionInLoop, QueueDestroyed, Posted, Des
  <2>4. Moves(l, Rem(c), m, Des(c))
    BY <2>1, <2>3, FunctorsAreThere, GoesAndComes DEF IInv
  <2>5. state[c] = "kDisconnected"
    <3>1. Queue(l) # << >> /\ Queue(l) \in Seq(Functors) /\ Head(Queue(l)) = Rem(c)
      BY <2>1, Taking DEF IInv
    <3>2. Has(Queue(l), Rem(c))
      BY <3>1, OrderAfterTail
    <3> QED
      BY <3>2 DEF Has, Queued, IInv, Lives
  <2>6. \A k \in Loops : \A d \in Clients :
          /\ Queued(k, Est(d)) => Queued(k, Est(d))'
          /\ d # c => (Queued(k, Des(d))' => Queued(k, Des(d)))
    BY <2>4, FunctorsDiffer DEF Moves
  <2>7. Seen(c)'
    BY <1>7, <2>5 DEF Seen, conns
  <2>8. ASSUME NEW d \in Clients, d # c, mainPc = "serving" PROVE Seen(d)'
    BY <1>1, <1>2, <1>7, <2>6, <2>8, SeenStays DEF EverybodyIsSeen, conns
  <2> QED
    BY <1>2, <2>7, <2>8 DEF EverybodyIsSeen
<1> QED
  BY <1>4, <1>5, <1>6, <1>7 DEF RunFunctor

\* The start of loop(), the swap, and the test of quit_ after a batch: no I/O loop is quit
\* while the server is up.
LEMMA BatchesKeepSeen ==
  ASSUME IInv, EverybodyIsSeen, NEW l \in Loops, BeginLoop(l) \/ Swap(l) \/ EndBatch(l)
  PROVE  EverybodyIsSeen'
<1>1. UNCHANGED <<listening, backlog, peer, state, loopOf, registered, mainPc>>
  BY DEF BeginLoop, Begin, Swap, EndBatch, table, conns
<1>2. CASE Swap(l)
  <2>1. batch[l] = << >> /\ pending[l] \in Seq(Functors)
    BY <1>2 DEF IInv, Stages, Shapes, Swap
  <2>2. << >> \o pending[l] = pending[l] /\ pending[l] \o << >> = pending[l]
    BY <2>1, ConcatEmptySeq
  <2>3. \A k \in Loops : Queue(k)' = Queue(k)
    BY <1>2, <2>1, <2>2 DEF Swap, Queue, IInv, Shapes
  <2> QED
    BY <1>1, <2>3, QuietlySeen
<1>3. CASE EndBatch(l) /\ quit[l] /\ l # Base
  <2>1. mainPc # "serving"
    BY <1>3 DEF IInv, Stages
  <2> QED
    BY <1>1, <2>1 DEF EverybodyIsSeen
<1>4. CASE EndBatch(l) /\ ~(quit[l] /\ l # Base)
  BY <1>1, <1>4, QuietlySeen DEF EndBatch, Queue
<1>5. CASE BeginLoop(l)
  BY <1>1, <1>5, QuietlySeen DEF BeginLoop, Begin, Queue
<1> QED
  BY <1>2, <1>3, <1>4, <1>5

\* As long as the server is up nobody drops out of sight: a client is never between the
\* backlog, a queued connectEstablished and a registered channel, so that its leaving is an
\* event of some loop (Acceptor::handleRead, newConnection, connectEstablished, handleClose).
THEOREM NobodyOutOfSight == Spec => []EverybodyIsSeen
<1>1. Init => EverybodyIsSeen
  BY DEF Init, EverybodyIsSeen, Seen, Queued, Queue
<1>2. ASSUME IInv, EverybodyIsSeen, [Next]_vars
      PROVE  EverybodyIsSeen'
  <2>1. ASSUME NEW l \in Loops, LoopStep(l)
        PROVE  EverybodyIsSeen'
    BY <1>2, <2>1, AcceptKeepsSeen, CloseKeepsSeen, FunctorsKeepSeen, BatchesKeepSeen
       DEF LoopStep
  <2>2. CASE UNCHANGED vars
    BY <1>2, <2>2, QuietlySeen DEF vars, table, loops, conns, Queue
  <2> QED
    BY <1>2, <2>1, <2>2, CallsKeepSeen DEF Next
<1> QED
  BY <1>1, <1>2, Invariance, PTL DEF Spec
==============================================================================
