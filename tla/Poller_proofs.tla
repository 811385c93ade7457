----------------------------- MODULE Poller_proofs -----------------------------
(***************************************************************************)
(* What TLAPS proves of Poller, for any number of channels and             *)
(* descriptors.                                                            *)
(***************************************************************************)
EXTENDS Poller, TLAPS

-----------------------------------------------------------------------------
\* Two owners never share a descriptor.
DescriptorsUnique ==
  \A c, d \in Channels : (fd[c] = fd[d] /\ Exists(c)) => c = d

\* Nothing but a channel marked kAdded is in the epoll set, under its own descriptor.
OnlyAddedWatched ==
  \A f \in Fds : epollPtr[f] # None =>
    fd[epollPtr[f]] = f /\ index[epollPtr[f]] = "kAdded"

\* Active channels wait for their turn in "handle", where none is removed.
ActiveKept ==
  /\ active # {} => phase = "handle"
  /\ \A c \in active : Exists(c) /\ index[c] # "kNew"

Records == TypeOK /\ DescriptorsUnique /\ OnlyAddedWatched /\ EpollAgrees /\ MapAgrees
             /\ CtlNeverFails
IInv == Records /\ ActiveKept

-----------------------------------------------------------------------------
\* An enable or disable keeps the three records in step and no epoll_ctl() fails.
LEMMA UpdateKeepsRecords ==
  ASSUME Records,
         NEW c \in Channels, Exists(c),
         NEW ev \in SUBSET Events,
         UpdateChannel(c, ev),
         UNCHANGED <<fd, thread>>
  PROVE  Records'
<1> USE DEF Records, TypeOK, Exists, CtlNeverFails, thread, epoll
<1> DEFINE f == fd[c]
<1>1. f \in Fds
  OBVIOUS
<1>2. CASE index[c] # "kAdded"
  <2>1. epollPtr[f] = None
    BY <1>2 DEF EpollAgrees
  <2>2. /\ epollPtr' = [epollPtr EXCEPT ![f] = c]
        /\ epollMask' = [epollMask EXCEPT ![f] = ev]
        /\ ctlFailed' = FALSE
        /\ index' = [index EXCEPT ![c] = "kAdded"]
        /\ events' = [events EXCEPT ![c] = ev]
        /\ channels' = IF index[c] = "kNew" THEN [channels EXCEPT ![f] = c] ELSE channels
    BY <1>2, <2>1 DEF UpdateChannel, CtlAdd
  <2>3. TypeOK'
    BY <1>1, <2>2
  <2>4. DescriptorsUnique'
    BY DEF DescriptorsUnique
  <2>5. OnlyAddedWatched' /\ EpollAgrees'
    BY <1>1, <1>2, <2>1, <2>2 DEF OnlyAddedWatched, EpollAgrees, DescriptorsUnique
  <2>6. MapAgrees'
    BY <1>1, <1>2, <2>2, PollerAssumption DEF MapAgrees, DescriptorsUnique
  <2> QED
    BY <2>2, <2>3, <2>4, <2>5, <2>6
<1>3. CASE index[c] = "kAdded"
  <2>1. epollPtr[f] = c /\ epollPtr[f] # None
    BY <1>3, PollerAssumption DEF EpollAgrees
  <2>2. /\ epollPtr' = [epollPtr EXCEPT ![f] = IF ev = {} THEN None ELSE c]
        /\ epollMask' = [epollMask EXCEPT ![f] = ev]
        /\ ctlFailed' = FALSE
        /\ index' = [index EXCEPT ![c] = IF ev = {} THEN "kDeleted" ELSE "kAdded"]
        /\ events' = [events EXCEPT ![c] = ev]
        /\ channels' = channels
    BY <1>3, <2>1 DEF UpdateChannel, CtlDel, CtlMod
  <2>3. TypeOK'
    BY <1>1, <2>2
  <2>4. DescriptorsUnique'
    BY DEF DescriptorsUnique
  <2>5. OnlyAddedWatched' /\ EpollAgrees'
    BY <1>1, <1>3, <2>1, <2>2 DEF OnlyAddedWatched, EpollAgrees, DescriptorsUnique
  <2>6. MapAgrees'
    BY <1>1, <1>3, <2>2 DEF MapAgrees
  <2> QED
    BY <2>2, <2>3, <2>4, <2>5, <2>6
<1> QED
  BY <1>2, <1>3

\* An enable or disable leaves a channel registered, so that it may stay active.
LEMMA UpdateKeepsActive ==
  ASSUME Records, ActiveKept,
         NEW c \in Channels, NEW ev \in SUBSET Events,
         UpdateChannel(c, ev), UNCHANGED <<fd, thread>>
  PROVE  ActiveKept'
BY DEF Records, TypeOK, ActiveKept, UpdateChannel, Exists, thread

\* remove() takes the channel out of the three records.
LEMMA RemoveKeepsIInv ==
  ASSUME IInv, NEW c \in Channels, Remove(c)
  PROVE  IInv'
<1> USE DEF IInv, Records, TypeOK, Exists, CtlNeverFails, thread, epoll
<1> DEFINE f == fd[c]
<1>1. f \in Fds /\ phase = "functors"
  BY DEF Remove
<1>2. index[c] = "kAdded" => epollPtr[f] = c /\ epollPtr[f] # None
  BY <1>1, PollerAssumption DEF EpollAgrees
<1>3. index[c] # "kAdded" => epollPtr[f] = None
  BY <1>1 DEF EpollAgrees, Remove
<1>4. /\ index' = [index EXCEPT ![c] = "kNew"]
      /\ channels' = [channels EXCEPT ![f] = None]
      /\ fd' = fd /\ events' = events
      /\ UNCHANGED <<phase, active, eventList>>
  BY DEF Remove
<1>5. /\ ctlFailed' = FALSE
      /\ epollPtr'[f] = None
      /\ epollPtr' \in [Fds -> Channels \cup {None}]
      /\ epollMask' \in [Fds -> SUBSET Events]
      /\ \A g \in Fds \ {f} : epollPtr'[g] = epollPtr[g] /\ epollMask'[g] = epollMask[g]
  BY <1>1, <1>2, <1>3 DEF Remove, CtlDel
<1>6. TypeOK'
  BY <1>1, <1>4, <1>5
<1>7. DescriptorsUnique'
  BY <1>4 DEF DescriptorsUnique
<1>8. OnlyAddedWatched' /\ EpollAgrees'
  BY <1>1, <1>4, <1>5 DEF OnlyAddedWatched, EpollAgrees, DescriptorsUnique
<1>9. MapAgrees'
  BY <1>1, <1>4, PollerAssumption DEF MapAgrees, DescriptorsUnique
<1>10. ActiveKept'
  BY <1>1, <1>4 DEF ActiveKept
<1> QED
  BY <1>5, <1>6, <1>7, <1>8, <1>9, <1>10

\* A channel whose owner goes leaves no trace.
LEMMA DestroyKeepsIInv ==
  ASSUME IInv, NEW c \in Channels, Destroy(c)
  PROVE  IInv'
<1> USE DEF IInv, Records, TypeOK, Exists, CtlNeverFails, thread, epoll
<1> DEFINE f == fd[c]
<1>1. f \in Fds /\ index[c] = "kNew" /\ Exists(c)
  BY DEF Destroy
<1>2. /\ fd' = [fd EXCEPT ![c] = None]
      /\ epollPtr' = [epollPtr EXCEPT ![f] = None]
      /\ epollMask' = [epollMask EXCEPT ![f] = {}]
      /\ UNCHANGED <<events, index, channels, ctlFailed, phase, active, eventList>>
  BY DEF Destroy
<1>3. epollPtr[f] = None
  BY <1>1 DEF EpollAgrees
<1>4. TypeOK'
  BY <1>1, <1>2
<1>5. DescriptorsUnique'
  BY <1>1, <1>2, PollerAssumption DEF DescriptorsUnique
<1>6. OnlyAddedWatched' /\ EpollAgrees'
  BY <1>1, <1>2, <1>3, PollerAssumption DEF OnlyAddedWatched, EpollAgrees, DescriptorsUnique
<1>7. MapAgrees'
  BY <1>1, <1>2, PollerAssumption DEF MapAgrees
<1>8. ActiveKept'
  BY <1>1, <1>2 DEF ActiveKept
<1> QED
  BY <1>2, <1>4, <1>5, <1>6, <1>7, <1>8

\* A new channel, perhaps at an old address and with an old descriptor, is unknown to all.
LEMMA CreateKeepsIInv ==
  ASSUME IInv, NEW c \in Channels, NEW f \in Fds, Create(c, f)
  PROVE  IInv'
<1> USE DEF IInv, Records, TypeOK, Exists, CtlNeverFails, thread, epoll
<1>1. fd[c] = None /\ \A d \in Channels : fd[d] # f
  BY DEF Create
<1>2. /\ fd' = [fd EXCEPT ![c] = f]
      /\ events' = [events EXCEPT ![c] = {}]
      /\ index' = [index EXCEPT ![c] = "kNew"]
      /\ UNCHANGED <<channels, epollPtr, epollMask, ctlFailed, phase, active, eventList>>
  BY DEF Create
<1>3. f # None
  BY PollerAssumption
<1>4. epollPtr[f] = None
  BY <1>1 DEF OnlyAddedWatched
<1>5. TypeOK'
  BY <1>2
<1>6. DescriptorsUnique'
  BY <1>1, <1>2 DEF DescriptorsUnique
<1>7. OnlyAddedWatched' /\ EpollAgrees'
  BY <1>1, <1>2, <1>3, <1>4, PollerAssumption DEF OnlyAddedWatched, EpollAgrees
<1>8. MapAgrees'
  BY <1>1, <1>2, <1>3, PollerAssumption DEF MapAgrees
<1>9. ActiveKept'
  BY <1>1, <1>2 DEF ActiveKept
<1> QED
  BY <1>2, <1>5, <1>6, <1>7, <1>8, <1>9

\* The loop's own steps change none of the records.
LEMMA LoopKeepsRecords ==
  ASSUME Records, UNCHANGED <<objects, channels, epoll>>, TypeOK'
  PROVE  Records'
BY DEF Records, TypeOK, DescriptorsUnique, OnlyAddedWatched, EpollAgrees, MapAgrees,
       CtlNeverFails, Exists, objects, epoll, thread

\* A list of events that is doubled stays a non-empty list.
LEMMA PollKeepsIInv ==
  ASSUME IInv, NEW ready \in SUBSET Channels, Poll(ready)
  PROVE  IInv'
<1> USE DEF IInv, Records, TypeOK, thread, objects, epoll
<1>1. eventList' \in Nat \ {0}
  BY DEF Poll
<1>2. TypeOK'
  BY <1>1 DEF Poll
<1>3. Records'
  BY <1>2, LoopKeepsRecords DEF Poll
<1>4. \A c \in ready : Exists(c) /\ index[c] # "kNew"
  BY PollerAssumption DEF Poll, Watched, OnlyAddedWatched, Exists
<1>5. ActiveKept'
  BY <1>4 DEF Poll, ActiveKept, Exists
<1> QED
  BY <1>3, <1>5

\* One step keeps the inductive invariant.
LEMMA IInvStep ==
  ASSUME IInv, [Next]_vars
  PROVE  IInv'
<1>1. ASSUME NEW c \in Channels, NEW ev \in SUBSET Events, Exists(c),
             UpdateChannel(c, ev), UNCHANGED <<fd, thread>>
      PROVE  IInv'
  BY <1>1, UpdateKeepsRecords, UpdateKeepsActive DEF IInv
<1>2. ASSUME NEW c \in Channels,
             EnableReading(c) \/ DisableReading(c) \/ EnableWriting(c)
               \/ DisableWriting(c) \/ DisableAll(c)
      PROVE  IInv'
  <2>1. events[c] \in SUBSET Events /\ {"read", "write"} \subseteq Events
    BY DEF IInv, Records, TypeOK, Events
  <2> QED
    BY <1>1, <1>2, <2>1
       DEF EnableReading, DisableReading, EnableWriting, DisableWriting, DisableAll
<1>3. ASSUME NEW c \in Channels, Handled(c)
      PROVE  IInv'
  BY <1>3, LoopKeepsRecords DEF Handled, IInv, Records, TypeOK, ActiveKept, Exists, thread,
     objects, epoll
<1>4. CASE RunFunctors
  BY <1>4, LoopKeepsRecords DEF RunFunctors, IInv, Records, TypeOK, ActiveKept, Exists,
     thread, objects, epoll
<1>5. CASE PollAgain
  BY <1>5, LoopKeepsRecords DEF PollAgain, IInv, Records, TypeOK, ActiveKept, Exists,
     thread, objects, epoll
<1>6. CASE UNCHANGED vars
  BY <1>6, LoopKeepsRecords DEF vars, IInv, Records, TypeOK, ActiveKept, Exists, thread, objects,
     epoll
<1> QED
  BY <1>2, <1>3, <1>4, <1>5, <1>6, CreateKeepsIInv, RemoveKeepsIInv, DestroyKeepsIInv,
     PollKeepsIInv DEF Next

\* The inductive invariant holds of every behaviour.
THEOREM Invariance == Spec => []IInv
<1>1. Init => IInv
  BY PollerAssumption DEF Init, IInv, Records, TypeOK, DescriptorsUnique, OnlyAddedWatched,
     EpollAgrees, MapAgrees, CtlNeverFails, ActiveKept, Exists
<1>2. IInv /\ [Next]_vars => IInv'
  BY IInvStep
<1> QED
  BY <1>1, <1>2, PTL DEF Spec

\* Every record keeps to its type (all of EPollPoller.cc and Channel.cc).
THEOREM Typing == Spec => []TypeOK
<1>1. IInv => TypeOK
  BY DEF IInv, Records
<1> QED
  BY <1>1, Invariance, PTL

\* index_, events_ and the kernel's epoll set agree after any sequence of calls.
THEOREM KernelInStep == Spec => []EpollAgrees
<1>1. IInv => EpollAgrees
  BY DEF IInv, Records
<1> QED
  BY <1>1, Invariance, PTL

\* The channel map has exactly the registered channels, and no dangling pointer.
THEOREM MapInStep == Spec => []MapAgrees
<1>1. IInv => MapAgrees
  BY DEF IInv, Records
<1> QED
  BY <1>1, Invariance, PTL

\* No epoll_ctl() ever fails.
THEOREM NoCtlError == Spec => []CtlNeverFails
<1>1. IInv => CtlNeverFails
  BY DEF IInv, Records
<1> QED
  BY <1>1, Invariance, PTL

\* No channel is handled after it was destroyed.
THEOREM ActiveChannelsExist == Spec => []ActiveExist
<1>1. IInv => ActiveExist
  BY DEF IInv, ActiveKept, ActiveExist
<1> QED
  BY <1>1, Invariance, PTL
==============================================================================
