------------------------------- MODULE Poller -------------------------------
(***************************************************************************)
(* The Channels of one EventLoop, the EPollPoller that watches them and    *)
(* the kernel's epoll set: three records of who watches what, which every  *)
(* enable, disable and remove must keep in step.                           *)
(*                                                                         *)
(* A Channel is an address: created for an open file descriptor, destroyed *)
(* together with it (Acceptor, TcpConnection and EventLoop each own the    *)
(* channel and close the descriptor behind it), and both may be used again *)
(* by the next owner.  An owner calls remove() before it destroys the      *)
(* channel.  For a connection that happens in a functor                    *)
(* (TcpServer::removeConnectionInLoop queues connectDestroyed), never      *)
(* while the loop walks activeChannels_.                                   *)
(***************************************************************************)
EXTENDS Naturals, FiniteSets

CONSTANTS
  Channels,            \* addresses of Channel objects
  Fds,                 \* file descriptors
  None,                \* no channel, no descriptor
  InitEventListSize    \* kInitEventListSize

ASSUME PollerAssumption ==
  /\ None \notin Channels \cup Fds
  /\ InitEventListSize \in Nat \ {0}

VARIABLES
  fd,          \* fd[c]: c's descriptor, None when there is no such object
  events,      \* events_
  index,       \* index_
  channels,    \* Poller::channels_: the channel registered for a descriptor, or None
  epollPtr,    \* the epoll set: event.data.ptr of a descriptor, None when not in the set
  epollMask,   \* the epoll set: event.events of a descriptor
  ctlFailed,   \* an epoll_ctl() failed (EEXIST or ENOENT)
  phase,       \* the loop: in "poll", in "handle", or running "functors"
  active,      \* activeChannels_ not handled yet
  eventList    \* size of EPollPoller::events_

objects == <<fd, events, index>>
epoll   == <<epollPtr, epollMask, ctlFailed>>
thread  == <<phase, active, eventList>>
vars    == <<objects, channels, epoll, thread>>

Events == {"read", "write"}
Exists(c) == fd[c] # None

Init ==
  /\ fd = [c \in Channels |-> None]
  /\ events = [c \in Channels |-> {}]
  /\ index = [c \in Channels |-> "kNew"]
  /\ channels = [f \in Fds |-> None]
  /\ epollPtr = [f \in Fds |-> None]
  /\ epollMask = [f \in Fds |-> {}]
  /\ ctlFailed = FALSE
  /\ phase = "functors"
  /\ active = {}
  /\ eventList = InitEventListSize

-----------------------------------------------------------------------------
\* EPollPoller::update: epoll_ctl with event.events = ev and event.data.ptr = c.

CtlAdd(c, ev) ==
  IF epollPtr[fd[c]] = None
  THEN /\ epollPtr' = [epollPtr EXCEPT ![fd[c]] = c]
       /\ epollMask' = [epollMask EXCEPT ![fd[c]] = ev]
       /\ UNCHANGED ctlFailed
  ELSE ctlFailed' = TRUE /\ UNCHANGED <<epollPtr, epollMask>>

CtlMod(c, ev) ==
  IF epollPtr[fd[c]] # None
  THEN /\ epollPtr' = [epollPtr EXCEPT ![fd[c]] = c]
       /\ epollMask' = [epollMask EXCEPT ![fd[c]] = ev]
       /\ UNCHANGED ctlFailed
  ELSE ctlFailed' = TRUE /\ UNCHANGED <<epollPtr, epollMask>>

CtlDel(c) ==
  IF epollPtr[fd[c]] # None
  THEN /\ epollPtr' = [epollPtr EXCEPT ![fd[c]] = None]
       /\ epollMask' = [epollMask EXCEPT ![fd[c]] = {}]
       /\ UNCHANGED ctlFailed
  ELSE ctlFailed' = TRUE /\ UNCHANGED <<epollPtr, epollMask>>

\* Mutant of UpdateChannel: a channel taken out of the set keeps kAdded.
StickyUpdateChannel(c, ev) ==
  /\ events' = [events EXCEPT ![c] = ev]
  /\ IF index[c] # "kAdded"
     THEN /\ channels' = IF index[c] = "kNew" THEN [channels EXCEPT ![fd[c]] = c]
                                              ELSE channels
          /\ index' = [index EXCEPT ![c] = "kAdded"]
          /\ CtlAdd(c, ev)
     ELSE /\ UNCHANGED <<channels, index>>
          /\ IF ev = {} THEN CtlDel(c) ELSE CtlMod(c, ev)

\* Mutant of UpdateChannel: a new interest of a known channel does not reach the kernel.
StaleUpdateChannel(c, ev) ==
  /\ events' = [events EXCEPT ![c] = ev]
  /\ IF index[c] # "kAdded"
     THEN /\ channels' = IF index[c] = "kNew" THEN [channels EXCEPT ![fd[c]] = c]
                                              ELSE channels
          /\ index' = [index EXCEPT ![c] = "kAdded"]
          /\ CtlAdd(c, ev)
     ELSE /\ UNCHANGED channels
          /\ index' = [index EXCEPT ![c] = IF ev = {} THEN "kDeleted" ELSE "kAdded"]
          /\ IF ev = {} THEN CtlDel(c) ELSE UNCHANGED epoll

\* Channel::update with the new events_, through EventLoop::updateChannel.
UpdateChannel(c, ev) ==
  /\ events' = [events EXCEPT ![c] = ev]
  /\ IF index[c] # "kAdded"
     THEN /\ channels' = IF index[c] = "kNew" THEN [channels EXCEPT ![fd[c]] = c]
                                              ELSE channels
          /\ index' = [index EXCEPT ![c] = "kAdded"]
          /\ CtlAdd(c, ev)
     ELSE /\ UNCHANGED channels
          /\ index' = [index EXCEPT ![c] = IF ev = {} THEN "kDeleted" ELSE "kAdded"]
          /\ IF ev = {} THEN CtlDel(c) ELSE CtlMod(c, ev)

-----------------------------------------------------------------------------
\* The owners.  Channels change hands on the loop thread only, outside epoll_wait.

Create(c, f) ==
  /\ ~Exists(c)
  /\ \A d \in Channels : fd[d] # f
  /\ fd' = [fd EXCEPT ![c] = f]
  /\ events' = [events EXCEPT ![c] = {}]
  /\ index' = [index EXCEPT ![c] = "kNew"]
  /\ UNCHANGED <<channels, epoll, thread>>

Awake == phase # "poll"

EnableReading(c) ==
  Awake /\ Exists(c) /\ UpdateChannel(c, events[c] \cup {"read"}) /\ UNCHANGED <<fd, thread>>

DisableReading(c) ==
  Awake /\ Exists(c) /\ UpdateChannel(c, events[c] \ {"read"}) /\ UNCHANGED <<fd, thread>>

EnableWriting(c) ==
  Awake /\ Exists(c) /\ UpdateChannel(c, events[c] \cup {"write"}) /\ UNCHANGED <<fd, thread>>

DisableWriting(c) ==
  Awake /\ Exists(c) /\ UpdateChannel(c, events[c] \ {"write"}) /\ UNCHANGED <<fd, thread>>

DisableAll(c) ==
  Awake /\ Exists(c) /\ UpdateChannel(c, {}) /\ UNCHANGED <<fd, thread>>

\* Mutant of Remove: called while the loop walks activeChannels_.
EagerRemove(c) ==
  /\ Awake
  /\ Exists(c)
  /\ channels' = [channels EXCEPT ![fd[c]] = None]
  /\ IF index[c] = "kAdded" THEN CtlDel(c) ELSE UNCHANGED epoll
  /\ index' = [index EXCEPT ![c] = "kNew"]
  /\ UNCHANGED <<fd, events, thread>>

\* Mutant of Remove: the map keeps its entry.
ForgettingRemove(c) ==
  /\ phase = "functors"
  /\ Exists(c)
  /\ IF index[c] = "kAdded" THEN CtlDel(c) ELSE UNCHANGED epoll
  /\ index' = [index EXCEPT ![c] = "kNew"]
  /\ UNCHANGED <<fd, events, channels, thread>>

\* removeChannel
Remove(c) ==
  /\ phase = "functors"
  /\ Exists(c)
  /\ channels' = [channels EXCEPT ![fd[c]] = None]
  /\ IF index[c] = "kAdded" THEN CtlDel(c) ELSE UNCHANGED epoll
  /\ index' = [index EXCEPT ![c] = "kNew"]
  /\ UNCHANGED <<fd, events, thread>>

\* The owner goes (perhaps on another thread, with the last pointer to it): the channel
\* is deleted and the descriptor closed, which takes it out of the epoll set.
Destroy(c) ==
  /\ Exists(c)
  /\ index[c] = "kNew"
  /\ fd' = [fd EXCEPT ![c] = None]
  /\ epollPtr' = [epollPtr EXCEPT ![fd[c]] = None]
  /\ epollMask' = [epollMask EXCEPT ![fd[c]] = {}]
  /\ UNCHANGED <<events, index, channels, ctlFailed, thread>>

-----------------------------------------------------------------------------
\* The loop.

\* What epoll_wait can report: EPOLLERR and EPOLLHUP come whatever the mask.
Watched == {epollPtr[f] : f \in Fds} \ {None}

\* Mutant of Poll: the list is shortened when nothing happened.
ShrinkingPoll(ready) ==
  /\ phase = "poll"
  /\ ready \subseteq Watched
  /\ Cardinality(ready) <= eventList
  /\ phase' = "handle"
  /\ active' = ready
  /\ eventList' = IF ready = {} THEN eventList - 1 ELSE eventList
  /\ UNCHANGED <<objects, channels, epoll>>

\* poll: at most events_.size() channels; a full list is doubled.
Poll(ready) ==
  /\ phase = "poll"
  /\ ready \subseteq Watched
  /\ Cardinality(ready) <= eventList
  /\ phase' = "handle"
  /\ active' = ready
  /\ eventList' = IF Cardinality(ready) = eventList THEN 2 * eventList ELSE eventList
  /\ UNCHANGED <<objects, channels, epoll>>

\* The callbacks of one channel have returned.
Handled(c) ==
  /\ phase = "handle"
  /\ c \in active
  /\ active' = active \ {c}
  /\ UNCHANGED <<objects, channels, epoll, phase, eventList>>

RunFunctors ==
  /\ phase = "handle"
  /\ active = {}
  /\ phase' = "functors"
  /\ UNCHANGED <<objects, channels, epoll, active, eventList>>

PollAgain ==
  /\ phase = "functors"
  /\ phase' = "poll"
  /\ UNCHANGED <<objects, channels, epoll, active, eventList>>

Next ==
  \/ \E c \in Channels :
       \/ \E f \in Fds : Create(c, f)
       \/ DisableAll(c)
       \/ EnableReading(c) \/ DisableReading(c)
       \/ EnableWriting(c) \/ DisableWriting(c)
       \/ Remove(c)
       \/ Destroy(c)
       \/ Handled(c)
  \/ \E ready \in SUBSET Channels : Poll(ready)
  \/ RunFunctors
  \/ PollAgain

Spec == Init /\ [][Next]_vars

-----------------------------------------------------------------------------
TypeOK ==
  /\ fd \in [Channels -> Fds \cup {None}]
  /\ events \in [Channels -> SUBSET Events]
  /\ index \in [Channels -> {"kNew", "kAdded", "kDeleted"}]
  /\ channels \in [Fds -> Channels \cup {None}]
  /\ epollPtr \in [Fds -> Channels \cup {None}]
  /\ epollMask \in [Fds -> SUBSET Events]
  /\ ctlFailed \in BOOLEAN
  /\ phase \in {"poll", "handle", "functors"}
  /\ active \in SUBSET Channels
  /\ eventList \in Nat \ {0}

\* The kernel watches exactly the channels marked kAdded, each for its own events_:
\* index_ and the epoll set agree after any sequence of enables, disables and removes,
\* and after addresses and descriptors were used again (updateChannel, removeChannel).
EpollAgrees ==
  \A c \in Channels : Exists(c) =>
    IF index[c] = "kAdded"
    THEN epollPtr[fd[c]] = c /\ epollMask[fd[c]] = events[c]
    ELSE epollPtr[fd[c]] = None

\* hasChannel() tells the truth: the map has the channels that were ever enabled since
\* their creation or removal, and no entry outlives its channel (channels_, index_).
MapAgrees ==
  \A f \in Fds : \A c \in Channels :
    channels[f] = c <=> (fd[c] = f /\ index[c] # "kNew")

\* No epoll_ctl() ever fails: no descriptor is added twice, modified or deleted while it
\* is not in the set.
CtlNeverFails == ~ctlFailed

\* The channels poll() returned still exist when their turn comes.
ActiveExist == \A c \in active : Exists(c)
==============================================================================
