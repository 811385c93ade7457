------------------------------ MODULE TaskQueue ------------------------------
(***************************************************************************)
(* What EventLoop::queueInLoop promises its callers, with no eventfd, no   *)
(* poller and no threads: a queue of tasks that one executor empties in    *)
(* the order in which they were posted, each exactly once, until it is     *)
(* closed.  EventLoop is shown to implement it.                            *)
(***************************************************************************)
EXTENDS Sequences

CONSTANT Tasks

VARIABLES
  unposted,   \* tasks nobody has posted yet
  waiting,    \* posted and not yet started, oldest first
  started,    \* every task the executor has started, oldest first
  closed      \* the executor has left

tqvars == <<unposted, waiting, started, closed>>

Init ==
  /\ unposted = Tasks
  /\ waiting = << >>
  /\ started = << >>
  /\ closed = FALSE

\* Any thread, at any time (even when the executor has left).
Post(t) ==
  /\ t \in unposted
  /\ unposted' = unposted \ {t}
  /\ waiting' = Append(waiting, t)
  /\ UNCHANGED <<started, closed>>

\* The executor's own thread may run a task on the spot instead.
RunNow(t) ==
  /\ t \in unposted
  /\ unposted' = unposted \ {t}
  /\ UNCHANGED <<waiting, started, closed>>

StartOldest ==
  /\ ~closed
  /\ waiting # << >>
  /\ started' = Append(started, Head(waiting))
  /\ waiting' = Tail(waiting)
  /\ UNCHANGED <<unposted, closed>>

Close ==
  /\ closed' = TRUE
  /\ UNCHANGED <<unposted, waiting, started>>

Next ==
  \/ \E t \in Tasks : Post(t) \/ RunNow(t)
  \/ StartOldest
  \/ Close

Spec == Init /\ [][Next]_tqvars

\* A waiting task is started sooner or later unless the queue is closed.
QueueServed == WF_tqvars(StartOldest)
LiveSpec    == Spec /\ QueueServed
==============================================================================
