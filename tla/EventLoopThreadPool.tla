-------------------------- MODULE EventLoopThreadPool --------------------------
(***************************************************************************)
(* An EventLoopThreadPool from start() to its destruction: the main thread *)
(* that creates the EventLoopThreads, asks getNextLoop() for a loop per    *)
(* connection and destroys them, and the I/O threads that each build an    *)
(* EventLoop on their stack, publish its address in loop_, run loop(), and *)
(* take the address back.                                                  *)
(*                                                                         *)
(* Grain of atomicity.  A critical section of mutex_ is one step, except   *)
(* the last one, whose lock is released after loop_ is cleared.  The       *)
(* destructor reads loop_ twice without mutex_, and quit() stores quit_    *)
(* and then writes the eventfd: four steps.  What loop() does is module    *)
(* EventLoop; here it polls, handles and tests quit_.                      *)
(***************************************************************************)
EXTENDS Naturals, Sequences

CONSTANTS
  NumThreads,   \* numThreads_
  MaxCalls      \* bound on the calls of getNextLoop()

ASSUME PoolAssumption == NumThreads \in Nat /\ MaxCalls \in Nat

Threads == 1..NumThreads      \* threads_, in the order of the vector
Base == 0                     \* baseLoop_

VARIABLES
  mainPc,     \* where the main thread is
  cur,        \* the thread it is creating or destroying
  loops,      \* loops_
  next,       \* next_
  assigned,   \* assigned[l]: connections given to loop l
  calls,      \* calls of getNextLoop() so far
  ioPc,       \* where an I/O thread is
  loopPtr,    \* loop_ is not null
  quit,       \* quit_ of the thread's EventLoop
  wakeupFd    \* its eventfd is readable

dispatch == <<next, assigned, calls>>
vars == <<mainPc, cur, loops, dispatch, ioPc, loopPtr, quit, wakeupFd>>

\* The EventLoop on the stack of threadFunc() exists.
InLoop == {"check", "poll", "handle"}
Exists(t) == ioPc[t] \in {"init", "published", "exited", "cleared", "leaving"} \cup InLoop

Starting   == {"start", "sem", "wait", "blocked"}
Destroying == {"test", "load", "quit", "wakeup", "join"}

Init ==
  /\ mainPc = "start" /\ cur = 1
  /\ loops = << >> /\ next = 0
  /\ assigned = [l \in {Base} \cup Threads |-> 0] /\ calls = 0
  /\ ioPc = [t \in Threads |-> "none"]
  /\ loopPtr = [t \in Threads |-> FALSE]
  /\ quit = [t \in Threads |-> FALSE]
  /\ wakeupFd = [t \in Threads |-> FALSE]

-----------------------------------------------------------------------------
\* start(): one EventLoopThread after the other.

\* startLoop: Thread::start creates the thread ...
StartThread ==
  /\ mainPc = "start" /\ cur \in Threads
  /\ ioPc' = [ioPc EXCEPT ![cur] = "spawned"]
  /\ mainPc' = "sem"
  /\ UNCHANGED <<cur, loops, dispatch, loopPtr, quit, wakeupFd>>

\* ... and waits until it runs.
SemWait ==
  /\ mainPc = "sem"
  /\ ioPc[cur] # "spawned"
  /\ mainPc' = "wait"
  /\ UNCHANGED <<cur, loops, dispatch, ioPc, loopPtr, quit, wakeupFd>>

StartLoopReturns ==
  /\ loops' = Append(loops, cur)
  /\ cur' = cur + 1
  /\ mainPc' = "start"

\* Mutant of WaitForLoop: loop_ is returned whatever it is.
ImpatientWaitForLoop ==
  /\ mainPc = "wait"
  /\ StartLoopReturns
  /\ UNCHANGED <<dispatch, ioPc, loopPtr, quit, wakeupFd>>

\* Mutant of WaitForLoop: cond_.wait(lock), without the predicate.
BlindWaitForLoop ==
  /\ mainPc = "wait"
  /\ mainPc' = "blocked"
  /\ UNCHANGED <<cur, loops, dispatch, ioPc, loopPtr, quit, wakeupFd>>

\* cond_.wait with its predicate: one test of loop_ under mutex_.
WaitForLoop ==
  /\ mainPc = "wait"
  /\ IF loopPtr[cur] THEN StartLoopReturns
     ELSE mainPc' = "blocked" /\ UNCHANGED <<cur, loops>>
  /\ UNCHANGED <<dispatch, ioPc, loopPtr, quit, wakeupFd>>

\* A condition variable may wake up for no reason.
SpuriousWakeup ==
  /\ mainPc = "blocked"
  /\ mainPc' = "wait"
  /\ UNCHANGED <<cur, loops, dispatch, ioPc, loopPtr, quit, wakeupFd>>

StartReturns ==
  /\ mainPc = "start" /\ cur \notin Threads
  /\ mainPc' = "serving"
  /\ UNCHANGED <<cur, loops, dispatch, ioPc, loopPtr, quit, wakeupFd>>

\* Mutant of NextIndex: it wraps one loop too early.
EarlyNextIndex == IF next + 2 >= Len(loops) THEN 0 ELSE next + 1

\* Mutant of NextIndex: it wraps one loop too late.
LateNextIndex == IF next >= Len(loops) THEN 0 ELSE next + 1

NextIndex == IF next + 1 >= Len(loops) THEN 0 ELSE next + 1

\* Round robin over loops_; the base loop when there is none.
GetNextLoop ==
  /\ mainPc = "serving"
  /\ calls < MaxCalls
  /\ calls' = calls + 1
  /\ IF loops # << >>
     THEN /\ assigned' = [assigned EXCEPT ![loops[next + 1]] = @ + 1]
          /\ next' = NextIndex
     ELSE assigned' = [assigned EXCEPT ![Base] = @ + 1] /\ UNCHANGED next
  /\ UNCHANGED <<mainPc, cur, loops, ioPc, loopPtr, quit, wakeupFd>>

-----------------------------------------------------------------------------
\* ~EventLoopThreadPool, after the base loop: threads_ is destroyed front to back.

BeginDestroy ==
  /\ mainPc = "serving"
  /\ mainPc' = "test" /\ cur' = 1
  /\ UNCHANGED <<loops, dispatch, ioPc, loopPtr, quit, wakeupFd>>

Destroyed(t) == mainPc = "ended" \/ (mainPc \in Destroying /\ t < cur)

\* ~EventLoopThread: if(loop_ != nullptr), without mutex_.
TestLoop ==
  /\ mainPc = "test" /\ cur \in Threads
  /\ IF loopPtr[cur] THEN mainPc' = "load" /\ UNCHANGED cur
     ELSE cur' = cur + 1 /\ UNCHANGED mainPc
  /\ UNCHANGED <<loops, dispatch, ioPc, loopPtr, quit, wakeupFd>>

\* loop_->quit(): the build may read loop_ again, or keep the value it tested.
LoadLoop ==
  /\ mainPc = "load"
  /\ mainPc' \in {"quit"} \cup (IF loopPtr[cur] THEN {} ELSE {"crashed"})
  /\ UNCHANGED <<cur, loops, dispatch, ioPc, loopPtr, quit, wakeupFd>>

\* EventLoop::quit: quit_ = true; a store into a dead EventLoop changes nothing here.
SetQuit ==
  /\ mainPc = "quit"
  /\ quit' = IF Exists(cur) THEN [quit EXCEPT ![cur] = TRUE] ELSE quit
  /\ mainPc' = "wakeup"
  /\ UNCHANGED <<cur, loops, dispatch, ioPc, loopPtr, wakeupFd>>

\* Mutant of Wakeup: quit() does not write the eventfd.
SilentWakeup ==
  /\ mainPc = "wakeup"
  /\ mainPc' = "join"
  /\ UNCHANGED <<cur, loops, dispatch, ioPc, loopPtr, quit, wakeupFd>>

\* EventLoop::quit: wakeup().
Wakeup ==
  /\ mainPc = "wakeup"
  /\ wakeupFd' = IF Exists(cur) THEN [wakeupFd EXCEPT ![cur] = TRUE] ELSE wakeupFd
  /\ mainPc' = "join"
  /\ UNCHANGED <<cur, loops, dispatch, ioPc, loopPtr, quit>>

\* Mutant of Join: the thread is detached.
DetachingJoin ==
  /\ mainPc = "join"
  /\ mainPc' = "test" /\ cur' = cur + 1
  /\ UNCHANGED <<loops, dispatch, ioPc, loopPtr, quit, wakeupFd>>

\* Thread::join
Join ==
  /\ mainPc = "join"
  /\ ioPc[cur] = "done"
  /\ mainPc' = "test" /\ cur' = cur + 1
  /\ UNCHANGED <<loops, dispatch, ioPc, loopPtr, quit, wakeupFd>>

DestroyReturns ==
  /\ mainPc = "test" /\ cur \notin Threads
  /\ mainPc' = "ended"
  /\ UNCHANGED <<cur, loops, dispatch, ioPc, loopPtr, quit, wakeupFd>>

-----------------------------------------------------------------------------
\* The I/O threads: Thread's lambda and threadFunc().

Moves(t, from, to) ==
  /\ mainPc # "crashed"
  /\ ioPc[t] = from
  /\ ioPc' = [ioPc EXCEPT ![t] = to]
  /\ UNCHANGED <<cur, loops, dispatch>>

\* sem_post
RunThread(t) == Moves(t, "spawned", "running") /\ UNCHANGED <<mainPc, loopPtr, quit, wakeupFd>>

\* EventLoop loop; callback_(&loop)
ConstructLoop(t) == Moves(t, "running", "init") /\ UNCHANGED <<mainPc, loopPtr, quit, wakeupFd>>

\* loop_ = &loop; cond_.notify_one()
PublishLoop(t) ==
  /\ Moves(t, "init", "published")
  /\ loopPtr' = [loopPtr EXCEPT ![t] = TRUE]
  /\ mainPc' = IF mainPc = "blocked" /\ cur = t THEN "wait" ELSE mainPc
  /\ UNCHANGED <<quit, wakeupFd>>

\* loop(): quit_ = false
EnterLoop(t) ==
  /\ Moves(t, "published", "check")
  /\ quit' = [quit EXCEPT ![t] = FALSE]
  /\ UNCHANGED <<mainPc, loopPtr, wakeupFd>>

\* while(!quit_)
CheckQuit(t) ==
  /\ Moves(t, "check", IF quit[t] THEN "exited" ELSE "poll")
  /\ UNCHANGED <<mainPc, loopPtr, quit, wakeupFd>>

\* The eventfd interrupts epoll_wait, and handleRead() resets it.
PollWakeup(t) ==
  /\ wakeupFd[t]
  /\ Moves(t, "poll", "handle")
  /\ wakeupFd' = [wakeupFd EXCEPT ![t] = FALSE]
  /\ UNCHANGED <<mainPc, loopPtr, quit>>

\* Other channels, or the timeout.
PollOther(t) == Moves(t, "poll", "handle") /\ UNCHANGED <<mainPc, loopPtr, quit, wakeupFd>>

\* A callback on the loop may call quit() on it.
SelfQuit(t) ==
  /\ mainPc # "crashed"
  /\ ioPc[t] = "handle"
  /\ quit' = [quit EXCEPT ![t] = TRUE]
  /\ UNCHANGED <<mainPc, cur, loops, dispatch, ioPc, loopPtr, wakeupFd>>

EndHandling(t) == Moves(t, "handle", "check") /\ UNCHANGED <<mainPc, loopPtr, quit, wakeupFd>>

\* loop_ = nullptr under mutex_
ClearLoop(t) ==
  /\ Moves(t, "exited", "cleared")
  /\ loopPtr' = [loopPtr EXCEPT ![t] = FALSE]
  /\ UNCHANGED <<mainPc, quit, wakeupFd>>

\* The lock is released, then the EventLoop destroyed.
Unlock(t) == Moves(t, "cleared", "leaving") /\ UNCHANGED <<mainPc, loopPtr, quit, wakeupFd>>

DestroyLoop(t) == Moves(t, "leaving", "done") /\ UNCHANGED <<mainPc, loopPtr, quit, wakeupFd>>

-----------------------------------------------------------------------------
MainStep ==
  \/ StartThread \/ SemWait \/ WaitForLoop \/ StartReturns
  \/ TestLoop \/ LoadLoop \/ SetQuit \/ Wakeup \/ Join \/ DestroyReturns

IoStep(t) ==
  \/ RunThread(t) \/ ConstructLoop(t) \/ PublishLoop(t) \/ EnterLoop(t)
  \/ CheckQuit(t) \/ PollWakeup(t) \/ EndHandling(t)
  \/ ClearLoop(t) \/ Unlock(t) \/ DestroyLoop(t)

Next ==
  \/ MainStep
  \/ SpuriousWakeup \/ GetNextLoop \/ BeginDestroy
  \/ \E t \in Threads : IoStep(t) \/ PollOther(t) \/ SelfQuit(t)

Spec == Init /\ [][Next]_vars

\* Every thread is scheduled, and callbacks return.  No spurious wakeup, no I/O event
\* and no poll timeout is relied on.
FairSpec == Spec /\ WF_vars(MainStep) /\ \A t \in Threads : WF_vars(IoStep(t))

\* And epoll_wait times out.
TimedSpec == FairSpec /\ \A t \in Threads : WF_vars(PollOther(t))

-----------------------------------------------------------------------------
TypeOK ==
  /\ mainPc \in Starting \cup {"serving", "ended", "crashed"} \cup Destroying
  /\ cur \in 1..(NumThreads + 1)
  /\ loops \in Seq(Threads) /\ Len(loops) <= NumThreads
  /\ next \in Nat /\ (next = 0 \/ next < NumThreads)
  /\ calls \in 0..MaxCalls
  /\ assigned \in [{Base} \cup Threads -> Nat]
  /\ ioPc \in [Threads -> {"none", "spawned", "running", "init", "published", "check",
                           "poll", "handle", "exited", "cleared", "leaving", "done"}]
  /\ loopPtr \in [Threads -> BOOLEAN]
  /\ quit \in [Threads -> BOOLEAN]
  /\ wakeupFd \in [Threads -> BOOLEAN]

\* While the server hands out loops, every EventLoop behind loops_ exists, unless one of
\* its own callbacks has quit it: startLoop() returned no loop before its thread built it
\* (startLoop, threadFunc).
LoopsExist ==
  mainPc = "serving" =>
    /\ Len(loops) = NumThreads
    /\ \A i \in 1..Len(loops) : Exists(loops[i]) \/ quit[loops[i]]

\* Once ~EventLoopThread has returned, loop() runs no more on the thread behind it: the
\* destructor has waited for its end, unless it found loop_ taken back (~EventLoopThread,
\* threadFunc).
NoLoopLeft == \A t \in Threads : Destroyed(t) => ioPc[t] \in {"cleared", "leaving", "done"}

\* Connections are spread evenly: no loop is more than one ahead of another, and the base
\* loop serves only when there is no other (getNextLoop).
SpreadEvenly ==
  /\ \A s, t \in Threads : assigned[s] <= assigned[t] + 1
  /\ NumThreads > 0 => assigned[Base] = 0

\* start() returns: no notification of loop_ is lost, whichever side comes first.  Only a
\* callback that quits its loop meanwhile can prevent it (startLoop, threadFunc).
LoopsAreStarted ==
  (mainPc \in Starting) ~> (mainPc = "serving" \/ \E t \in Threads : quit[t])

\* A quit() that comes once loop() has been entered ends the thread, without the help of
\* the poll timeout.
LateQuitJoins ==
  \A t \in Threads :
    (mainPc = "wakeup" /\ cur = t /\ quit[t] /\ ioPc[t] # "published") ~> (ioPc[t] = "done")

\* ~EventLoopThread ends: its join() returns (comment at EventLoopThread.cc:21).
JoinReturns == (mainPc = "join") ~> (mainPc = "test")
==============================================================================
