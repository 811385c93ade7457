---------------------- MODULE EventLoopThreadPool_proofs ----------------------
(***************************************************************************)
(* Proofs about EventLoopThreadPool, for any number of threads and calls:  *)
(* the types, the loops that getNextLoop() hands out, the wait of the      *)
(* destructor, the round robin.                                            *)
(*                                                                         *)
(* The inductive invariant says that loop_ tells whether a thread is       *)
(* between publication and exit (PtrInStep), how far each thread must be   *)
(* at each stage of the main thread (Stage), that loops_ is the threads    *)
(* created so far (LoopsInStep), and how next_ divides the loops into      *)
(* those that are one connection ahead and the others (Balance).           *)
(***************************************************************************)
EXTENDS EventLoopThreadPool, TLAPS

\* loop() has been left; the address has been taken back; it has been published once.
Over  == {"cleared", "leaving", "done"}
Left  == {"exited"} \cup Over
Known == {"published"} \cup InLoop \cup Left

PtrInStep ==
  \A t \in Threads :
    /\ loopPtr[t] <=> ioPc[t] \in {"published", "exited"} \cup InLoop
    /\ ioPc[t] \in Left => quit[t]

Stage ==
  /\ mainPc \in Starting => \A t \in Threads :
       /\ t < cur => ioPc[t] \in Known
       /\ t = cur => (ioPc[t] = "none" <=> mainPc = "start")
       /\ t > cur => ioPc[t] = "none"
  /\ mainPc \notin Starting => \A t \in Threads : ioPc[t] \in Known
  /\ mainPc \in Starting \ {"start"} => cur \in Threads
  /\ mainPc \in Destroying \ {"test"} => cur \in Threads
  /\ \A t \in Threads : Destroyed(t) => ioPc[t] \in Over

LoopsInStep ==
  /\ mainPc \in Starting => Len(loops) = cur - 1 /\ calls = 0
  /\ mainPc \notin Starting => Len(loops) = NumThreads
  /\ \A i \in 1..Len(loops) : loops[i] = i

Balance ==
  /\ calls = 0 => next = 0 /\ assigned = [l \in {Base} \cup Threads |-> 0]
  /\ NumThreads > 0 => next < NumThreads /\ assigned[Base] = 0
  /\ \A s, t \in Threads :
       /\ s <= next /\ next < t => assigned[s] = assigned[t] + 1
       /\ (s <= next <=> t <= next) => assigned[s] = assigned[t]

IInv == TypeOK /\ PtrInStep /\ Stage /\ LoopsInStep /\ Balance

-----------------------------------------------------------------------------
\* The initial state satisfies the inductive invariant.
LEMMA InitIInv == Init => IInv
  BY PoolAssumption DEF Init, IInv, TypeOK, PtrInStep, Stage, LoopsInStep, Balance,
     Threads, Base, Starting, Destroying, InLoop, Left, Over, Known, Destroyed

\* The steps of the main thread that create the pool preserve it.
LEMMA StartingIInv ==
  ASSUME IInv, StartThread \/ SemWait \/ WaitForLoop \/ SpuriousWakeup \/ StartReturns
  PROVE  IInv'
<1> USE PoolAssumption
    DEF IInv, Threads, Base, Starting, Destroying, InLoop, Left, Over, Known, Destroyed,
        dispatch
<1>1. CASE StartThread
  BY <1>1 DEF StartThread, TypeOK, PtrInStep, Stage, LoopsInStep, Balance
<1>2. CASE SemWait
  BY <1>2 DEF SemWait, TypeOK, PtrInStep, Stage, LoopsInStep, Balance
<1>3. CASE WaitForLoop
  <2>1. CASE loopPtr[cur]
    <3>1. /\ cur \in 1..NumThreads /\ Len(loops) = cur - 1 /\ loops \in Seq(1..NumThreads)
          /\ mainPc = "wait" /\ mainPc' = "start" /\ cur' = cur + 1
          /\ loops' = Append(loops, cur)
      BY <1>3, <2>1 DEF WaitForLoop, StartLoopReturns, TypeOK, Stage, LoopsInStep
    <3>2. /\ Len(loops') = cur /\ loops' \in Seq(1..NumThreads)
          /\ \A i \in 1..cur : loops'[i] = i
      BY <3>1 DEF LoopsInStep
    <3>3. (TypeOK /\ LoopsInStep /\ Balance)'
      BY <1>3, <3>1, <3>2 DEF WaitForLoop, TypeOK, LoopsInStep, Balance
    <3>4. /\ UNCHANGED <<ioPc, loopPtr, quit>>
          /\ ioPc[cur] \in Known
      BY <1>3, <2>1, <3>1 DEF WaitForLoop, PtrInStep
    <3>5. PtrInStep'
      BY <3>4 DEF PtrInStep
    <3>6. \A t \in Threads :
            (t <= cur => ioPc[t] \in Known) /\ (t > cur => ioPc[t] = "none")
      BY <3>1, <3>4 DEF Stage
    <3>7. Stage'
      BY <3>1, <3>4, <3>6 DEF Stage, Destroyed
    <3> QED BY <3>3, <3>5, <3>7
  <2>2. CASE ~loopPtr[cur]
    BY <1>3, <2>2
    DEF WaitForLoop, TypeOK, PtrInStep, Stage, LoopsInStep, Balance
  <2> QED BY <2>1, <2>2
<1>4. CASE SpuriousWakeup
  BY <1>4
  DEF SpuriousWakeup, TypeOK, PtrInStep, Stage, LoopsInStep, Balance
<1>5. CASE StartReturns
  BY <1>5
  DEF StartReturns, TypeOK, PtrInStep, Stage, LoopsInStep, Balance
<1> QED BY <1>1, <1>2, <1>3, <1>4, <1>5

\* getNextLoop() preserves it: the loop it takes is the first of those that are behind.
LEMMA ServingIInv ==
  ASSUME IInv, GetNextLoop \/ BeginDestroy
  PROVE  IInv'
<1> USE PoolAssumption
    DEF IInv, Threads, Base, Starting, Destroying, InLoop, Left, Over, Known, Destroyed,
        dispatch
<1>1. CASE GetNextLoop
  <2>1. CASE loops # << >>
    <3>1. /\ NumThreads \in Nat \ {0} /\ next \in 0..(NumThreads - 1)
          /\ Len(loops) = NumThreads /\ loops[next + 1] = next + 1
      BY <1>1, <2>1 DEF GetNextLoop, TypeOK, LoopsInStep, Balance
    <3>2. /\ assigned' = [assigned EXCEPT ![next + 1] = @ + 1]
          /\ next' = IF next + 1 >= NumThreads THEN 0 ELSE next + 1
          /\ calls' = calls + 1
      BY <1>1, <2>1, <3>1 DEF GetNextLoop, NextIndex
    <3>3. TypeOK'
      BY <1>1, <3>1, <3>2 DEF GetNextLoop, TypeOK
    <3>4. Balance'
      BY <3>1, <3>2 DEF TypeOK, Balance
    <3>5. (PtrInStep /\ Stage /\ LoopsInStep)'
      BY <1>1, <3>1 DEF GetNextLoop, PtrInStep, Stage, LoopsInStep
    <3> QED BY <3>3, <3>4, <3>5
  <2>2. CASE loops = << >>
    <3>1. NumThreads = 0
      BY <1>1, <2>2 DEF GetNextLoop, LoopsInStep
    <3>2. QED
      BY <1>1, <2>2, <3>1
      DEF GetNextLoop, TypeOK, PtrInStep, Stage, LoopsInStep, Balance
  <2> QED BY <2>1, <2>2
<1>2. CASE BeginDestroy
  BY <1>2
  DEF BeginDestroy, TypeOK, PtrInStep, Stage, LoopsInStep, Balance
<1> QED BY <1>1, <1>2

\* The steps of the destructor preserve it: if loop_ is not set when it is
\* tested, the thread has taken it back, and otherwise the thread is joined.
LEMMA DestroyingIInv ==
  ASSUME IInv, TestLoop \/ LoadLoop \/ SetQuit \/ Wakeup \/ Join \/ DestroyReturns
  PROVE  IInv'
<1> USE PoolAssumption
    DEF IInv, Threads, Base, Starting, Destroying, InLoop, Left, Over, Known, Destroyed,
        dispatch
<1>1. CASE TestLoop
  BY <1>1 DEF TestLoop, TypeOK, PtrInStep, Stage, LoopsInStep, Balance
<1>2. CASE LoadLoop
  BY <1>2 DEF LoadLoop, TypeOK, PtrInStep, Stage, LoopsInStep, Balance
<1>3. CASE SetQuit
  BY <1>3 DEF SetQuit, TypeOK, PtrInStep, Stage, LoopsInStep, Balance
<1>4. CASE Wakeup
  BY <1>4 DEF Wakeup, TypeOK, PtrInStep, Stage, LoopsInStep, Balance
<1>5. CASE Join
  BY <1>5 DEF Join, TypeOK, PtrInStep, Stage, LoopsInStep, Balance
<1>6. CASE DestroyReturns
  BY <1>6 DEF DestroyReturns, TypeOK, PtrInStep, Stage, LoopsInStep, Balance
<1> QED BY <1>1, <1>2, <1>3, <1>4, <1>5, <1>6

\* The steps of an I/O thread preserve it: loop() is left only on a quit.
LEMMA IoIInv ==
  ASSUME IInv, NEW t \in Threads,
         IoStep(t) \/ PollOther(t) \/ SelfQuit(t)
  PROVE  IInv'
<1> USE PoolAssumption DEF IInv, Moves, dispatch
<1>1. /\ UNCHANGED <<cur, loops, next, assigned, calls>>
      /\ mainPc' = mainPc \/ (mainPc = "blocked" /\ mainPc' = "wait")
  BY DEF IoStep, RunThread, ConstructLoop, PublishLoop, EnterLoop, CheckQuit, PollWakeup,
     EndHandling, ClearLoop, Unlock, DestroyLoop, PollOther, SelfQuit
<1>2. (LoopsInStep /\ Balance)'
  BY <1>1 DEF LoopsInStep, Balance, Starting
<1>3. TypeOK'
  BY <1>1
  DEF TypeOK, InLoop, Starting, IoStep, RunThread, ConstructLoop, PublishLoop,
      EnterLoop, CheckQuit, PollWakeup, EndHandling, ClearLoop, Unlock, DestroyLoop,
      PollOther, SelfQuit
<1>4. (PtrInStep /\ Stage)'
  <2> USE <1>1
      DEF TypeOK, PtrInStep, Stage, InLoop, Left, Over, Known, Destroyed, Threads,
          Starting, Destroying
  <2>1. CASE RunThread(t)
    BY <2>1 DEF RunThread
  <2>2. CASE ConstructLoop(t)
    BY <2>2 DEF ConstructLoop
  <2>3. CASE PublishLoop(t)
    BY <2>3 DEF PublishLoop
  <2>4. CASE EnterLoop(t)
    BY <2>4 DEF EnterLoop
  <2>5. CASE CheckQuit(t)
    BY <2>5 DEF CheckQuit
  <2>6. CASE PollWakeup(t)
    BY <2>6 DEF PollWakeup
  <2>7. CASE EndHandling(t)
    BY <2>7 DEF EndHandling
  <2>8. CASE ClearLoop(t)
    BY <2>8 DEF ClearLoop
  <2>9. CASE Unlock(t)
    BY <2>9 DEF Unlock
  <2>10. CASE DestroyLoop(t)
    BY <2>10 DEF DestroyLoop
  <2>11. CASE PollOther(t)
    BY <2>11 DEF PollOther
  <2>12. CASE SelfQuit(t)
    BY <2>12 DEF SelfQuit
  <2> QED
    BY <2>1, <2>2, <2>3, <2>4, <2>5, <2>6, <2>7, <2>8, <2>9, <2>10, <2>11, <2>12
    DEF IoStep
<1> QED BY <1>2, <1>3, <1>4

\* The inductive invariant holds always.
THEOREM Invariance == Spec => []IInv
<1>1. IInv /\ [Next]_vars => IInv'
  <2> SUFFICES ASSUME IInv, [Next]_vars PROVE IInv'
    OBVIOUS
  <2>1. CASE UNCHANGED vars
    BY <2>1
    DEF vars, dispatch, IInv, TypeOK, PtrInStep, Stage, LoopsInStep, Balance,
        Destroyed
  <2>2. CASE Next
    BY <2>2, StartingIInv, ServingIInv, DestroyingIInv, IoIInv DEF Next, MainStep
  <2> QED BY <2>1, <2>2
<1> QED BY <1>1, InitIInv, PTL DEF Spec

\* Every variable of the pool keeps to its type.
THEOREM Typing == Spec => []TypeOK
<1>1. IInv => TypeOK
  BY DEF IInv
<1> QED BY <1>1, Invariance, PTL

\* getNextLoop() never hands out a loop that was not built yet, or that is gone without
\* having been quit (startLoop, threadFunc).
THEOREM LoopsAreThere == Spec => []LoopsExist
<1>1. IInv => LoopsExist
  BY PoolAssumption
  DEF IInv, TypeOK, PtrInStep, Stage, LoopsInStep, LoopsExist, Exists, Threads, InLoop,
      Left, Over, Known, Starting
<1> QED BY <1>1, Invariance, PTL

\* The destructor of the pool leaves no loop running behind it (~EventLoopThread).
THEOREM LoopsAreLeft == Spec => []NoLoopLeft
<1>1. IInv => NoLoopLeft
  BY DEF IInv, Stage, NoLoopLeft, Over
<1> QED BY <1>1, Invariance, PTL

\* Round robin: whatever the number of loops and of connections, the loads differ by one
\* at most (getNextLoop).
THEOREM LoadsAreEven == Spec => []SpreadEvenly
<1>1. IInv => SpreadEvenly
  <2> SUFFICES ASSUME IInv PROVE SpreadEvenly
    OBVIOUS
  <2>1. ASSUME NEW s \in Threads, NEW t \in Threads PROVE assigned[s] <= assigned[t] + 1
    <3>1. s \in Nat /\ t \in Nat /\ next \in Nat /\ assigned[s] \in Nat /\ assigned[t] \in Nat
      BY PoolAssumption DEF IInv, TypeOK, Threads, Base
    <3>2. /\ s <= next /\ next < t => assigned[s] = assigned[t] + 1
          /\ t <= next /\ next < s => assigned[t] = assigned[s] + 1
          /\ (s <= next <=> t <= next) => assigned[s] = assigned[t]
      BY DEF IInv, Balance
    <3> QED BY <3>1, <3>2
  <2> QED BY <2>1 DEF IInv, Balance, SpreadEvenly
<1> QED BY <1>1, Invariance, PTL
-----------------------------------------------------------------------------
\* What LoopsAreStarted and LateQuitJoins rest on, without fairness.

\* The main thread sleeps in startLoop() only while the thread it waits for has not come to
\* its notify_one(), unless a callback has quit that loop already and its address has been
\* taken back (startLoop, threadFunc).
SleepsOnlyUnpublished ==
  mainPc = "blocked" => ioPc[cur] \in {"running", "init"} \cup Over

\* A loop that was quit does not sleep in epoll_wait: its eventfd is readable, or quit() is
\* about to write it (quit, wakeup).
QuitInterrupts ==
  \A t \in Threads :
    (quit[t] /\ ioPc[t] = "poll") => (wakeupFd[t] \/ (mainPc = "wakeup" /\ cur = t))

\* The thread that startLoop() waits for is past its semaphore.
Awaited == mainPc \in {"wait", "blocked"} => ioPc[cur] # "spawned"

Sleep == IInv /\ Awaited /\ SleepsOnlyUnpublished /\ QuitInterrupts

LEMMA InitSleep == Init => Sleep
<1>1. Init => Awaited /\ SleepsOnlyUnpublished /\ QuitInterrupts
  BY DEF Init, Awaited, SleepsOnlyUnpublished, QuitInterrupts
<1> QED BY <1>1, InitIInv DEF Sleep

\* The main thread goes to sleep after a look at loop_ under the mutex, and joins after it
\* has written the eventfd.
LEMMA MainSleep ==
  ASSUME Sleep, IInv', MainStep \/ SpuriousWakeup \/ GetNextLoop \/ BeginDestroy
  PROVE  Sleep'
<1> USE DEF Sleep, Awaited, SleepsOnlyUnpublished, QuitInterrupts, dispatch
<1>1. CASE StartThread
  BY <1>1 DEF StartThread, IInv, TypeOK
<1>2. CASE SemWait
  BY <1>2 DEF SemWait
<1>3. CASE WaitForLoop
  <2>1. CASE loopPtr[cur]
    BY <1>3, <2>1 DEF WaitForLoop, StartLoopReturns
  <2>2. CASE ~loopPtr[cur]
    <3>1. /\ mainPc = "wait" /\ mainPc' = "blocked"
          /\ UNCHANGED <<cur, ioPc, quit, wakeupFd, loopPtr>>
      BY <1>3, <2>2 DEF WaitForLoop
    <3>2. cur \in Threads /\ ioPc[cur] # "none" /\ ioPc[cur] # "spawned"
      BY <3>1 DEF IInv, Stage, Starting
    <3>3. ioPc[cur] \in {"running", "init"} \/ ioPc[cur] \in Over
      BY <2>2, <3>2 DEF IInv, TypeOK, PtrInStep, Over, InLoop
    <3> QED BY <3>1, <3>2, <3>3
  <2> QED BY <2>1, <2>2
<1>4. CASE StartReturns \/ SpuriousWakeup \/ GetNextLoop \/ BeginDestroy
  BY <1>4 DEF StartReturns, SpuriousWakeup, GetNextLoop, BeginDestroy
<1>5. CASE TestLoop \/ LoadLoop \/ DestroyReturns
  BY <1>5 DEF TestLoop, LoadLoop, DestroyReturns
<1>6. CASE SetQuit
  BY <1>6 DEF SetQuit, IInv, TypeOK
<1>7. CASE Wakeup
  BY <1>7 DEF Wakeup, IInv, TypeOK, Stage, Destroying, Exists, InLoop
<1>8. CASE Join
  BY <1>8 DEF Join
<1> QED BY <1>1, <1>2, <1>3, <1>4, <1>5, <1>6, <1>7, <1>8 DEF MainStep

\* An I/O thread goes to sleep after a look at quit_, wakes whoever waits for its loop, and
\* drains the eventfd only on its way to quit_.
LEMMA IoSleep ==
  ASSUME Sleep, IInv', NEW t \in Threads, IoStep(t) \/ PollOther(t) \/ SelfQuit(t)
  PROVE  Sleep'
<1> USE DEF Sleep, Awaited, SleepsOnlyUnpublished, QuitInterrupts, Moves, IInv, TypeOK,
            Stage, Starting, Destroying, Over
<1>1. CASE RunThread(t)
  BY <1>1 DEF RunThread
<1>2. CASE ConstructLoop(t)
  BY <1>2 DEF ConstructLoop
<1>3. CASE PublishLoop(t)
  BY <1>3 DEF PublishLoop
<1>4. CASE EnterLoop(t)
  BY <1>4 DEF EnterLoop
<1>5. CASE CheckQuit(t)
  BY <1>5 DEF CheckQuit
<1>6. CASE PollWakeup(t)
  BY <1>6 DEF PollWakeup
<1>7. CASE EndHandling(t)
  BY <1>7 DEF EndHandling
<1>8. CASE ClearLoop(t)
  BY <1>8 DEF ClearLoop
<1>9. CASE PollOther(t)
  BY <1>9 DEF PollOther
<1>10. CASE SelfQuit(t)
  BY <1>10 DEF SelfQuit
<1>11. CASE Unlock(t)
  BY <1>11 DEF Unlock
<1>12. CASE DestroyLoop(t)
  BY <1>12 DEF DestroyLoop
<1> QED
  BY <1>1, <1>2, <1>3, <1>4, <1>5, <1>6, <1>7, <1>8, <1>9, <1>10, <1>11, <1>12
  DEF IoStep

LEMMA SleepHolds == Spec => []Sleep
<1>1. Sleep /\ IInv' /\ [Next]_vars => Sleep'
  <2> SUFFICES ASSUME Sleep, IInv', [Next]_vars PROVE Sleep'
    OBVIOUS
  <2>1. CASE UNCHANGED vars
    BY <2>1 DEF vars, Sleep, Awaited, SleepsOnlyUnpublished, QuitInterrupts
  <2>2. CASE Next
    BY <2>2, MainSleep, IoSleep DEF Next
  <2> QED BY <2>1, <2>2
<1> QED BY <1>1, InitSleep, Invariance, PTL DEF Spec

\* No notification of loop_ is lost: whoever sleeps in startLoop() sleeps ahead of the
\* notify_one() that wakes it (startLoop, threadFunc).
THEOREM NoLostNotification == Spec => []SleepsOnlyUnpublished
<1>1. Sleep => SleepsOnlyUnpublished
  BY DEF Sleep
<1> QED BY <1>1, SleepHolds, PTL

\* No loop sleeps through a quit() that it has not erased, for any number of threads (quit,
\* loop).
THEOREM NoSleepThroughQuit == Spec => []QuitInterrupts
<1>1. Sleep => QuitInterrupts
  BY DEF Sleep
<1> QED BY <1>1, SleepHolds, PTL
==============================================================================
