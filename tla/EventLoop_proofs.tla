--------------------------- MODULE EventLoop_proofs ---------------------------
(***************************************************************************)
(* What TLAPS proves of EventLoop for any number of callers and functors   *)
(* and any capacity of the eventfd counter.                                *)
(***************************************************************************)
EXTENDS EventLoop, QueueLemmas, TLAPS

-----------------------------------------------------------------------------
\* What one thread's position in loop() says of its local variables.
LoopShape ==
  /\ loopPc # "handle" => activeChannels = {}
  /\ loopPc # "run" => functors = << >> /\ running = NoFunctor

UserFunctorsPending ==
  \E i \in 1..Len(pendingFunctors) : pendingFunctors[i] \notin preLoop

\* FunctorsWake, widened to every step on the way to epoll_wait.  Only between
\* the return of poll() and the swap may the eventfd be drained while functors
\* are pending: the swap takes them.
FunctorsStayAwake ==
  (loopPc \notin {"handle", "done"} /\ UserFunctorsPending) => WakeupComing

IInv == TypeOK /\ LoopShape /\ FunctorsStayAwake /\ QuitWakes

-----------------------------------------------------------------------------
\* A write never empties the counter of the eventfd, nor overflows it.
LEMMA AfterWriteType ==
  ASSUME NEW n \in 0..EventfdMax
  PROVE  AfterWrite(n) \in 0..EventfdMax /\ AfterWrite(n) > 0
BY EventLoopAssumption DEF AfterWrite

\* One step of the loop thread or of a caller keeps the types.
LEMMA TypingStep ==
  ASSUME TypeOK, [Next]_vars
  PROVE  TypeOK'
<1> USE DEF TypeOK, loopVars, history, Enqueue
<1>1. ASSUME NEW c \in Callers, NEW f \in Functors, QueueInLoop(c, f)
      PROVE  TypeOK'
  BY <1>1 DEF QueueInLoop
<1>2. ASSUME NEW c \in Callers, Quit(c)
      PROVE  TypeOK'
  BY <1>2 DEF Quit
<1>3. ASSUME NEW c \in Callers, CallWakeup(c)
      PROVE  TypeOK'
  BY <1>3 DEF CallWakeup
<1>4. ASSUME NEW c \in Callers, Wakeup(c)
      PROVE  TypeOK'
  BY <1>4, AfterWriteType DEF Wakeup
<1>5. ASSUME NEW f \in Functors, LoopQueueInLoop(f)
      PROVE  TypeOK'
  BY <1>5, AfterWriteType DEF LoopQueueInLoop
<1>6. ASSUME NEW f \in Functors, LoopRunInLoop(f)
      PROVE  TypeOK'
  BY <1>6 DEF LoopRunInLoop
<1>7. CASE LoopQuit
  BY <1>7 DEF LoopQuit
<1>8. CASE Start
  BY <1>8 DEF Start
<1>9. CASE CheckQuit
  BY <1>9 DEF CheckQuit
<1>10. ASSUME NEW ready \in SUBSET Channels, PollReturns(ready)
       PROVE  TypeOK'
  BY <1>10 DEF PollReturns
<1>11. CASE HandleRead
  BY <1>11, EventLoopAssumption DEF HandleRead
<1>12. CASE EndIo
  BY <1>12 DEF EndIo
<1>13. CASE SwapFunctors
  BY <1>13 DEF SwapFunctors
<1>14. CASE RunFunctor
  BY <1>14, HeadTailProperties DEF RunFunctor
<1>15. CASE EndFunctor
  BY <1>15 DEF EndFunctor
<1>16. CASE EndPendingFunctors
  BY <1>16 DEF EndPendingFunctors
<1>17. CASE UNCHANGED vars
  BY <1>17 DEF vars
<1> QED
  BY <1>1, <1>2, <1>3, <1>4, <1>5, <1>6, <1>7, <1>8, <1>9, <1>10, <1>11, <1>12,
     <1>13, <1>14, <1>15, <1>16, <1>17
     DEF Next, CallerNext, UserNext, LoopStep, PollWakeup, PollIo, PollTimeout, Channels

\* Every variable of the loop keeps to its type, and callingPendingFunctors_ is set while
\* a batch is being run and at no other time (all of EventLoop.cc).
THEOREM Typing == Spec => []TypeOK
<1>1. Init => TypeOK
  <2>1. 0 \in 0..EventfdMax
    BY EventLoopAssumption
  <2>2. << >> \in Seq(Functors)
    OBVIOUS
  <2> QED
    BY <2>1, <2>2 DEF Init, TypeOK
<1>2. TypeOK /\ [Next]_vars => TypeOK'
  BY TypingStep
<1> QED
  BY <1>1, <1>2, PTL DEF Spec

-----------------------------------------------------------------------------
\* One step keeps the inductive invariant.
LEMMA IInvStep ==
  ASSUME IInv, [Next]_vars
  PROVE  IInv'
<1>1. TypeOK'
  BY TypingStep DEF IInv
<1> USE DEF IInv, LoopShape, FunctorsStayAwake, QuitWakes, UserFunctorsPending,
            WakeupComing, loopVars, history, Enqueue
<1>2. ASSUME NEW c \in Callers, NEW f \in Functors, QueueInLoop(c, f)
      PROVE  IInv'
  BY <1>1, <1>2 DEF QueueInLoop, TypeOK
<1>3. ASSUME NEW c \in Callers, Quit(c)
      PROVE  IInv'
  BY <1>1, <1>3 DEF Quit, TypeOK
<1>4. ASSUME NEW c \in Callers, CallWakeup(c)
      PROVE  IInv'
  BY <1>1, <1>4 DEF CallWakeup, TypeOK
<1>5. ASSUME NEW c \in Callers, Wakeup(c)
      PROVE  IInv'
  <2>1. wakeupFd' > 0
    BY <1>5, AfterWriteType DEF Wakeup, TypeOK
  <2> QED
    BY <1>1, <1>5, <2>1 DEF Wakeup
<1>6. ASSUME NEW f \in Functors, LoopQueueInLoop(f)
      PROVE  IInv'
  <2>1. LoopShape' /\ QuitWakes'
    BY <1>6 DEF LoopQueueInLoop, InUserCode
  <2>2. CASE loopPc = "init"
    <3>1. UserFunctorsPending' => UserFunctorsPending
      BY <1>6, <2>2, AppendProperties DEF LoopQueueInLoop, TypeOK
    <3> QED
      <4>1. wakeupFd' = wakeupFd
        BY <1>6, <2>2 DEF LoopQueueInLoop, TypeOK
      <4> QED
        BY <1>1, <1>6, <2>1, <2>2, <3>1, <4>1 DEF LoopQueueInLoop
  <2>3. CASE loopPc = "handle"
    BY <1>1, <1>6, <2>1, <2>3 DEF LoopQueueInLoop
  <2>4. CASE loopPc = "run"
    <3>1. wakeupFd' > 0
      BY <1>6, <2>4, AfterWriteType DEF LoopQueueInLoop, TypeOK
    <3> QED
      BY <1>1, <2>1, <3>1
  <2> QED
    BY <1>6, <2>2, <2>3, <2>4 DEF LoopQueueInLoop, InUserCode
<1>7. ASSUME NEW f \in Functors, LoopRunInLoop(f)
      PROVE  IInv'
  BY <1>1, <1>7 DEF LoopRunInLoop
<1>8. CASE LoopQuit
  BY <1>1, <1>8 DEF LoopQuit, InUserCode
<1>9. CASE Start
  BY <1>1, <1>9 DEF Start
<1>10. CASE CheckQuit
  BY <1>1, <1>10 DEF CheckQuit, TypeOK
<1>11. ASSUME NEW ready \in SUBSET Channels, PollReturns(ready)
       PROVE  IInv'
  BY <1>1, <1>11 DEF PollReturns
<1>12. CASE HandleRead
  BY <1>1, <1>12 DEF HandleRead
<1>13. CASE EndIo
  BY <1>1, <1>13 DEF EndIo
<1>14. CASE SwapFunctors
  <2>1. ~UserFunctorsPending'
    BY <1>14 DEF SwapFunctors
  <2> QED
    BY <1>1, <1>14, <2>1 DEF SwapFunctors
<1>15. CASE RunFunctor
  BY <1>1, <1>15 DEF RunFunctor
<1>16. CASE EndFunctor
  BY <1>1, <1>16 DEF EndFunctor
<1>17. CASE EndPendingFunctors
  BY <1>1, <1>17 DEF EndPendingFunctors
<1>18. CASE UNCHANGED vars
  BY <1>1, <1>18 DEF vars
<1> QED
  BY <1>2, <1>3, <1>4, <1>5, <1>6, <1>7, <1>8, <1>9, <1>10, <1>11, <1>12, <1>13,
     <1>14, <1>15, <1>16, <1>17, <1>18
     DEF Next, CallerNext, UserNext, LoopStep, PollWakeup, PollIo, PollTimeout, Channels

\* The inductive invariant holds of every behaviour.
THEOREM Invariance == Spec => []IInv
<1>1. Init => IInv
  <2>1. Init => TypeOK
    <3>1. 0 \in 0..EventfdMax /\ << >> \in Seq(Functors)
      BY EventLoopAssumption
    <3> QED
      BY <3>1 DEF Init, TypeOK
  <2>2. Init => LoopShape /\ FunctorsStayAwake /\ QuitWakes
    BY DEF Init, LoopShape, FunctorsStayAwake, QuitWakes, UserFunctorsPending
  <2> QED
    BY <2>1, <2>2 DEF IInv
<1>2. IInv /\ [Next]_vars => IInv'
  BY IInvStep
<1> QED
  BY <1>1, <1>2, PTL DEF Spec

\* No lost wakeup, for any number of threads calling queueInLoop: the loop never
\* goes to sleep on a functor queued after it entered loop().
THEOREM NoLostWakeup == Spec => []FunctorsWake
<1>1. IInv => FunctorsWake
  BY DEF IInv, FunctorsStayAwake, FunctorsWake, UserFunctorsPending
<1> QED
  BY <1>1, Invariance, PTL

\* The loop never goes to sleep with quit_ set and no wakeup() on its way.
THEOREM NoSleepAfterQuit == Spec => []QuitWakes
<1>1. IInv => QuitWakes
  BY DEF IInv
<1> QED
  BY <1>1, Invariance, PTL

-----------------------------------------------------------------------------
\* One step keeps the three parts of the queue in the order of their posting.
LEMMA QueueOrderStep ==
  ASSUME IInv, QueueOrder, [Next]_vars
  PROVE  QueueOrder'
<1> USE DEF IInv, QueueOrder, TypeOK, loopVars, history
<1>1. /\ executed \in Seq(Functors) /\ functors \in Seq(Functors)
      /\ pendingFunctors \in Seq(Functors)
  OBVIOUS
<1>2. executed \o functors \in Seq(Functors)
  BY <1>1, ConcatProperties
<1>3. ASSUME NEW f \in Functors, Enqueue(f), UNCHANGED <<executed, functors>>
      PROVE  QueueOrder'
  <2>1. (executed \o functors) \o Append(pendingFunctors, f)
          = Append((executed \o functors) \o pendingFunctors, f)
    BY <1>1, <1>2, AppendToLastPart
  <2> QED
    BY <1>3, <2>1 DEF Enqueue
<1>4. CASE SwapFunctors
  <2>1. functors = << >> /\ functors' = pendingFunctors /\ pendingFunctors' = << >>
        /\ executed' = executed /\ queued' = queued
    BY <1>4 DEF SwapFunctors, LoopShape
  <2>2. (executed \o << >>) \o pendingFunctors = (executed \o pendingFunctors) \o << >>
    <3>1. executed \o pendingFunctors \in Seq(Functors)
      BY <1>1, ConcatProperties
    <3> QED
      BY <1>1, <3>1, ConcatEmptySeq
  <2> QED
    BY <2>1, <2>2
<1>5. CASE RunFunctor
  BY <1>1, <1>5, MoveHead DEF RunFunctor
<1>6. CASE UNCHANGED <<executed, functors, pendingFunctors, queued>>
  BY <1>6
<1> QED
  BY <1>3, <1>4, <1>5, <1>6
     DEF Next, CallerNext, UserNext, LoopStep, PollWakeup, PollIo, PollTimeout, vars,
         QueueInLoop, Quit, CallWakeup, Wakeup, LoopQueueInLoop, LoopRunInLoop, LoopQuit,
         Start, CheckQuit, PollReturns, HandleRead, EndIo, EndFunctor, EndPendingFunctors

\* Functors are started in the order of their queueing, none lost and none twice,
\* whoever queues them and however often the two vectors are swapped.
THEOREM QueueIsFifo == Spec => []QueueOrder
<1>1. Init => QueueOrder
  BY DEF Init, QueueOrder
<1>2. IInv /\ QueueOrder /\ [Next]_vars => QueueOrder'
  BY QueueOrderStep
<1> QED
  BY <1>1, <1>2, Invariance, PTL DEF Spec

-----------------------------------------------------------------------------
\* Every step of the loop and of its callers is a step of the abstract queue.
LEMMA StepSimulation ==
  ASSUME IInv, [Next]_vars
  PROVE  [Abstract!Next]_(Abstract!tqvars)
<1> USE DEF IInv, TypeOK, loopVars, history, Abstract!tqvars
<1>1. /\ functors \in Seq(Functors) /\ pendingFunctors \in Seq(Functors)
  OBVIOUS
<1>2. ASSUME NEW f \in Functors, Enqueue(f), UNCHANGED <<executed, functors, loopPc>>
      PROVE  Abstract!Post(f)
  BY <1>1, <1>2, AppendToLastPart DEF Enqueue, Abstract!Post
<1>3. ASSUME NEW f \in Functors, LoopRunInLoop(f)
      PROVE  Abstract!RunNow(f)
  BY <1>3 DEF LoopRunInLoop, Abstract!RunNow
<1>4. CASE CheckQuit
  BY <1>4 DEF CheckQuit, Abstract!Next, Abstract!Close
<1>5. CASE SwapFunctors
  <2>1. functors = << >>
    BY <1>5 DEF SwapFunctors, LoopShape
  <2>2. pendingFunctors \o << >> = << >> \o pendingFunctors
    BY <1>1, ConcatEmptySeq
  <2> QED
    BY <1>5, <2>1, <2>2 DEF SwapFunctors
<1>6. CASE RunFunctor
  BY <1>1, <1>6, HeadOfSplitQueue DEF RunFunctor, Abstract!Next, Abstract!StartOldest
<1>7. CASE UNCHANGED <<fresh, functors, pendingFunctors, executed>>
           /\ (loopPc = "done" <=> loopPc' = "done")
  BY <1>7
<1> QED
  BY <1>2, <1>3, <1>4, <1>5, <1>6, <1>7
     DEF Next, CallerNext, UserNext, LoopStep, PollWakeup, PollIo, PollTimeout, vars,
         QueueInLoop, Quit, CallWakeup, Wakeup, LoopQueueInLoop, LoopQuit,
         Start, PollReturns, HandleRead, EndIo, EndFunctor, EndPendingFunctors,
         Abstract!Next

\* EventLoop implements the task queue its callers may think of.
THEOREM Refinement == Spec => ImplementsTaskQueue
<1>1. Init => Abstract!Init
  BY DEF Init, Abstract!Init
<1>2. IInv /\ [Next]_vars => [Abstract!Next]_(Abstract!tqvars)
  BY StepSimulation
<1> QED
  BY <1>1, <1>2, Invariance, PTL DEF Spec, ImplementsTaskQueue, Abstract!Spec
==============================================================================
