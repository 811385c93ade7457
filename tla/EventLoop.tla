------------------------------ MODULE EventLoop ------------------------------
(***************************************************************************)
(* One EventLoop: the thread that runs loop(), and the other threads that  *)
(* hand it functors with runInLoop/queueInLoop, wake it up through the     *)
(* eventfd, or ask it to quit.                                             *)
(*                                                                         *)
(* Grain of atomicity.  mutex_ guards exactly one operation on each side   *)
(* (emplace_back, swap), so each critical section is one step.  A caller's *)
(* push and the wakeup() that follows it are two steps, as are quit_ =     *)
(* true and its wakeup().  callingPendingFunctors_ is read and written by  *)
(* the loop thread only (the test in queueInLoop short-circuits for the    *)
(* others), so it moves together with the step beside it.  looping_ is     *)
(* written and never read: it is left out.                                 *)
(***************************************************************************)
EXTENDS Naturals, Sequences

CONSTANTS
  Callers,      \* threads other than the one that owns the loop
  Functors,     \* the callbacks handed to the loop, each at most once
  NoFunctor,    \* "no functor is running"
  EventfdMax    \* largest value an eventfd counter holds (2^64 - 2)

ASSUME EventLoopAssumption ==
  /\ EventfdMax \in Nat \ {0}
  /\ NoFunctor \notin Functors

VARIABLES
  loopPc,                   \* where the loop thread is in EventLoop::loop()
  activeChannels,           \* what poll() returned and handleEvent() has not handled yet
  pendingFunctors,          \* pendingFunctors_, shared under mutex_
  functors,                 \* the vector local to doPendingFunctors()
  running,                  \* the functor doPendingFunctors() is inside of
  callingPendingFunctors,   \* callingPendingFunctors_
  quit,                     \* quit_
  wakeupFd,                 \* the counter of the eventfd
  callerPc,                 \* "wakeup": between a caller's push (or quit_) and its write()
  \* What the properties remember of the past.
  fresh,                    \* functors not handed to the loop yet
  queued,                   \* functors in the order of their emplace_back
  executed,                 \* functors in the order doPendingFunctors() started them
  preLoop                   \* functors the loop thread queued before it called loop()

loopVars == <<loopPc, activeChannels, functors, running, callingPendingFunctors>>
history  == <<fresh, queued, executed, preLoop>>
vars     == <<loopVars, pendingFunctors, quit, wakeupFd, callerPc, history>>

\* The two kinds of channel a loop watches: its own eventfd, and all the others.
Channels == {"wakeup", "io"}

Init ==
  /\ loopPc = "init"
  /\ activeChannels = {}
  /\ pendingFunctors = << >>
  /\ functors = << >>
  /\ running = NoFunctor
  /\ callingPendingFunctors = FALSE
  /\ quit = FALSE
  /\ wakeupFd = 0
  /\ callerPc = [c \in Callers |-> "idle"]
  /\ fresh = Functors
  /\ queued = << >>
  /\ executed = << >>
  /\ preLoop = {}

-----------------------------------------------------------------------------
\* write() to the non-blocking eventfd: EAGAIN, and only a log line, at the limit.
AfterWrite(n) == IF n < EventfdMax THEN n + 1 ELSE n

\* emplace_back under mutex_.
Enqueue(f) ==
  /\ f \in fresh
  /\ fresh' = fresh \ {f}
  /\ pendingFunctors' = Append(pendingFunctors, f)
  /\ queued' = Append(queued, f)

-----------------------------------------------------------------------------
\* The other threads.

\* queueInLoop, and runInLoop which is queueInLoop off the loop thread.
QueueInLoop(c, f) ==
  /\ callerPc[c] = "idle"
  /\ Enqueue(f)
  /\ callerPc' = [callerPc EXCEPT ![c] = "wakeup"]
  /\ UNCHANGED <<loopVars, quit, wakeupFd, executed, preLoop>>

\* Mutant of Quit: no wakeup().
SilentQuit(c) ==
  /\ callerPc[c] = "idle"
  /\ quit' = TRUE
  /\ UNCHANGED <<loopVars, pendingFunctors, wakeupFd, callerPc, history>>

Quit(c) ==
  /\ callerPc[c] = "idle"
  /\ quit' = TRUE
  /\ callerPc' = [callerPc EXCEPT ![c] = "wakeup"]
  /\ UNCHANGED <<loopVars, pendingFunctors, wakeupFd, history>>

\* wakeup() is public: a caller may also enter it on its own.
CallWakeup(c) ==
  /\ callerPc[c] = "idle"
  /\ callerPc' = [callerPc EXCEPT ![c] = "wakeup"]
  /\ UNCHANGED <<loopVars, pendingFunctors, quit, wakeupFd, history>>

Wakeup(c) ==
  /\ callerPc[c] = "wakeup"
  /\ wakeupFd' = AfterWrite(wakeupFd)
  /\ callerPc' = [callerPc EXCEPT ![c] = "idle"]
  /\ UNCHANGED <<loopVars, pendingFunctors, quit, history>>

-----------------------------------------------------------------------------
\* User code on the loop thread: before loop(), in an I/O callback, in a functor.
InUserCode ==
  \/ loopPc = "init"
  \/ loopPc = "handle" /\ "io" \in activeChannels
  \/ loopPc = "run" /\ running # NoFunctor

\* Mutant of LoopQueueInLoop: callingPendingFunctors_ is not consulted.
SilentLoopQueueInLoop(f) ==
  /\ InUserCode
  /\ Enqueue(f)
  /\ preLoop' = IF loopPc = "init" THEN preLoop \cup {f} ELSE preLoop
  /\ UNCHANGED <<loopVars, quit, wakeupFd, callerPc, executed>>

LoopQueueInLoop(f) ==
  /\ InUserCode
  /\ Enqueue(f)
  /\ wakeupFd' = IF callingPendingFunctors THEN AfterWrite(wakeupFd) ELSE wakeupFd
  /\ preLoop' = IF loopPc = "init" THEN preLoop \cup {f} ELSE preLoop
  /\ UNCHANGED <<loopVars, quit, callerPc, executed>>

\* runInLoop on the loop thread calls the functor on the spot.
LoopRunInLoop(f) ==
  /\ InUserCode
  /\ f \in fresh
  /\ fresh' = fresh \ {f}
  /\ UNCHANGED <<loopVars, pendingFunctors, quit, wakeupFd, callerPc, queued, executed, preLoop>>

LoopQuit ==
  /\ InUserCode
  /\ quit' = TRUE
  /\ UNCHANGED <<loopVars, pendingFunctors, wakeupFd, callerPc, history>>

-----------------------------------------------------------------------------
\* EventLoop::loop() and the functions it calls.

Start ==
  /\ loopPc = "init"
  /\ loopPc' = "check"
  /\ quit' = FALSE
  /\ UNCHANGED <<activeChannels, functors, running, callingPendingFunctors,
                 pendingFunctors, wakeupFd, callerPc, history>>

\* while(!quit_)
CheckQuit ==
  /\ loopPc = "check"
  /\ loopPc' = IF quit THEN "done" ELSE "poll"
  /\ UNCHANGED <<activeChannels, functors, running, callingPendingFunctors,
                 pendingFunctors, quit, wakeupFd, callerPc, history>>

\* epoll_wait returns the channels in "ready": all that have an event, or as many
\* as events_ has room for.
PollReturns(ready) ==
  /\ loopPc = "poll"
  /\ loopPc' = "handle"
  /\ activeChannels' = ready
  /\ UNCHANGED <<functors, running, callingPendingFunctors,
                 pendingFunctors, quit, wakeupFd, callerPc, history>>

\* The eventfd is readable, perhaps with other channels.
PollWakeup ==
  /\ wakeupFd > 0
  /\ \E ready \in SUBSET Channels : "wakeup" \in ready /\ PollReturns(ready)

\* Other channels only.
PollIo == PollReturns({"io"})

\* Mutant of PollTimeout: a poll with no event skips doPendingFunctors().
SkippingTimeout ==
  /\ loopPc = "poll"
  /\ loopPc' = "check"
  /\ UNCHANGED <<activeChannels, functors, running, callingPendingFunctors,
                 pendingFunctors, quit, wakeupFd, callerPc, history>>

\* kPollTimeMs passed, or EINTR.
PollTimeout == PollReturns({})

\* EventLoop::handleRead: read() resets the counter of the eventfd.
HandleRead ==
  /\ loopPc = "handle"
  /\ "wakeup" \in activeChannels
  /\ wakeupFd' = 0
  /\ activeChannels' = activeChannels \ {"wakeup"}
  /\ UNCHANGED <<loopPc, functors, running, callingPendingFunctors,
                 pendingFunctors, quit, callerPc, history>>

\* The callbacks of the other channels return.
EndIo ==
  /\ loopPc = "handle"
  /\ "io" \in activeChannels
  /\ activeChannels' = activeChannels \ {"io"}
  /\ UNCHANGED <<loopPc, functors, running, callingPendingFunctors,
                 pendingFunctors, quit, wakeupFd, callerPc, history>>

\* Mutant of SwapFunctors: a copy of the vector where the code swaps it out.
CopyFunctors ==
  /\ loopPc = "handle"
  /\ activeChannels = {}
  /\ loopPc' = "run"
  /\ callingPendingFunctors' = TRUE
  /\ functors' = pendingFunctors
  /\ UNCHANGED <<activeChannels, running, pendingFunctors, quit, wakeupFd, callerPc, history>>

\* doPendingFunctors: the swap under mutex_.
SwapFunctors ==
  /\ loopPc = "handle"
  /\ activeChannels = {}
  /\ loopPc' = "run"
  /\ callingPendingFunctors' = TRUE
  /\ functors' = pendingFunctors
  /\ pendingFunctors' = << >>
  /\ UNCHANGED <<activeChannels, running, quit, wakeupFd, callerPc, history>>

\* doPendingFunctors: the loop over the local vector calls the next functor.
RunFunctor ==
  /\ loopPc = "run"
  /\ running = NoFunctor
  /\ functors # << >>
  /\ running' = Head(functors)
  /\ functors' = Tail(functors)
  /\ executed' = Append(executed, Head(functors))
  /\ UNCHANGED <<loopPc, activeChannels, callingPendingFunctors,
                 pendingFunctors, quit, wakeupFd, callerPc, fresh, queued, preLoop>>

EndFunctor ==
  /\ loopPc = "run"
  /\ running # NoFunctor
  /\ running' = NoFunctor
  /\ UNCHANGED <<loopPc, activeChannels, functors, callingPendingFunctors,
                 pendingFunctors, quit, wakeupFd, callerPc, history>>

\* Mutant of EndPendingFunctors: callingPendingFunctors_ stays set after the batch.
StickyEndPendingFunctors ==
  /\ loopPc = "run"
  /\ running = NoFunctor
  /\ functors = << >>
  /\ loopPc' = "check"
  /\ UNCHANGED <<activeChannels, functors, running, callingPendingFunctors,
                 pendingFunctors, quit, wakeupFd, callerPc, history>>

EndPendingFunctors ==
  /\ loopPc = "run"
  /\ running = NoFunctor
  /\ functors = << >>
  /\ callingPendingFunctors' = FALSE
  /\ loopPc' = "check"
  /\ UNCHANGED <<activeChannels, functors, running,
                 pendingFunctors, quit, wakeupFd, callerPc, history>>

-----------------------------------------------------------------------------
CallerNext(c) ==
  \/ \E f \in Functors : QueueInLoop(c, f)
  \/ Quit(c)
  \/ CallWakeup(c)
  \/ Wakeup(c)

UserNext ==
  \/ \E f \in Functors : LoopQueueInLoop(f) \/ LoopRunInLoop(f)
  \/ LoopQuit

\* What the loop thread does by itself once it is inside loop().
LoopStep ==
  \/ CheckQuit
  \/ PollWakeup
  \/ HandleRead
  \/ EndIo
  \/ SwapFunctors
  \/ RunFunctor
  \/ EndFunctor
  \/ EndPendingFunctors

Next ==
  \/ \E c \in Callers : CallerNext(c)
  \/ UserNext
  \/ Start
  \/ LoopStep
  \/ PollIo
  \/ PollTimeout

Spec == Init /\ [][Next]_vars

\* The loop thread is scheduled, callbacks and functors return, a caller finishes
\* the wakeup() it is in.  Nothing makes an I/O event arrive, and the poll timeout
\* is not relied on.
FairSpec ==
  /\ Spec
  /\ WF_vars(LoopStep)
  /\ \A c \in Callers : WF_vars(Wakeup(c))

-----------------------------------------------------------------------------
\* The types, and callingPendingFunctors_ set exactly while a batch is being run.
TypeOK ==
  /\ loopPc \in {"init", "check", "poll", "handle", "run", "done"}
  /\ activeChannels \in SUBSET Channels
  /\ pendingFunctors \in Seq(Functors)
  /\ functors \in Seq(Functors)
  /\ running \in Functors \cup {NoFunctor}
  /\ callingPendingFunctors \in BOOLEAN
  /\ callingPendingFunctors <=> loopPc = "run"
  /\ quit \in BOOLEAN
  /\ wakeupFd \in 0..EventfdMax
  /\ callerPc \in [Callers -> {"idle", "wakeup"}]
  /\ fresh \in SUBSET Functors
  /\ queued \in Seq(Functors)
  /\ executed \in Seq(Functors)
  /\ preLoop \in SUBSET Functors

\* The loop will not sleep: the eventfd is readable or a caller is about to write.
WakeupComing ==
  \/ wakeupFd > 0
  \/ \E c \in Callers : callerPc[c] = "wakeup"

\* No lost wakeup: the loop never goes to sleep in epoll_wait on a functor that was
\* queued after it entered loop(), whichever thread queued it and whenever the
\* queueing fell between the read of the eventfd, the swap and the next poll
\* (EventLoop::queueInLoop, doPendingFunctors).
FunctorsWake ==
  (loopPc = "poll" /\ \E i \in 1..Len(pendingFunctors) : pendingFunctors[i] \notin preLoop)
    => WakeupComing

\* A quit() that comes while the loop is on its way into, or in, epoll_wait
\* interrupts it: the loop never sleeps with quit_ set (EventLoop::quit).
QuitWakes == (loopPc = "poll" /\ quit) => WakeupComing

\* The functors the loop started, those of the batch it is in and those still
\* pending are, in that order, exactly what was queued: the swap loses none,
\* duplicates none and lets none overtake another (doPendingFunctors).
QueueOrder == queued = executed \o functors \o pendingFunctors

\* Everything a caller queued after loop() began is run, without the help of the
\* poll timeout, unless the loop quits.
PromptlyRun ==
  \A f \in Functors :
    (loopPc # "init" /\ \E i \in 1..Len(pendingFunctors) :
                          pendingFunctors[i] = f /\ f \notin preLoop)
      ~> (\/ loopPc = "done"
          \/ \E i \in 1..Len(executed) : executed[i] = f)

\* quit() stops a loop that is running, from whatever thread it is called.
QuitStops == (quit /\ loopPc # "init") ~> (loopPc = "done")

-----------------------------------------------------------------------------
\* The loop implements the abstract queue: the batch being run and the pending
\* vector are one queue.
Abstract == INSTANCE TaskQueue WITH
              Tasks    <- Functors,
              unposted <- fresh,
              waiting  <- functors \o pendingFunctors,
              started  <- executed,
              closed   <- loopPc = "done"

ImplementsTaskQueue == Abstract!Spec

\* When the owner does call loop() and epoll_wait does time out after kPollTimeMs, the
\* loop implements the live queue too: whatever waits is run, also what was queued before
\* loop() began, until the loop quits.
ImplementsLiveTaskQueue ==
  (WF_vars(Start) /\ WF_vars(PollTimeout)) => Abstract!QueueServed
==============================================================================
