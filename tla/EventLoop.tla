------------------------------ MODULE EventLoop ------------------------------
(***************************************************************************)
(* The reactor of myserver (common/event_loop.cpp): one loop thread that   *)
(* polls, dispatches the active channels and runs the functors other       *)
(* threads hand it, and any number of other threads that call queueInLoop, *)
(* runInLoop (for them the same thing) and quit on it.                     *)
(*                                                                         *)
(* Granularity.  A step of the loop thread is one call it makes in loop(); *)
(* queueInLoop is two steps for another thread, the push under m_mutex and *)
(* the write to the eventfd after the mutex is released, because the loop  *)
(* can do anything in between.  So is another thread's quit(): it sets     *)
(* m_quit and only then reads m_tid.  The loop thread's own queueInLoop    *)
(* and quit() are one step each: what others do between its push and its   *)
(* write (push, add to the eventfd, set m_quit) commutes with the write.   *)
(* runInLoop called by the loop thread calls the functor and touches       *)
(* nothing modelled here.                                                  *)
(*                                                                         *)
(* The kernel's part is external: an eventfd is a counter that is readable *)
(* while positive and refuses (EAGAIN) a write that would pass its         *)
(* maximum, and epoll_wait returns some of the ready channels, or none     *)
(* when it times out or is interrupted (poll() treats the two alike, since *)
(* fillActiveChannels does nothing with the -1 of an error).               *)
(***************************************************************************)
EXTENDS Integers, Sequences

CONSTANTS Threads,      \* the threads other than the loop's own
          LoopThread,   \* m_tid: the thread that runs loop()
          Channels,     \* channels other than the wakeup channel
          Wakeup,       \* m_wakeupChannel
          MaxQueue,     \* bound: calls of queueInLoop by each thread
          EventFdMax    \* largest value of the eventfd's counter (2^64 - 2)

ASSUME ThreadAssumption  == LoopThread \notin Threads
ASSUME ChannelAssumption == Wakeup \notin Channels
ASSUME BoundAssumption   == MaxQueue \in Nat /\ EventFdMax \in Nat \ {0}

AllThreads == Threads \union {LoopThread}

(* A functor is identified by who queued it and its number in that thread. *)
Functor == AllThreads \X (1..MaxQueue)

VARIABLES
  pc,                     \* where the loop thread is in loop()
  inCallback,             \* it is inside a channel's callback or a functor
  m_quit,
  m_callPendingFunctors,
  m_pendingFunctors,      \* guarded by m_mutex
  functors,               \* local of doPendingFunctors: what is left to run
  m_wakeupFd,             \* the eventfd's counter
  m_activeChannels,       \* channels poll() returned, not yet handled
  pushed,                 \* threads between the push and the wakeup()
  quitting,               \* threads in quit() that have set m_quit
  calls,                  \* queueInLoop calls so far, by thread
  queued,                 \* history: every push, in order
  executed                \* history: every functor started, in order

loopVars == <<pc, inCallback, m_callPendingFunctors, functors, m_activeChannels>>
vars == <<pc, inCallback, m_quit, m_callPendingFunctors, m_pendingFunctors,
          functors, m_wakeupFd, m_activeChannels, pushed, quitting, calls, queued, executed>>

PC == {"start", "while", "poll", "events", "swap", "functors", "exited"}

TypeOK ==
  /\ pc \in PC
  /\ inCallback \in BOOLEAN
  /\ m_quit \in BOOLEAN
  /\ m_callPendingFunctors \in BOOLEAN
  /\ m_pendingFunctors \in Seq(Functor)
  /\ functors \in Seq(Functor)
  /\ m_wakeupFd \in 0..EventFdMax
  /\ m_activeChannels \in SUBSET (Channels \union {Wakeup})
  /\ pushed \in SUBSET Threads
  /\ quitting \in SUBSET Threads
  /\ calls \in [AllThreads -> 0..MaxQueue]
  /\ queued \in Seq(Functor)
  /\ executed \in Seq(Functor)

(* The constructor: nothing queued, the eventfd created at 0 and its       *)
(* channel registered for reading.                                         *)
Init ==
  /\ pc = "start"
  /\ inCallback = FALSE
  /\ m_quit = FALSE
  /\ m_callPendingFunctors = FALSE
  /\ m_pendingFunctors = <<>>
  /\ functors = <<>>
  /\ m_wakeupFd = 0
  /\ m_activeChannels = {}
  /\ pushed = {}
  /\ quitting = {}
  /\ calls = [t \in AllThreads |-> 0]
  /\ queued = <<>>
  /\ executed = <<>>

-----------------------------------------------------------------------------
(* The eventfd.                                                            *)

(* Mutant: a counter without the kernel's limit.                           *)
WrittenUnchecked(n) == n + 1

(* wakeup(): add one; at the maximum the write fails and is only logged.   *)
Written(n) == IF n < EventFdMax THEN n + 1 ELSE n

Readable == m_wakeupFd > 0

-----------------------------------------------------------------------------
(* Calls by any thread.                                                    *)

(* The push of queueInLoop, under m_mutex.                                 *)
Push(t) ==
  /\ calls[t] < MaxQueue
  /\ calls' = [calls EXCEPT ![t] = @ + 1]
  /\ LET f == <<t, calls[t] + 1>>
     IN  /\ m_pendingFunctors' = Append(m_pendingFunctors, f)
         /\ queued' = Append(queued, f)

(* queueInLoop by another thread: the push ...                             *)
QueueInLoop(t) ==
  /\ t \notin pushed \union quitting
  /\ Push(t)
  /\ pushed' = pushed \union {t}
  /\ UNCHANGED <<loopVars, m_quit, m_wakeupFd, quitting, executed>>

(* Mutant: another thread wakes the loop only while it runs functors.      *)
WakeupIfRunning(t) ==
  /\ t \in pushed
  /\ m_wakeupFd' = IF m_callPendingFunctors THEN Written(m_wakeupFd) ELSE m_wakeupFd
  /\ pushed' = pushed \ {t}
  /\ UNCHANGED <<loopVars, m_quit, m_pendingFunctors, quitting, calls, queued, executed>>

(* ... and then the wakeup, because it is not in the loop thread.          *)
WakeupLoop(t) ==
  /\ t \in pushed
  /\ m_wakeupFd' = Written(m_wakeupFd)
  /\ pushed' = pushed \ {t}
  /\ UNCHANGED <<loopVars, m_quit, m_pendingFunctors, quitting, calls, queued, executed>>

(* Mutant: the loop thread never wakes itself.                             *)
QueueWithoutWakeup ==
  /\ inCallback
  /\ Push(LoopThread)
  /\ UNCHANGED <<loopVars, m_quit, m_wakeupFd, pushed, quitting, executed>>

(* queueInLoop by the loop thread, from a callback or a functor: it writes *)
(* the eventfd only while it is running functors.                          *)
QueueInCallback ==
  /\ inCallback
  /\ Push(LoopThread)
  /\ m_wakeupFd' = IF m_callPendingFunctors THEN Written(m_wakeupFd) ELSE m_wakeupFd
  /\ UNCHANGED <<loopVars, m_quit, pushed, quitting, executed>>

(* quit() by the loop thread, which then writes the eventfd.               *)
QuitInCallback ==
  /\ inCallback
  /\ m_quit' = TRUE
  /\ m_wakeupFd' = Written(m_wakeupFd)
  /\ UNCHANGED <<loopVars, m_pendingFunctors, pushed, quitting, calls, queued, executed>>

(* quit() by another thread sets m_quit ...                                *)
Quit(t) ==
  /\ t \notin pushed \union quitting
  /\ m_quit' = TRUE
  /\ quitting' = quitting \union {t}
  /\ UNCHANGED <<loopVars, m_pendingFunctors, m_wakeupFd, pushed, calls, queued, executed>>

(* ... and only then looks at m_tid, in isInLoopThread(): it is not the    *)
(* loop's thread, and returns without a wakeup().                          *)
QuitReturns(t) ==
  /\ t \in quitting
  /\ quitting' = quitting \ {t}
  /\ UNCHANGED <<loopVars, m_quit, m_pendingFunctors, m_wakeupFd, pushed, calls, queued,
                 executed>>

-----------------------------------------------------------------------------
(* The loop thread, in the order of loop().                                *)

(* Entry of loop(): a quit() that came before is forgotten.                *)
StartLoop ==
  /\ pc = "start"
  /\ m_quit' = FALSE
  /\ pc' = "while"
  /\ UNCHANGED <<inCallback, m_callPendingFunctors, functors, m_activeChannels,
                 m_pendingFunctors, m_wakeupFd, pushed, quitting, calls, queued, executed>>

(* Mutant: the loop does not look at m_quit.                               *)
WhileTrue ==
  /\ pc = "while"
  /\ pc' = "poll"
  /\ UNCHANGED <<inCallback, m_callPendingFunctors, functors, m_activeChannels, m_quit,
                 m_pendingFunctors, m_wakeupFd, pushed, quitting, calls, queued, executed>>

(* The test of the while loop.                                             *)
WhileNotQuit ==
  /\ pc = "while"
  /\ pc' = IF m_quit THEN "exited" ELSE "poll"
  /\ UNCHANGED <<inCallback, m_callPendingFunctors, functors, m_activeChannels, m_quit,
                 m_pendingFunctors, m_wakeupFd, pushed, quitting, calls, queued, executed>>

(* poll() returns with some of the ready channels.  A channel other than   *)
(* the wakeup channel may become ready at any time.                        *)
PollReturns(active) ==
  /\ pc = "poll"
  /\ active # {}
  /\ Wakeup \in active => Readable
  /\ m_activeChannels' = active
  /\ pc' = "events"
  /\ UNCHANGED <<inCallback, m_callPendingFunctors, functors, m_quit,
                 m_pendingFunctors, m_wakeupFd, pushed, quitting, calls, queued, executed>>

(* Ten seconds passed with nothing ready, or a signal interrupted the call.*)
PollTimeout ==
  /\ pc = "poll"
  /\ ~Readable
  /\ m_activeChannels' = {}
  /\ pc' = "events"
  /\ UNCHANGED <<inCallback, m_callPendingFunctors, functors, m_quit,
                 m_pendingFunctors, m_wakeupFd, pushed, quitting, calls, queued, executed>>

(* handleRead(): reading an eventfd takes its whole count.                 *)
HandleRead ==
  /\ pc = "events"
  /\ Wakeup \in m_activeChannels
  /\ m_wakeupFd' = 0
  /\ m_activeChannels' = m_activeChannels \ {Wakeup}
  /\ inCallback' = FALSE
  /\ UNCHANGED <<pc, m_callPendingFunctors, functors, m_quit,
                 m_pendingFunctors, pushed, quitting, calls, queued, executed>>

(* handleEvent() of another channel enters its callback.                   *)
HandleEvent(c) ==
  /\ pc = "events"
  /\ c \in m_activeChannels \ {Wakeup}
  /\ m_activeChannels' = m_activeChannels \ {c}
  /\ inCallback' = TRUE
  /\ UNCHANGED <<pc, m_callPendingFunctors, functors, m_quit,
                 m_pendingFunctors, m_wakeupFd, pushed, quitting, calls, queued, executed>>

(* doPendingFunctors() announces itself ...                                *)
EventsDone ==
  /\ pc = "events"
  /\ m_activeChannels = {}
  /\ m_callPendingFunctors' = TRUE
  /\ inCallback' = FALSE
  /\ pc' = "swap"
  /\ UNCHANGED <<functors, m_activeChannels, m_quit,
                 m_pendingFunctors, m_wakeupFd, pushed, quitting, calls, queued, executed>>

(* Mutant: the vector is copied instead of swapped.                        *)
CopyInsteadOfSwap ==
  /\ pc = "swap"
  /\ functors' = m_pendingFunctors
  /\ pc' = "functors"
  /\ UNCHANGED <<inCallback, m_callPendingFunctors, m_activeChannels, m_quit,
                 m_pendingFunctors, m_wakeupFd, pushed, quitting, calls, queued, executed>>

(* ... takes the whole vector, under m_mutex ...                           *)
Swap ==
  /\ pc = "swap"
  /\ functors' = m_pendingFunctors
  /\ m_pendingFunctors' = <<>>
  /\ pc' = "functors"
  /\ UNCHANGED <<inCallback, m_callPendingFunctors, m_activeChannels, m_quit,
                 m_wakeupFd, pushed, quitting, calls, queued, executed>>

(* Mutant: the batch is run from its back.                                 *)
RunLastFunctor ==
  /\ pc = "functors"
  /\ functors # <<>>
  /\ executed' = Append(executed, functors[Len(functors)])
  /\ functors' = SubSeq(functors, 1, Len(functors) - 1)
  /\ inCallback' = TRUE
  /\ UNCHANGED <<pc, m_callPendingFunctors, m_activeChannels, m_quit,
                 m_pendingFunctors, m_wakeupFd, pushed, quitting, calls, queued>>

(* ... runs it, front to back ...                                          *)
RunFunctor ==
  /\ pc = "functors"
  /\ functors # <<>>
  /\ executed' = Append(executed, Head(functors))
  /\ functors' = Tail(functors)
  /\ inCallback' = TRUE
  /\ UNCHANGED <<pc, m_callPendingFunctors, m_activeChannels, m_quit,
                 m_pendingFunctors, m_wakeupFd, pushed, quitting, calls, queued>>

(* ... and returns to the test of the while loop.                          *)
FunctorsDone ==
  /\ pc = "functors"
  /\ functors = <<>>
  /\ m_callPendingFunctors' = FALSE
  /\ inCallback' = FALSE
  /\ pc' = "while"
  /\ UNCHANGED <<functors, m_activeChannels, m_quit,
                 m_pendingFunctors, m_wakeupFd, pushed, quitting, calls, queued, executed>>

-----------------------------------------------------------------------------
PollActive == \E active \in SUBSET (Channels \union {Wakeup}) : PollReturns(active)

LoopStep ==
  \/ StartLoop \/ WhileNotQuit
  \/ HandleRead \/ \E c \in Channels : HandleEvent(c)
  \/ EventsDone \/ Swap \/ RunFunctor \/ FunctorsDone

Next ==
  \/ LoopStep
  \/ PollActive
  \/ PollTimeout
  \/ QueueInCallback \/ QuitInCallback
  \/ \E t \in Threads : QueueInLoop(t) \/ WakeupLoop(t) \/ Quit(t) \/ QuitReturns(t)

Spec == Init /\ [][Next]_vars

(* The loop thread keeps running, a thread that pushed goes on to its      *)
(* write, and epoll_wait returns when the eventfd is readable.             *)
Fairness ==
  /\ WF_vars(LoopStep)
  /\ WF_vars(Readable /\ PollActive)
  /\ \A t \in Threads : WF_vars(WakeupLoop(t))

(* No fairness of PollTimeout here: what FairSpec promises does not wait   *)
(* for the ten seconds of kPollTimsMS.                                     *)
FairSpec == Spec /\ Fairness

-----------------------------------------------------------------------------
(* Properties.                                                             *)

(* No lost wakeup: whenever the loop is about to block or blocked in       *)
(* poll() with functors pending, the eventfd is readable or the thread     *)
(* that queued one still has its write ahead of it.                        *)
NoLostWakeup ==
  pc = "poll" /\ m_pendingFunctors # <<>> => Readable \/ pushed # {}

(* Every functor handed to queueInLoop is, at any moment, in exactly one   *)
(* place - run, in the batch being run, or pending - and the places taken  *)
(* in that order keep the order of the calls: none is lost, duplicated or  *)
(* overtaken by the swap, even when functors queue functors.               *)
ExactlyOnceInOrder ==
  (executed \o functors) \o m_pendingFunctors = queued

(* The batches and the eventfd implement one queue run in order.           *)
Executor == INSTANCE FifoExecutor WITH queue <- functors \o m_pendingFunctors
ImplementsFifoExecutor == Executor!Spec

(* A queued functor is run, unless someone asks the loop to quit; this     *)
(* does not depend on the poll timeout.                                    *)
QueuedFunctorRuns ==
  \A f \in Functor :
    (\E i \in 1..Len(queued) : queued[i] = f)
      ~> (m_quit \/ \E i \in 1..Len(executed) : executed[i] = f)

(* A quit() that the running loop can see ends it, at the latest when the  *)
(* poll times out: this property, and only this one, relies on the timeout.*)
QuitEndsLoop ==
  WF_vars(PollTimeout) => ((m_quit /\ pc # "start") ~> (pc = "exited"))

(* What the comment in quit() says: another thread's quit() wakes the loop *)
(* (once it has returned).                                                 *)
QuitWakesLoop == pc = "poll" /\ m_quit => Readable \/ quitting # {}
=============================================================================
