--------------------------- MODULE EventLoopProofs ---------------------------
(***************************************************************************)
(* Proofs about EventLoop, and about the EventLoopThread that hosts it,    *)
(* for any number of threads and channels, any number of queueInLoop calls *)
(* and any eventfd maximum.                                                *)
(***************************************************************************)
EXTENDS EventLoopThread, SequenceTheorems, TLAPS

USE ThreadAssumption, ChannelAssumption, BoundAssumption
    DEF ThreadAssumption, ChannelAssumption, BoundAssumption

(* Appending to the second of two concatenated sequences appends to the    *)
(* whole: a push reaches the end of the queue whatever is already there.   *)
LEMMA ConcatAppend ==
  ASSUME NEW S, NEW s \in Seq(S), NEW t \in Seq(S), NEW e \in S
  PROVE  s \o Append(t, e) = Append(s \o t, e)
  <1>1. <<e>> \in Seq(S)
    OBVIOUS
  <1>2. s \o t \in Seq(S)
    BY ConcatProperties
  <1>3. s \o (t \o <<e>>) = (s \o t) \o <<e>>
    BY <1>1, ConcatAssociative
  <1>. QED
    BY <1>2, <1>3, AppendIsConcat

(* Moving the head of the second sequence to the end of the first leaves   *)
(* the whole unchanged: running a functor reorders nothing.                *)
LEMMA ConcatMoveHead ==
  ASSUME NEW S, NEW s \in Seq(S), NEW t \in Seq(S), t # <<>>
  PROVE  Append(s, Head(t)) \o Tail(t) = s \o t
  <1>1. /\ Head(t) \in S
        /\ Tail(t) \in Seq(S)
        /\ <<Head(t)>> \in Seq(S)
    BY HeadTailProperties
  <1>2. t = <<Head(t)>> \o Tail(t)
    BY <1>1
  <1>3. (s \o <<Head(t)>>) \o Tail(t) = s \o (<<Head(t)>> \o Tail(t))
    BY <1>1, ConcatAssociative
  <1>. QED
    BY <1>1, <1>2, <1>3, AppendIsConcat

-----------------------------------------------------------------------------
(* The functor a push enqueues is a functor.                               *)
LEMMA PushedFunctor ==
  ASSUME TypeOK, NEW t \in AllThreads, calls[t] < MaxQueue
  PROVE  /\ <<t, calls[t] + 1>> \in Functor
         /\ calls[t] + 1 \in 0..MaxQueue
  BY DEF TypeOK, Functor

(* The counter of the eventfd stays in its range and is positive after a   *)
(* write, including a write refused at the maximum.                        *)
LEMMA WrittenReadable ==
  ASSUME NEW n \in 0..EventFdMax
  PROVE  Written(n) \in 0..EventFdMax /\ Written(n) > 0
  BY DEF Written

(* An empty eventfd and a thread that never called are in range.           *)
LEMMA ZeroInRange == 0 \in 0..EventFdMax /\ 0 \in 0..MaxQueue
  OBVIOUS

(* Type correctness of every state of EventLoop.                           *)
THEOREM TypeCorrect == Spec => []TypeOK
  <1>1. Init => TypeOK
    BY ZeroInRange, EmptySeq DEF Init, TypeOK, PC
  <1>2. TypeOK /\ [Next]_vars => TypeOK'
    <2>. SUFFICES ASSUME TypeOK, [Next]_vars
                  PROVE  TypeOK'
      OBVIOUS
    <2>. USE DEF TypeOK, loopVars
    <2>1. CASE StartLoop
      BY <2>1 DEF StartLoop, PC
    <2>2. CASE WhileNotQuit
      BY <2>2 DEF WhileNotQuit, PC
    <2>3. CASE PollActive
      BY <2>3 DEF PollActive, PollReturns, PC
    <2>4. CASE PollTimeout
      BY <2>4 DEF PollTimeout, PC
    <2>5. CASE HandleRead
      BY <2>5, ZeroInRange DEF HandleRead
    <2>6. ASSUME NEW c \in Channels, HandleEvent(c)
          PROVE  TypeOK'
      BY <2>6 DEF HandleEvent
    <2>7. CASE EventsDone
      BY <2>7 DEF EventsDone, PC
    <2>8. CASE Swap
      BY <2>8 DEF Swap, PC
    <2>9. CASE RunFunctor
      BY <2>9, HeadTailProperties, AppendProperties DEF RunFunctor
    <2>10. CASE FunctorsDone
      BY <2>10 DEF FunctorsDone, PC
    <2>11. CASE QueueInCallback
      BY <2>11, PushedFunctor, WrittenReadable, AppendProperties
         DEF QueueInCallback, Push, AllThreads
    <2>12. CASE QuitInCallback
      BY <2>12, WrittenReadable DEF QuitInCallback
    <2>13. ASSUME NEW t \in Threads, QueueInLoop(t)
           PROVE  TypeOK'
      BY <2>13, PushedFunctor, AppendProperties DEF QueueInLoop, Push, AllThreads
    <2>14. ASSUME NEW t \in Threads, WakeupLoop(t)
           PROVE  TypeOK'
      BY <2>14, WrittenReadable DEF WakeupLoop
    <2>15. ASSUME NEW t \in Threads, Quit(t) \/ QuitReturns(t)
           PROVE  TypeOK'
      BY <2>15 DEF Quit, QuitReturns
    <2>16. CASE UNCHANGED vars
      BY <2>16 DEF vars
    <2>. QED
      BY <2>1, <2>2, <2>3, <2>4, <2>5, <2>6, <2>7, <2>8, <2>9, <2>10, <2>11,
         <2>12, <2>13, <2>14, <2>15, <2>16 DEF Next, LoopStep
  <1>. QED
    BY <1>1, <1>2, PTL DEF Spec

-----------------------------------------------------------------------------
(* The strengthening that makes NoLostWakeup inductive.  Between a swap    *)
(* and the next poll nobody may leave functors behind unannounced; during  *)
(* the events and up to the swap the eventfd may well be empty, because    *)
(* the swap is still to come.                                              *)
Announced == m_pendingFunctors # <<>> => Readable \/ pushed # {}

(* The flags against the program counter, and the announcement.            *)
WakeupInv ==
  /\ m_callPendingFunctors <=> pc \in {"swap", "functors"}
  /\ inCallback => pc \in {"events", "functors"}
  /\ functors # <<>> => pc = "functors"
  /\ pc \in {"start", "functors", "while", "poll"} => Announced

(* Every functor pending while the loop sleeps in poll() is announced by   *)
(* the eventfd, or by a queueInLoop that is about to write it.             *)
THEOREM NoWakeupIsLost == Spec => [](WakeupInv /\ NoLostWakeup)
  <1>1. Init => WakeupInv
    BY DEF Init, WakeupInv, Announced
  <1>2. TypeOK /\ WakeupInv /\ [Next]_vars => WakeupInv'
    <2>. SUFFICES ASSUME TypeOK, WakeupInv, [Next]_vars
                  PROVE  WakeupInv'
      OBVIOUS
    <2>. USE DEF WakeupInv, Announced, Readable, loopVars
    <2>1. CASE StartLoop
      BY <2>1 DEF StartLoop
    <2>2. CASE WhileNotQuit
      BY <2>2 DEF WhileNotQuit
    <2>3. CASE PollActive
      BY <2>3 DEF PollActive, PollReturns
    <2>4. CASE PollTimeout
      BY <2>4 DEF PollTimeout
    <2>5. CASE HandleRead
      BY <2>5 DEF HandleRead
    <2>6. ASSUME NEW c \in Channels, HandleEvent(c)
          PROVE  WakeupInv'
      BY <2>6 DEF HandleEvent
    <2>7. CASE EventsDone
      BY <2>7 DEF EventsDone
    <2>8. CASE Swap
      BY <2>8 DEF Swap
    <2>9. CASE RunFunctor
      BY <2>9 DEF RunFunctor
    <2>10. CASE FunctorsDone
      BY <2>10 DEF FunctorsDone
    <2>11. CASE QueueInCallback
      \* In a channel's callback nothing is claimed; in a functor the flag
      \* is set, so the eventfd has just been written.
      <3>1. m_callPendingFunctors => m_wakeupFd' > 0
        BY <2>11, WrittenReadable DEF QueueInCallback, TypeOK
      <3>. QED
        BY <2>11, <3>1 DEF QueueInCallback
    <2>12. CASE QuitInCallback
      <3>1. Readable => Readable'
        BY <2>12, WrittenReadable DEF QuitInCallback, TypeOK
      <3>. QED
        BY <2>12, <3>1 DEF QuitInCallback
    <2>13. ASSUME NEW t \in Threads, QueueInLoop(t)
           PROVE  WakeupInv'
      BY <2>13 DEF QueueInLoop
    <2>14. ASSUME NEW t \in Threads, WakeupLoop(t)
           PROVE  WakeupInv'
      <3>1. Readable'
        BY <2>14, WrittenReadable DEF WakeupLoop, TypeOK
      <3>. QED
        BY <2>14, <3>1 DEF WakeupLoop
    <2>15. ASSUME NEW t \in Threads, Quit(t) \/ QuitReturns(t)
           PROVE  WakeupInv'
      BY <2>15 DEF Quit, QuitReturns
    <2>16. CASE UNCHANGED vars
      BY <2>16 DEF vars
    <2>. QED
      BY <2>1, <2>2, <2>3, <2>4, <2>5, <2>6, <2>7, <2>8, <2>9, <2>10, <2>11,
         <2>12, <2>13, <2>14, <2>15, <2>16 DEF Next, LoopStep
  <1>3. WakeupInv => NoLostWakeup
    BY DEF WakeupInv, Announced, NoLostWakeup
  <1>. QED
    BY <1>1, <1>2, <1>3, TypeCorrect, PTL DEF Spec

-----------------------------------------------------------------------------
(* The abstract queue: the batch being run, then what is pending.          *)
Abstract == functors \o m_pendingFunctors

(* A push appends to the abstract queue.                                   *)
LEMMA PushAppends ==
  ASSUME TypeOK, NEW t \in AllThreads, Push(t), UNCHANGED functors
  PROVE  \E f \in Functor : /\ Abstract' = Append(Abstract, f)
                            /\ queued' = Append(queued, f)
  <1>1. calls[t] < MaxQueue
    BY DEF Push
  <1>2. <<t, calls[t] + 1>> \in Functor
    BY <1>1, PushedFunctor
  <1>3. functors \in Seq(Functor) /\ m_pendingFunctors \in Seq(Functor)
    BY DEF TypeOK
  <1>4. \A f \in Functor : functors \o Append(m_pendingFunctors, f)
                             = Append(functors \o m_pendingFunctors, f)
    BY ONLY <1>3, ConcatAppend
  <1>5. functors \o Append(m_pendingFunctors, <<t, calls[t] + 1>>)
          = Append(functors \o m_pendingFunctors, <<t, calls[t] + 1>>)
    BY ONLY <1>2, <1>4
  <1>. QED
    BY <1>2, <1>5 DEF Push, Abstract

(* The swap leaves the abstract queue alone, because the previous batch    *)
(* has been run to its end.                                                *)
LEMMA SwapKeeps ==
  ASSUME TypeOK, WakeupInv, Swap
  PROVE  UNCHANGED Abstract
  <1>1. functors = <<>>
    BY DEF Swap, WakeupInv
  <1>2. <<>> \o m_pendingFunctors = m_pendingFunctors \o <<>>
    BY ConcatEmptySeq DEF TypeOK
  <1>. QED
    BY <1>1, <1>2 DEF Swap, Abstract

(* Running a functor takes the head of the abstract queue.                 *)
LEMMA RunTakesHead ==
  ASSUME TypeOK, RunFunctor
  PROVE  /\ Abstract # <<>>
         /\ Head(Abstract) = Head(functors)
         /\ Abstract' = Tail(Abstract)
  <1>1. /\ functors \in Seq(Functor) /\ m_pendingFunctors \in Seq(Functor)
        /\ functors # <<>>
    BY DEF TypeOK, RunFunctor
  <1>2. /\ Head(functors) \in Functor
        /\ Tail(functors) \in Seq(Functor)
        /\ functors = <<Head(functors)>> \o Tail(functors)
        /\ <<Head(functors)>> \in Seq(Functor)
    BY <1>1, HeadTailProperties
  <1>3. Abstract = <<Head(functors)>> \o (Tail(functors) \o m_pendingFunctors)
    BY <1>1, <1>2, ConcatAssociative DEF Abstract
  <1>4. Tail(functors) \o m_pendingFunctors \in Seq(Functor)
    BY <1>1, <1>2, ConcatProperties
  <1>5. /\ Abstract # <<>>
        /\ Head(Abstract) = Head(functors)
        /\ Tail(Abstract) = Tail(functors) \o m_pendingFunctors
    BY <1>2, <1>3, <1>4
  <1>. QED
    BY <1>5 DEF RunFunctor, Abstract

(* Every step of the loop and of its callers is a step of FifoExecutor on  *)
(* the abstract queue, or leaves it alone.                                 *)
LEMMA StepSimulation ==
  ASSUME TypeOK, WakeupInv, [Next]_vars
  PROVE  \/ \E f \in Functor : /\ Abstract' = Append(Abstract, f)
                               /\ queued' = Append(queued, f)
                               /\ UNCHANGED executed
         \/ /\ Abstract # <<>>
            /\ executed' = Append(executed, Head(Abstract))
            /\ Abstract' = Tail(Abstract)
            /\ UNCHANGED queued
         \/ UNCHANGED <<Abstract, executed, queued>>
  <1>1. CASE RunFunctor
    BY <1>1, RunTakesHead DEF RunFunctor
  <1>2. CASE Swap
    BY <1>2, SwapKeeps DEF Swap
  <1>3. CASE QueueInCallback
    BY <1>3, PushAppends DEF QueueInCallback, loopVars, AllThreads
  <1>4. ASSUME NEW t \in Threads, QueueInLoop(t)
        PROVE  \E f \in Functor : /\ Abstract' = Append(Abstract, f)
                                  /\ queued' = Append(queued, f)
                                  /\ UNCHANGED executed
    BY <1>4, PushAppends DEF QueueInLoop, loopVars, AllThreads
  <1>5. CASE UNCHANGED <<functors, m_pendingFunctors, executed, queued>>
    BY <1>5 DEF Abstract
  <1>. QED
    BY <1>1, <1>2, <1>3, <1>4, <1>5
       DEF Next, LoopStep, StartLoop, WhileNotQuit, PollActive, PollReturns,
           PollTimeout, HandleRead, HandleEvent, EventsDone, FunctorsDone,
           QuitInCallback, Quit, QuitReturns, WakeupLoop, loopVars, vars

(* The loop with its threads, batches and eventfd implements FifoExecutor. *)
THEOREM Refinement == Spec => ImplementsFifoExecutor
  <1>1. Init => Executor!Init
    BY ConcatEmptySeq, EmptySeq DEF Init, Executor!Init
  <1>2. TypeOK /\ WakeupInv /\ [Next]_vars => [Executor!Next]_(Executor!vars)
    BY StepSimulation
       DEF Abstract, Executor!Next, Executor!Submit, Executor!Execute, Executor!vars
  <1>. QED
    BY <1>1, <1>2, TypeCorrect, NoWakeupIsLost, PTL
       DEF Spec, ImplementsFifoExecutor, Executor!Spec

(* No functor is lost, run twice or overtaken.                             *)
THEOREM RunsExactlyOnceInOrder == Spec => []ExactlyOnceInOrder
  <1>. DEFINE I == executed \o Abstract = queued
  <1>1. Init => I
    BY ConcatEmptySeq, EmptySeq DEF Init, Abstract
  <1>2. TypeOK /\ WakeupInv /\ I /\ [Next]_vars => I'
    <2>. SUFFICES ASSUME TypeOK, WakeupInv, I, [Next]_vars
                  PROVE  I'
      OBVIOUS
    <2>1. executed \in Seq(Functor) /\ Abstract \in Seq(Functor)
      BY ConcatProperties DEF TypeOK, Abstract
    <2>2. ASSUME NEW f \in Functor, Abstract' = Append(Abstract, f),
                 queued' = Append(queued, f), UNCHANGED executed
          PROVE  I'
      BY <2>1, <2>2, ConcatAppend
    <2>3. CASE /\ Abstract # <<>>
               /\ executed' = Append(executed, Head(Abstract))
               /\ Abstract' = Tail(Abstract)
               /\ UNCHANGED queued
      BY <2>1, <2>3, ConcatMoveHead
    <2>4. CASE UNCHANGED <<Abstract, executed, queued>>
      BY <2>4
    <2>. QED
      BY <2>2, <2>3, <2>4, StepSimulation
  <1>3. TypeOK /\ I => ExactlyOnceInOrder
    <2>1. TypeOK => (executed \o functors) \o m_pendingFunctors = executed \o Abstract
      BY ConcatAssociative DEF TypeOK, Abstract
    <2>. QED
      BY <2>1 DEF ExactlyOnceInOrder
  <1>. QED
    BY <1>1, <1>2, <1>3, TypeCorrect, NoWakeupIsLost, PTL DEF Spec

-----------------------------------------------------------------------------
(* Every step of a program that hosts the loop is a step of EventLoop, or  *)
(* leaves it alone.                                                        *)
LEMMA HostStep == [HostNext]_allVars => [Next]_vars
  <1>. SUFFICES ASSUME [HostNext]_allVars
                PROVE  [Next]_vars
    OBVIOUS
  <1>1. CASE OwnerStep
    BY <1>1, OwnerAssumption
       DEF OwnerAssumption, OwnerStep, StartThread, SemWait, DestroyQuits,
           DestroyQuitReturns, Join, Next
  <1>2. CASE WaitForLoop \/ Destroy
    BY <1>2 DEF WaitForLoop, Destroy
  <1>3. CASE NewThread
    BY <1>3 DEF NewThread, EnterThreadFunc, Publish, LeaveThreadFunc, EndThread
  <1>4. CASE LoopThreadStep
    BY <1>4 DEF LoopThreadStep, Next
  <1>5. CASE PollActive \/ PollTimeout \/ QueueInCallback \/ QuitInCallback
    BY <1>5 DEF Next
  <1>6. CASE \E t \in Threads : Quit(t) \/ QuitReturns(t)
    BY <1>6 DEF Next
  <1>7. CASE \E t \in Threads : QueueInLoop(t) \/ ThreadWakes(t)
    BY <1>7 DEF ThreadWakes, Next
  <1>8. CASE UNCHANGED allVars
    BY <1>8 DEF allVars
  <1>. QED
    BY <1>1, <1>2, <1>3, <1>4, <1>5, <1>6, <1>7, <1>8 DEF HostNext

(* A loop on the stack of its thread, started and destroyed by its owner,  *)
(* behaves as EventLoop says: what is proved of EventLoop holds of it.     *)
THEOREM HostImplementsLoop == HostSpec => Spec
  <1>1. HostInit => Init
    BY DEF HostInit
  <1>. QED
    BY <1>1, HostStep, PTL DEF HostSpec, Spec

(* What makes the pointers safe.  The thread publishes its loop before the *)
(* owner runs on; as only the destructor quits a hosted loop, the thread   *)
(* cannot leave loop() before quit() has set m_quit; and the destructor    *)
(* starts only when nobody is in queueInLoop any more.  Nothing is claimed *)
(* from then on, while the owner is still in quit().                       *)
HostInv ==
  hosted =>
    /\ m_loop <=> threadPc = "loop"
    /\ ownerPc = "new" => threadPc = "none"
    /\ ownerPc \in {"new", "sem_wait", "lock", "wait", "running", "quit"} =>
         ~m_quit /\ pc # "exited" /\ threadPc \notin {"leaving", "ended"}
    /\ ownerPc \in {"running", "quit"} => threadPc = "loop"
    /\ pushed # {} => ownerPc = "running"
    /\ ownerPc \in {"new", "sem_wait", "lock", "wait", "running", "quit", "quitting",
                   "join", "gone"}

(* m_loop, the pointer with which the destructor enters quit(), and the    *)
(* pointer a thread in queueInLoop writes through never outlive the        *)
(* EventLoop on the stack of threadFunc().  (The rest of quit() may: it    *)
(* reads m_tid after it has let the thread go.)                            *)
THEOREM EntryNeverDangles == HostSpec => [](HostInv /\ NoDanglingEntry)
  <1>1. HostInit => HostInv
    BY DEF HostInit, Init, HostInv
  <1>2. HostInv /\ [HostNext]_allVars => HostInv'
    <2>. SUFFICES ASSUME HostInv, [HostNext]_allVars
                  PROVE  HostInv'
      OBVIOUS
    <2>. USE DEF HostInv, hostVars, loopVars, OwnerGoes
    <2>1. CASE StartThread
      BY <2>1 DEF StartThread, vars
    <2>2. CASE SemWait
      BY <2>2 DEF SemWait, vars
    <2>3. CASE WaitForLoop
      BY <2>3 DEF WaitForLoop, vars
    <2>4. CASE Destroy
      BY <2>4 DEF Destroy, vars
    <2>5. CASE DestroyQuits \/ DestroyQuitReturns
      BY <2>5 DEF DestroyQuits, DestroyQuitReturns, Quit, QuitReturns
    <2>6. CASE Join
      BY <2>6 DEF Join, vars
    <2>7. CASE NewThread
      BY <2>7 DEF NewThread, EnterThreadFunc, Publish, LeaveThreadFunc, EndThread, vars
    <2>8. CASE LoopThreadStep
      BY <2>8 DEF LoopThreadStep, LoopStep, StartLoop, WhileNotQuit, HandleRead,
         HandleEvent,
                  EventsDone, Swap, RunFunctor, FunctorsDone
    <2>9. CASE (PollActive \/ PollTimeout \/ QueueInCallback) /\ UNCHANGED hostVars
      BY <2>9 DEF PollActive, PollReturns, PollTimeout, QueueInCallback
    <2>10. CASE ~hosted /\ UNCHANGED hostVars
      BY <2>10
    <2>11. ASSUME NEW t \in Threads, InUse /\ QueueInLoop(t) /\ UNCHANGED hostVars
           PROVE  HostInv'
      BY <2>11 DEF InUse, QueueInLoop
    <2>12. ASSUME NEW t \in Threads, ThreadWakes(t)
           PROVE  HostInv'
      BY <2>12 DEF ThreadWakes, WakeupLoop
    <2>13. CASE UNCHANGED allVars
      BY <2>13 DEF allVars, vars
    <2>. QED
      BY <2>1, <2>2, <2>3, <2>4, <2>5, <2>6, <2>7, <2>8, <2>9, <2>10, <2>11, <2>12,
         <2>13 DEF HostNext, OwnerStep
  <1>3. HostInv => NoDanglingEntry
    BY DEF HostInv, NoDanglingEntry, Alive
  <1>. QED
    BY <1>1, <1>2, <1>3, PTL DEF HostSpec
=============================================================================
